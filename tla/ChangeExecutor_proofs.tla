----------------------- MODULE ChangeExecutor_proofs -----------------------
(***************************************************************************)
(* One execution per slot, for any number of callers, claims, instants and *)
(* paths.  The attempt's record carries the nonce of the one call that may *)
(* be past it: Attempted(p) says whose it is, and CallerOK what it lets a  *)
(* call be in the middle of.  A step that only changes its caller's locals *)
(* keeps ExecutorInv when the caller's own part is kept (LocalKeeps); the  *)
(* steps that commit go through ApplyKeeps and ReplayKeeps.                *)
(***************************************************************************)
EXTENDS ExecutionEvidence, WellOrder, SequenceTheorems, TLAPS

(* Steps before an attempt is committed, from there to the adapter, from   *)
(* the adapter to a verdict, and with a verdict.                           *)
Early == {"ResolveIntent", "Switch1", "Boot", "LoadIntent", "CommitIntent",
          "LoadAttempt", "CommitAttempt"}
Late == {"Switch2", "Barrier", "Adapter"}
After == {"Reobserve", "Rollback"}
Ending == {"LoadReceipt", "CommitReceipt"}

Has(k) == \E i \in DOMAIN log : log[i].kind = k
Attempted(p) ==
    \E i \in DOMAIN log : log[i].kind = "attempt" /\ log[i].rec.nonce = p
Succeeded ==
    \E i \in DOMAIN log :
        log[i].kind = "receipt" /\ log[i].rec.outcome = "SUCCEEDED"

(* The records of a kind in the slot have one body. *)
OneBody ==
    \A i, j \in DOMAIN log :
        log[i].kind \in Kind /\ log[i].kind = log[j].kind => log[i].rec = log[j].rec

(* What the log says of the adapter's calls and of the worktree. *)
SlotOK ==
    /\ calls \in {0, 1}
    /\ calls = 1 \/ Has("receipt") => Has("attempt")
    /\ Succeeded => calls = 1 /\ Matched

(* What locals c of caller p rest on. *)
CallerOK(p, c) ==
    /\ c.pc # "idle" => c.token \in Tokens /\ c.instant \in Instants
    /\ c.base <= Revision
    /\ c.pc \in Early => ~Attempted(p)
    /\ c.pc \in Late \cup After => Attempted(p)
    /\ c.pc \in Late =>
          /\ calls = 0 /\ c.post <= Revision
          /\ c.post = Revision => ~Has("receipt")
    /\ c.pc = "Barrier" /\ c.post = Revision => SwitchAt(c.post) = "ACTIVE"
    /\ c.pc = "Adapter" => SwitchAt(c.post) = "ACTIVE"
    /\ c.pc \in After => calls = 1 /\ ~Succeeded /\ c.report \in Report
    /\ c.pc \in Ending => Has("attempt") /\ c.outcome \in Outcome
    /\ c.pc \in Ending /\ c.outcome = "SUCCEEDED" =>
          Attempted(p) /\ calls = 1 /\ Matched
    /\ c.returned # None => Has("receipt") /\ c.returned = Resolved("receipt")

ExecutorInv ==
    TypeOK /\ OneBody /\ SlotOK /\ \A p \in Callers : CallerOK(p, call[p])

-----------------------------------------------------------------------------
(* Reading the log. *)

(* A revision's record kinds fix what its body is. *)
LEMMA LogTypes ==
  ASSUME TypeOK, NEW i \in DOMAIN log
  PROVE  /\ log[i] \in Transition
         /\ log[i].kind = "intent" => log[i].rec \in IntentType
         /\ log[i].kind = "attempt" => log[i].rec \in AttemptType
         /\ log[i].kind = "receipt" => log[i].rec \in ReceiptType
<1>1. log[i] \in Transition
  BY DEF TypeOK
<1> QED
  BY <1>1 DEF Transition

(* resolve_record finds the slot's record of a kind, if there is one. *)
LEMMA ResolvedFact ==
  ASSUME TypeOK, OneBody, NEW k \in Kind
  PROVE  /\ ~Has(k) => Resolved(k) = None
         /\ Has(k) => Resolved(k) # None
         /\ \A i \in DOMAIN log : log[i].kind = k => Resolved(k) = log[i].rec
<1>1. ASSUME NEW i \in DOMAIN log, log[i].kind = k
      PROVE  Resolved(k) = log[i].rec
  <2> DEFINE j == CHOOSE j \in DOMAIN log : log[j].kind = k
  <2>1. j \in DOMAIN log /\ log[j].kind = k
    BY <1>1
  <2> HIDE DEF j
  <2>2. log[j].rec = log[i].rec
    BY <1>1, <2>1 DEF OneBody
  <2> QED
    BY <1>1, <2>2 DEF Resolved, j
<1>2. ASSUME NEW i \in DOMAIN log, log[i].kind = k
      PROVE  log[i].rec # None
  BY <1>2, LogTypes, BodyAssumption DEF Kind
<1> QED
  BY <1>1, <1>2 DEF Has, Resolved

(* What the kill switch was in a State does not change with later States. *)
LEMMA SwitchStays ==
  ASSUME TypeOK, NEW e, log' = Append(log, e), NEW n \in Nat, n <= Revision
  PROVE  SwitchAt(n)' = SwitchAt(n)
<1>1. Len(log) \in Nat /\ \A i \in 1 .. n : i \in DOMAIN log /\ log'[i] = log[i]
  BY DEF TypeOK, Revision
<1> DEFINE moves == {i \in 1 .. n : log[i].kind = "switch"}
<1> DEFINE moved == {i \in 1 .. n : log'[i].kind = "switch"}
<1> DEFINE last(S) == CHOOSE i \in S : \A j \in S : j <= i
<1>2. moved = moves
  BY <1>1
<1>3. moves # {} => last(moves) \in moves
  <2>1. moves \in SUBSET (1 .. n)
    OBVIOUS
  <2> QED
    BY <2>1, GreatestBelow
<1>4. moves # {} => log'[last(moves)] = log[last(moves)]
  BY <1>1, <1>3
<1>5. SwitchAt(n) = IF moves = {} THEN None ELSE log[last(moves)].rec
  BY DEF SwitchAt
<1>6. SwitchAt(n)' = IF moved = {} THEN None ELSE log'[last(moved)].rec
  BY DEF SwitchAt
<1>7. SwitchAt(n)' = IF moves = {} THEN None ELSE log'[last(moves)].rec
  BY <1>2, <1>6, Zenon
<1>8. CASE moves = {}
  BY <1>5, <1>7, <1>8, Zenon
<1>9. CASE moves # {}
  BY <1>4, <1>5, <1>7, <1>9, Zenon
<1> QED
  BY <1>8, <1>9, Zenon

-----------------------------------------------------------------------------
(* The shapes of steps. *)

(* The locals of an idle caller. *)
LEMMA IdleType ==
  ASSUME TypeOK
  PROVE  /\ Idle \in Call
         /\ \A p : CallerOK(p, Idle)
<1>1. Idle \in Call
  BY BoundAssumption DEF Idle, Call, Step
<1>2. Len(log) \in Nat
  BY DEF TypeOK
<1> QED
  BY <1>1, <1>2 DEF Idle, CallerOK, Early, Late, After, Ending, Revision

(* A step that appends nothing and leaves the worktree alone. *)
LEMMA LocalKeeps ==
  ASSUME ExecutorInv, NEW p \in Callers, NEW c \in Call, Become(p, c),
         UNCHANGED <<log, tree, calls>>, CallerOK(p, c),
         view' \in Nat, leftover' \in SUBSET (Kind \X Nat)
  PROVE  ExecutorInv'
<1>1. TypeOK'
  BY DEF ExecutorInv, TypeOK, Become
<1>2. OneBody' /\ SlotOK'
  BY DEF ExecutorInv, OneBody, SlotOK, Has, Succeeded, Matched
<1>3. ASSUME NEW q \in Callers PROVE CallerOK(q, call[q])'
  <2> DEFINE d == IF q = p THEN c ELSE call[q]
  <2>1. call'[q] = d
    BY DEF ExecutorInv, TypeOK, Become
  <2>2. CallerOK(q, d)
    BY DEF ExecutorInv
  <2> HIDE DEF d
  <2> QED
    BY <2>1, <2>2 DEF CallerOK, Has, Attempted, Succeeded, Matched, Revision,
                      SwitchAt, Resolved
<1> QED
  BY <1>1, <1>2, <1>3 DEF ExecutorInv

(* A call that raises or dies leaves no locals. *)
LEMMA RaiseKeeps ==
  ASSUME ExecutorInv, NEW p \in Callers, Raise(p), UNCHANGED <<log, tree, calls>>,
         view' \in Nat, leftover' \in SUBSET (Kind \X Nat)
  PROVE  ExecutorInv'
<1>1. Idle \in Call /\ CallerOK(p, Idle)
  BY IdleType DEF ExecutorInv
<1> QED
  BY <1>1, LocalKeeps DEF Raise

(* What every caller's locals are. *)
LEMMA CallFact ==
  ASSUME ExecutorInv, NEW p \in Callers
  PROVE  /\ call[p] \in Call /\ CallerOK(p, call[p])
         /\ Len(log) \in Nat /\ view \in Nat /\ leftover \in SUBSET (Kind \X Nat)
BY DEF ExecutorInv, TypeOK

(* A call goes on to a step whose conditions hold. *)
LEMMA GotoKeeps ==
  ASSUME ExecutorInv, NEW p \in Callers, NEW step \in Step, Goto(p, step), Locally,
         CallerOK(p, [call[p] EXCEPT !.pc = step])
  PROVE  ExecutorInv'
<1>1. [call[p] EXCEPT !.pc = step] \in Call
  BY CallFact DEF Call
<1> QED
  BY <1>1, LocalKeeps, CallFact DEF Goto, Locally, store

(* A call that has its verdict goes on to commit it. *)
LEMMA ConcludeKeeps ==
  ASSUME ExecutorInv, NEW p \in Callers, NEW outcome \in Outcome,
         ~At(p, "idle"), Has("attempt"),
         outcome = "SUCCEEDED" => Attempted(p) /\ calls = 1 /\ Matched,
         Conclude(p, outcome), Locally
  PROVE  ExecutorInv'
<1> DEFINE c == [call[p] EXCEPT !.pc = "LoadReceipt", !.outcome = outcome, !.tries = 0]
<1>0. 0 \in 0 .. MaxRetries
  BY BoundAssumption
<1>1. c \in Call
  BY <1>0, CallFact DEF Call, Step
<1>2. CallerOK(p, c)
  BY CallFact DEF CallerOK, Call, At, Early, Late, After, Ending
<1>3. Become(p, c)
  BY DEF Conclude
<1> HIDE DEF c
<1> QED
  BY <1>1, <1>2, <1>3, LocalKeeps, CallFact DEF Locally, store

-----------------------------------------------------------------------------
(* Resolution and admission. *)

LEMMA ExecuteKeeps ==
  ASSUME ExecutorInv, NEW p \in Callers, NEW token \in Tokens,
         NEW instant \in Instants, Execute(p, token, instant)
  PROVE  ExecutorInv'
<1> DEFINE c == [Idle EXCEPT !.pc = "ResolveReceipt", !.token = token,
                             !.instant = instant]
<1>1. c \in Call
  BY IdleType DEF ExecutorInv, Call, Step
<1>2. CallerOK(p, c)
  BY CallFact DEF CallerOK, Idle, Early, Late, After, Ending, Revision
<1>3. Become(p, c)
  BY DEF Execute
<1> HIDE DEF c
<1> QED
  BY <1>1, <1>2, <1>3, LocalKeeps, CallFact DEF Execute, Locally, store

(* What is replayed to a caller is the slot's receipt. *)
LEMMA ResolveReceiptKeeps ==
  ASSUME ExecutorInv, NEW p \in Callers, NEW reuse \in BOOLEAN,
         ResolveReceipt(p, reuse)
  PROVE  ExecutorInv'
<1>1. CASE Goto(p, "ResolveAttempt")
  <2>1. CallerOK(p, [call[p] EXCEPT !.pc = "ResolveAttempt"])
    BY CallFact DEF ResolveReceipt, At, Call, CallerOK, Early, Late, After, Ending
  <2> QED
    BY <1>1, <2>1, GotoKeeps DEF ResolveReceipt, Step
<1>2. CASE Resolved("receipt") # None /\ Return(p, Resolved("receipt"))
  <2> DEFINE c == [Idle EXCEPT !.returned = Resolved("receipt")]
  <2>1. Has("receipt") /\ Resolved("receipt") \in ReceiptType
    BY <1>2, ResolvedFact, LogTypes DEF ExecutorInv, Kind, Has
  <2>2. c \in Call
    BY <2>1, IdleType DEF ExecutorInv, Call
  <2>3. CallerOK(p, c)
    BY <2>1, CallFact DEF CallerOK, Idle, Early, Late, After, Ending, Revision
  <2>4. Become(p, c)
    BY <1>2 DEF Return
  <2> HIDE DEF c
  <2> QED
    BY <2>2, <2>3, <2>4, LocalKeeps, CallFact DEF ResolveReceipt, Locally, store
<1>3. CASE Raise(p)
  BY <1>3, RaiseKeeps, CallFact DEF ResolveReceipt, Locally, store
<1> QED
  BY <1>1, <1>2, <1>3 DEF ResolveReceipt

(* Only a call that finds no attempt may still make one. *)
LEMMA ResolveAttemptKeeps ==
  ASSUME ExecutorInv, NEW p \in Callers, ResolveAttempt(p)
  PROVE  ExecutorInv'
<1>1. CASE Resolved("attempt") = None /\ Goto(p, "ResolveIntent")
  <2>1. ~Attempted(p)
    BY <1>1, ResolvedFact DEF ExecutorInv, Kind, Has, Attempted
  <2>2. CallerOK(p, [call[p] EXCEPT !.pc = "ResolveIntent"])
    BY <2>1, CallFact
       DEF ResolveAttempt, At, Call, CallerOK, Early, Late, After, Ending
  <2> QED
    BY <1>1, <2>2, GotoKeeps DEF ResolveAttempt, Step
<1>2. CASE Resolved("attempt") # None /\ Conclude(p, "UNKNOWN")
  <2>1. Has("attempt")
    BY <1>2, ResolvedFact DEF ExecutorInv, Kind
  <2> QED
    BY <1>2, <2>1, ConcludeKeeps DEF ResolveAttempt, At, Outcome
<1>3. CASE Raise(p)
  BY <1>3, RaiseKeeps, CallFact DEF ResolveAttempt, Locally, store
<1> QED
  BY <1>1, <1>2, <1>3 DEF ResolveAttempt

LEMMA ResolveIntentKeeps ==
  ASSUME ExecutorInv, NEW p \in Callers, ResolveIntent(p)
  PROVE  ExecutorInv'
<1> DEFINE resumes == Resolved("intent") # None
                      /\ Resolved("intent").token = call[p].token
<1> DEFINE c == [call[p] EXCEPT !.pc = "Switch1", !.resuming = resumes]
<1>1. CASE Become(p, c)
  <2>0. resumes \in BOOLEAN
    BY Zenon
  <2> HIDE DEF resumes
  <2>1. c \in Call
    BY <2>0, CallFact DEF Call, Step
  <2>2. CallerOK(p, c)
    BY CallFact DEF ResolveIntent, At, Call, CallerOK, Early, Late, After, Ending
  <2> HIDE DEF c
  <2> QED
    BY <1>1, <2>1, <2>2, LocalKeeps, CallFact DEF ResolveIntent, Locally, store
<1>2. CASE Raise(p)
  BY <1>2, RaiseKeeps, CallFact DEF ResolveIntent, Locally, store
<1> QED
  BY <1>1, <1>2 DEF ResolveIntent

LEMMA Switch1Keeps ==
  ASSUME ExecutorInv, NEW p \in Callers, Switch1(p)
  PROVE  ExecutorInv'
<1>1. CASE Goto(p, "Boot")
  <2>1. CallerOK(p, [call[p] EXCEPT !.pc = "Boot"])
    BY CallFact DEF Switch1, At, Call, CallerOK, Early, Late, After, Ending
  <2> QED
    BY <1>1, <2>1, GotoKeeps DEF Switch1, Step
<1>2. CASE Raise(p)
  BY <1>2, RaiseKeeps, CallFact DEF Switch1, Locally, store
<1> QED
  BY <1>1, <1>2 DEF Switch1

LEMMA BootKeeps ==
  ASSUME ExecutorInv, NEW p \in Callers, Boot(p)
  PROVE  ExecutorInv'
<1> DEFINE c == [call[p] EXCEPT !.pc = "LoadIntent", !.tries = 0]
<1>1. CASE Become(p, c)
  <2>0. 0 \in 0 .. MaxRetries
    BY BoundAssumption
  <2>1. c \in Call
    BY <2>0, CallFact DEF Call, Step
  <2>2. CallerOK(p, c)
    BY CallFact DEF Boot, At, Call, CallerOK, Early, Late, After, Ending
  <2> HIDE DEF c
  <2> QED
    BY <1>1, <2>1, <2>2, LocalKeeps, CallFact DEF Boot, Locally, store
<1>2. CASE Raise(p)
  BY <1>2, RaiseKeeps, CallFact DEF Boot, Locally, store
<1> QED
  BY <1>1, <1>2 DEF Boot

(* A pending transaction refuses an admission check. *)
LEMMA MeetsPendingKeeps ==
  ASSUME ExecutorInv, NEW p \in Callers, MeetsPending(p)
  PROVE  ExecutorInv'
BY RaiseKeeps, CallFact DEF MeetsPending, Locally, store

-----------------------------------------------------------------------------
(* _commit_records. *)

(* load_current before a commit. *)
LEMMA LoadKeeps ==
  ASSUME ExecutorInv, NEW p \in Callers,
         NEW from \in Step, NEW to \in Step, Load(p, from, to),
         <<from, to>> \in {<<"LoadIntent", "CommitIntent">>,
                          <<"LoadAttempt", "CommitAttempt">>,
                          <<"LoadReceipt", "CommitReceipt">>}
  PROVE  ExecutorInv'
<1> DEFINE c == [call[p] EXCEPT !.pc = to, !.base = Revision]
<1>1. CASE Become(p, c)
  <2>1. c \in Call
    BY CallFact DEF Call, Revision
  <2>2. CallerOK(p, c)
    BY CallFact DEF Load, At, Call, CallerOK, Early, Late, After, Ending, Revision
  <2> HIDE DEF c
  <2> QED
    BY <1>1, <2>1, <2>2, LocalKeeps, CallFact DEF Load, Locally, store
<1>2. CASE Raise(p)
  BY <1>2, RaiseKeeps, CallFact DEF Load, Locally, store
<1> QED
  BY <1>1, <1>2 DEF Load

(* A refused commit is retried, raises, or leaves its journal behind. *)
LEMMA CommitFailsKeeps ==
  ASSUME ExecutorInv, NEW p \in Callers, NEW k \in Kind, NEW rec, NEW load \in Step,
         CommitFails(p, k, rec, load),
         CallerOK(p, [call[p] EXCEPT !.pc = load, !.tries = call[p].tries + 1])
  PROVE  ExecutorInv'
<1>1. CASE Retry(p, k, load)
  <2> DEFINE c == [call[p] EXCEPT !.pc = load, !.tries = call[p].tries + 1]
  <2>1. CASE call[p].tries + 1 < MaxRetries /\ Become(p, c)
    <3>1. call[p].tries + 1 \in 0 .. MaxRetries
      BY <2>1, CallFact, BoundAssumption DEF Call
    <3>2. c \in Call
      BY <3>1, CallFact DEF Call
    <3> HIDE DEF c
    <3> QED
      BY <1>1, <2>1, <3>2, LocalKeeps, CallFact DEF Retry, Locally, store, c
  <2>2. CASE Raise(p)
    BY <1>1, <2>2, RaiseKeeps, CallFact DEF Retry, Locally, store
  <2> QED
    BY <1>1, <2>1, <2>2 DEF Retry
<1>2. CASE Rejected(p, k, rec)
  BY <1>2, RaiseKeeps, CallFact DEF Rejected, Locally, store
<1>3. CASE Conflict(p, k, rec)
  <2>1. TxOf(p, k) \in Kind \X Nat
    BY CallFact DEF TxOf, Call
  <2> QED
    BY <1>3, <2>1, RaiseKeeps, CallFact DEF Conflict
<1> QED
  BY <1>1, <1>2, <1>3 DEF CommitFails

(* What a transition appended to the log changes of what is read of it. *)
LEMMA AppendFacts ==
  ASSUME ExecutorInv, NEW e \in Transition, log' = Append(log, e),
         e.kind \in Kind => Resolved(e.kind) \in {None, e.rec}
  PROVE  /\ log' \in Seq(Transition) /\ Revision' = Revision + 1
         /\ OneBody'
         /\ \A k : Has(k)' <=> Has(k) \/ e.kind = k
         /\ \A p : Attempted(p)' <=>
                 Attempted(p) \/ (e.kind = "attempt" /\ e.rec.nonce = p)
         /\ Succeeded' <=>
                 Succeeded \/ (e.kind = "receipt" /\ e.rec.outcome = "SUCCEEDED")
         /\ \A n \in Nat : n <= Revision => SwitchAt(n)' = SwitchAt(n)
<1>1. /\ log \in Seq(Transition) /\ Len(log) \in Nat
      /\ log' \in Seq(Transition) /\ Len(log') = Len(log) + 1
      /\ \A i \in DOMAIN log : i \in DOMAIN log' /\ log'[i] = log[i]
      /\ Len(log') \in DOMAIN log' /\ log'[Len(log')] = e
      /\ \A i \in DOMAIN log' : i \in DOMAIN log \/ log'[i] = e
  BY DEF ExecutorInv, TypeOK
<1>2. Revision' = Revision + 1
  BY <1>1 DEF Revision
<1>3. OneBody'
  <2>1. ASSUME NEW i \in DOMAIN log, e.kind = log[i].kind, e.kind \in Kind
        PROVE  e.rec = log[i].rec
    <3>1. PICK k \in Kind : k = e.kind
      BY <2>1
    <3>2. Resolved(k) = log[i].rec /\ Resolved(k) # None
      BY <2>1, <3>1, ResolvedFact DEF ExecutorInv, Has
    <3> QED
      BY <3>1, <3>2
  <2> SUFFICES ASSUME NEW i \in DOMAIN log', NEW j \in DOMAIN log',
                      log'[i].kind \in Kind, log'[i].kind = log'[j].kind
               PROVE  log'[i].rec = log'[j].rec
    BY Zenon DEF OneBody
  <2>2. CASE i \in DOMAIN log /\ j \in DOMAIN log
    BY <1>1, <2>2 DEF ExecutorInv, OneBody
  <2>3. CASE i \in DOMAIN log /\ log'[j] = e
    BY <1>1, <2>1, <2>3
  <2>4. CASE j \in DOMAIN log /\ log'[i] = e
    BY <1>1, <2>1, <2>4
  <2> QED
    BY <1>1, <2>2, <2>3, <2>4
<1>4. \A k : Has(k)' <=> Has(k) \/ e.kind = k
  BY <1>1, Zenon DEF Has
<1>5. \A p : Attempted(p)' <=>
          Attempted(p) \/ (e.kind = "attempt" /\ e.rec.nonce = p)
  BY <1>1, Zenon DEF Attempted
<1>6. Succeeded' <=>
          Succeeded \/ (e.kind = "receipt" /\ e.rec.outcome = "SUCCEEDED")
  BY <1>1, Zenon DEF Succeeded
<1>7. \A n \in Nat : n <= Revision => SwitchAt(n)' = SwitchAt(n)
  BY SwitchStays DEF ExecutorInv
<1> QED
  BY <1>1, <1>2, <1>3, <1>4, <1>5, <1>6, <1>7

(* The receipts a call was answered with stay the slot's receipt. *)
LEMMA ResolvedStays ==
  ASSUME ExecutorInv, NEW e \in Transition, log' = Append(log, e),
         e.kind \in Kind => Resolved(e.kind) \in {None, e.rec},
         NEW k \in Kind, Has(k)
  PROVE  Resolved(k)' = Resolved(k)
<1>1. PICK i \in DOMAIN log : log[i].kind = k
  BY DEF Has
<1>2. i \in DOMAIN log' /\ log'[i] = log[i]
  BY <1>1 DEF ExecutorInv, TypeOK
<1> DEFINE j == CHOOSE j \in DOMAIN log' : log'[j].kind = k
<1>3. j \in DOMAIN log' /\ log'[j].kind = k
  BY <1>1, <1>2
<1>4. Resolved(k)' = log'[j].rec
  BY <1>1, <1>2 DEF Resolved
<1>5. OneBody'
  BY AppendFacts
<1> HIDE DEF j
<1>6. log'[j].rec = log'[i].rec
  BY <1>1, <1>2, <1>3, <1>5 DEF OneBody
<1>7. Resolved(k) = log[i].rec
  BY <1>1, ResolvedFact DEF ExecutorInv
<1> QED
  BY <1>2, <1>4, <1>6, <1>7

(* What locals c of caller q rest on survives a transition: an attempt is  *)
(* another's, and the receipt of an execution that succeeded is its own    *)
(* caller's.                                                               *)
LEMMA GrowthKeeps ==
  ASSUME ExecutorInv, NEW e \in Transition, log' = Append(log, e),
         e.kind \in Kind => Resolved(e.kind) \in {None, e.rec},
         UNCHANGED <<tree, calls>>,
         NEW q \in Callers, NEW c \in Call, CallerOK(q, c),
         e.kind = "attempt" => e.rec.nonce # q,
         e.kind = "receipt" =>
             \/ ~Attempted(q)
             \/ e.rec.outcome # "SUCCEEDED"
             \/ c.pc \notin After
  PROVE  CallerOK(q, c)'
<1>1. c.base \in Nat /\ c.post \in Nat
  BY DEF Call
<1>2. /\ Revision \in Nat /\ Revision' = Revision + 1
      /\ Attempted(q)' <=> Attempted(q)
      /\ Has("attempt") => Has("attempt")'
      /\ Has("receipt") => Has("receipt")' /\ Resolved("receipt")' = Resolved("receipt")
      /\ Matched' <=> Matched
      /\ c.post <= Revision => SwitchAt(c.post)' = SwitchAt(c.post)
  BY <1>1, AppendFacts, ResolvedStays, CallFact DEF Kind, Matched, Revision
<1>3. c.pc \in Late => c.post <= Revision /\ c.post # Revision'
  BY <1>1, <1>2 DEF CallerOK
<1>4. c.pc \in After => ~Succeeded'
  BY AppendFacts DEF CallerOK
<1>5. "Barrier" \in Late /\ "Adapter" \in Late
  BY DEF Late
<1> QED
  BY <1>1, <1>2, <1>3, <1>4, <1>5 DEF CallerOK

(* A commit of the slot's: p's record is the first of its kind or the one  *)
(* there is, and says what p's locals rest on.                             *)
LEMMA ApplyKeeps ==
  ASSUME ExecutorInv, NEW p \in Callers, NEW k \in Kind, NEW rec, NEW c \in Call,
         Entry(k, call[p].instant, rec) \in Transition, Apply(p, k, rec),
         k = "attempt" => rec.nonce = p /\ ~Attempted(p),
         k = "receipt" => Has("attempt"),
         k = "receipt" /\ rec.outcome = "SUCCEEDED" =>
             Attempted(p) /\ calls = 1 /\ Matched,
         Become(p, c), call[p].pc \notin After, CallerOK(p, c)'
  PROVE  ExecutorInv'
<1> DEFINE e == Entry(k, call[p].instant, rec)
<1>1. e \in Transition /\ e.kind = k /\ e.rec = rec
  BY DEF Entry
<1> HIDE DEF e
<1>2. /\ log' = Append(log, e) /\ view' \in Nat
      /\ UNCHANGED <<leftover, tree, calls>>
      /\ Resolved(k) \in {None, rec}
  BY CallFact DEF Apply, Applies, e, Call
<1>3. TypeOK' /\ OneBody'
  BY <1>1, <1>2, AppendFacts DEF ExecutorInv, TypeOK, Become
<1>4. SlotOK'
  BY <1>1, <1>2, AppendFacts DEF ExecutorInv, SlotOK, Matched, Kind
<1>5. ASSUME NEW q \in Callers, q # p PROVE CallerOK(q, call[q])'
  <2>1. call'[q] = call[q]
    BY <1>5 DEF Become, ExecutorInv, TypeOK
  <2>2. ASSUME Attempted(p) PROVE ~Attempted(q)
    BY <1>5, <2>2 DEF Attempted, ExecutorInv, OneBody, Kind
  <2> QED
    BY <1>1, <1>2, <1>5, <2>1, <2>2, GrowthKeeps, CallFact
<1>6. CallerOK(p, call[p])'
  <2>1. call'[p] = c
    BY DEF Become, ExecutorInv, TypeOK
  <2> QED
    BY <2>1
<1> QED
  BY <1>3, <1>4, <1>5, <1>6 DEF ExecutorInv

(* A replay writes the view back and changes nothing else. *)
LEMMA ReplayKeeps ==
  ASSUME ExecutorInv, NEW p \in Callers, NEW k \in Kind, NEW rec, NEW c \in Call,
         Replay(p, k, rec), Become(p, c), CallerOK(p, c)
  PROVE  ExecutorInv'
<1>1. view' \in Nat
  BY CallFact DEF Replay, Call
<1> QED
  BY <1>1, LocalKeeps, CallFact DEF Replay

LEMMA CommitIntentKeeps ==
  ASSUME ExecutorInv, NEW p \in Callers, CommitIntent(p)
  PROVE  ExecutorInv'
<1> DEFINE rec == Intent(call[p].token, call[p].instant)
<1>0. CallerOK(p, call[p]) /\ call[p] \in Call /\ call[p].pc = "CommitIntent"
  BY CallFact DEF CommitIntent, At
<1>1. CASE /\ Apply(p, "intent", rec) \/ Replay(p, "intent", rec)
           /\ Become(p, [call[p] EXCEPT !.pc = "LoadAttempt", !.tries = 0])
  <2>1. PICK c : c = [call[p] EXCEPT !.pc = "LoadAttempt", !.tries = 0]
    OBVIOUS
  <2>2. 0 \in 0 .. MaxRetries
    BY BoundAssumption
  <2>3. c \in Call /\ CallerOK(p, c)
    BY <1>0, <2>1, <2>2 DEF CallerOK, Call, Step, Early, Late, After, Ending
  <2>4. CASE Replay(p, "intent", rec)
    BY <1>1, <2>1, <2>3, <2>4, ReplayKeeps DEF Kind
  <2>5. CASE Apply(p, "intent", rec)
    <3>1. Entry("intent", call[p].instant, rec) \in Transition
      BY <1>0 DEF CallerOK, Entry, Transition, Intent, IntentType
    <3> DEFINE e == Entry("intent", call[p].instant, rec)
    <3>2. /\ log' = Append(log, e) /\ e.kind = "intent" /\ e.rec = rec
          /\ Resolved("intent") \in {None, rec}
      BY <2>5 DEF Apply, Applies, Entry
    <3> HIDE DEF e
    <3>3. CallerOK(p, c)'
      BY <2>3, <2>5, <3>1, <3>2, GrowthKeeps DEF Apply
    <3> QED
      BY <1>0, <1>1, <2>1, <2>3, <2>5, <3>1, <3>3, ApplyKeeps DEF Kind, After
  <2> QED
    BY <1>1, <2>4, <2>5
<1>2. CASE CommitFails(p, "intent", rec, "LoadIntent")
  <2>1. CallerOK(p, [call[p] EXCEPT !.pc = "LoadIntent", !.tries = call[p].tries + 1])
    BY <1>0 DEF CallerOK, Call, Early, Late, After, Ending
  <2> QED
    BY <1>2, <2>1, CommitFailsKeeps DEF Kind, Step
<1> QED
  BY <1>1, <1>2 DEF CommitIntent

(* A call that has made the slot's attempt is the only one, and the State  *)
(* its commit returned is as fresh as can be.                              *)
LEMMA CommitAttemptKeeps ==
  ASSUME ExecutorInv, NEW p \in Callers, CommitAttempt(p)
  PROVE  ExecutorInv'
<1> DEFINE rec == Attempt(call[p].token, call[p].instant, p)
<1>0. CallerOK(p, call[p]) /\ call[p] \in Call /\ call[p].pc = "CommitAttempt"
  BY CallFact DEF CommitAttempt, At
<1>1. ~Attempted(p)
  BY <1>0 DEF CallerOK, Early
<1>2. CASE /\ Apply(p, "attempt", rec) \/ Replay(p, "attempt", rec)
           /\ Become(p, [call[p] EXCEPT !.pc = "Switch2", !.post = call[p].base + 1])
  <2>1. PICK c : c = [call[p] EXCEPT !.pc = "Switch2", !.post = call[p].base + 1]
    OBVIOUS
  <2>2. c \in Call
    <3>1. call[p].base + 1 \in Nat
      BY <1>0 DEF Call
    <3> QED
      BY <1>0, <2>1, <3>1 DEF Call, Step
  <2>3. ~Replay(p, "attempt", rec)
    <3>1. ASSUME Replay(p, "attempt", rec) PROVE Attempted(p)
      <4>1. call[p].base + 1 \in DOMAIN log
        BY <1>0, <3>1, CallFact DEF Replay, Replays, Named, Revision, Call, ExecutorInv, TypeOK
      <4>2. log[call[p].base + 1].kind = "attempt" /\ log[call[p].base + 1].rec.nonce = p
        BY <3>1 DEF Replay, Replays, Entry, Attempt
      <4> QED
        BY <4>1, <4>2 DEF Attempted
    <3> QED
      BY <1>1, <3>1
  <2>4. Apply(p, "attempt", rec)
    BY <1>2, <2>3
  <2>5. Entry("attempt", call[p].instant, rec) \in Transition
    BY <1>0 DEF CallerOK, Entry, Transition, Attempt, AttemptType
  <2> DEFINE e == Entry("attempt", call[p].instant, rec)
  <2>6. /\ log' = Append(log, e) /\ e.kind = "attempt" /\ e.rec = rec
        /\ Resolved("attempt") \in {None, rec} /\ rec.nonce = p
        /\ call[p].base = Revision /\ calls' = calls
    BY <2>4 DEF Apply, Applies, Entry, Attempt
  <2>7. ~Has("attempt")
    <3>1. ASSUME NEW i \in DOMAIN log, log[i].kind = "attempt" PROVE FALSE
      <4>1. Resolved("attempt") = log[i].rec /\ Resolved("attempt") # None
        BY <3>1, ResolvedFact DEF ExecutorInv, Kind, Has
      <4>2. log[i].rec.nonce = p
        BY <2>6, <4>1
      <4> QED
        BY <1>1, <3>1, <4>2 DEF Attempted
    <3> QED
      BY <3>1 DEF Has
  <2>8. /\ Attempted(p)' /\ Revision' = Revision + 1 /\ Revision \in Nat
        /\ ~Has("receipt")'
    BY <2>5, <2>6, <2>7, AppendFacts, CallFact DEF ExecutorInv, SlotOK, Revision
  <2>9. calls' = 0
    BY <2>6, <2>7 DEF ExecutorInv, SlotOK
  <2> HIDE DEF e
  <2>10. c.returned = call[p].returned /\ call[p].returned = None
    BY <1>0, <2>1, <2>7 DEF Call, CallerOK, ExecutorInv, SlotOK
  <2>11. CallerOK(p, c)'
    BY <1>0, <2>1, <2>2, <2>6, <2>8, <2>9, <2>10
       DEF CallerOK, Call, Early, Late, After, Ending
  <2> QED
    BY <1>0, <1>1, <1>2, <2>1, <2>2, <2>4, <2>5, <2>6, <2>11, ApplyKeeps
       DEF Kind, After
<1>3. CASE CommitFails(p, "attempt", rec, "LoadAttempt")
  <2>1. CallerOK(p, [call[p] EXCEPT !.pc = "LoadAttempt", !.tries = call[p].tries + 1])
    BY <1>0 DEF CallerOK, Call, Early, Late, After, Ending
  <2> QED
    BY <1>3, <2>1, CommitFailsKeeps DEF Kind, Step
<1> QED
  BY <1>2, <1>3 DEF CommitAttempt

(* The receipt a call returns is the slot's. *)
LEMMA CommitReceiptKeeps ==
  ASSUME ExecutorInv, NEW p \in Callers, CommitReceipt(p)
  PROVE  ExecutorInv'
<1> DEFINE rec == ReceiptOf(p)
<1>0. CallerOK(p, call[p]) /\ call[p] \in Call /\ call[p].pc = "CommitReceipt"
  BY CallFact DEF CommitReceipt, At
<1>1. rec \in ReceiptType /\ rec.outcome = call[p].outcome
  <2>1. (IF call[p].report = None THEN {} ELSE call[p].report.written) \in SUBSET Writes
    BY <1>0 DEF Call, Report
  <2> QED
    BY <1>0, <2>1 DEF CallerOK, Call, Ending, ReceiptOf, Receipt, ReceiptType
<1>2. Has("attempt") /\ (rec.outcome = "SUCCEEDED" => Attempted(p) /\ calls = 1 /\ Matched)
  BY <1>0, <1>1 DEF CallerOK, Ending
<1>3. CASE Concludes(p, rec) /\ Return(p, rec)
  <2>1. PICK c : c = [Idle EXCEPT !.returned = rec]
    OBVIOUS
  <2>2. c \in Call /\ Become(p, c)
    BY <1>1, <1>3, <2>1, IdleType DEF Call, ExecutorInv, Return
  <2>3. CASE Replay(p, "receipt", rec)
    <3>1. call[p].base + 1 \in DOMAIN log
      BY <1>0, <2>3, CallFact DEF Replay, Replays, Named, Revision, Call, ExecutorInv, TypeOK
    <3>2. log[call[p].base + 1].kind = "receipt" /\ log[call[p].base + 1].rec = rec
      BY <2>3 DEF Replay, Replays, Entry
    <3>3. Has("receipt") /\ Resolved("receipt") = rec
      BY <3>1, <3>2, ResolvedFact DEF ExecutorInv, Kind, Has
    <3>4. CallerOK(p, c)
      BY <1>0, <2>1, <3>3, CallFact
         DEF CallerOK, Idle, Early, Late, After, Ending, Revision
    <3> QED
      BY <2>2, <2>3, <3>4, ReplayKeeps DEF Kind
  <2>4. CASE Apply(p, "receipt", rec)
    <3>1. Entry("receipt", call[p].instant, rec) \in Transition
      BY <1>0, <1>1 DEF CallerOK, Entry, Transition
    <3> DEFINE e == Entry("receipt", call[p].instant, rec)
    <3>2. /\ log' = Append(log, e) /\ e.kind = "receipt" /\ e.rec = rec
          /\ Resolved("receipt") \in {None, rec}
      BY <2>4 DEF Apply, Applies, Entry
    <3>3. Revision' = Revision + 1 /\ Revision \in Nat /\ Has("receipt")' /\ OneBody'
      BY <3>1, <3>2, AppendFacts, CallFact DEF Revision
    <3>4. Resolved("receipt")' = rec
      <4>1. Len(log') \in DOMAIN log' /\ log'[Len(log')] = e
        BY <3>2 DEF ExecutorInv, TypeOK
      <4> HIDE DEF e
      <4> DEFINE j == CHOOSE j \in DOMAIN log' : log'[j].kind = "receipt"
      <4>2. j \in DOMAIN log' /\ log'[j].kind = "receipt"
        BY <3>2, <4>1
      <4>3. Resolved("receipt")' = log'[j].rec
        BY <3>2, <4>1 DEF Resolved
      <4> HIDE DEF j
      <4>4. log'[j].rec = log'[Len(log')].rec
        BY <3>2, <3>3, <4>1, <4>2 DEF OneBody, Kind
      <4> QED
        BY <3>2, <4>1, <4>3, <4>4
    <3> HIDE DEF e
    <3>5. CallerOK(p, c)'
      BY <2>1, <3>3, <3>4 DEF CallerOK, Idle, Early, Late, After, Ending
    <3> QED
      BY <1>0, <1>2, <2>2, <2>4, <3>1, <3>5, ApplyKeeps DEF Kind, After
  <2> QED
    BY <1>3, <2>3, <2>4 DEF Concludes
<1>4. CASE CommitFails(p, "receipt", rec, "LoadReceipt")
  <2>1. CallerOK(p, [call[p] EXCEPT !.pc = "LoadReceipt", !.tries = call[p].tries + 1])
    BY <1>0 DEF CallerOK, Call, Early, Late, After, Ending
  <2> QED
    BY <1>4, <2>1, CommitFailsKeeps DEF Kind, Step
<1> QED
  BY <1>3, <1>4 DEF CommitReceipt

-----------------------------------------------------------------------------
(* The last checks, the adapter and what follows it. *)

(* What the barrier demands is settled by the second check: the kill switch*)
(* of the State the attempt produced, while that is still the last.        *)
LEMMA Switch2Keeps ==
  ASSUME ExecutorInv, NEW p \in Callers, NEW admissible \in BOOLEAN,
         Switch2(p, admissible)
  PROVE  ExecutorInv'
<1>0. CallerOK(p, call[p]) /\ call[p] \in Call /\ call[p].pc = "Switch2"
  BY CallFact DEF Switch2, At
<1>1. Attempted(p) /\ Has("attempt")
  BY <1>0 DEF CallerOK, Late, Attempted, Has
<1>2. CASE ~Stopped /\ Goto(p, "Barrier")
  <2>1. CallerOK(p, [call[p] EXCEPT !.pc = "Barrier"])
    BY <1>0, <1>2 DEF CallerOK, Call, Early, Late, After, Ending, Stopped
  <2> QED
    BY <1>2, <2>1, GotoKeeps DEF Switch2, Step
<1>3. CASE Conclude(p, "KILL_SWITCH_STOPPED") \/ Conclude(p, "BOUNDARY_VIOLATION")
  BY <1>1, <1>3, ConcludeKeeps DEF Switch2, At, Outcome
<1>4. CASE Raise(p)
  BY <1>4, RaiseKeeps, CallFact DEF Switch2, Locally, store
<1> QED
  BY <1>2, <1>3, <1>4 DEF Switch2

LEMMA BarrierKeeps ==
  ASSUME ExecutorInv, NEW p \in Callers, Barrier(p)
  PROVE  ExecutorInv'
<1>0. CallerOK(p, call[p]) /\ call[p] \in Call /\ call[p].pc = "Barrier"
  BY CallFact DEF Barrier, At
<1>1. CASE Undisturbed(p) /\ Goto(p, "Adapter")
  <2>1. CallerOK(p, [call[p] EXCEPT !.pc = "Adapter"])
    BY <1>0, <1>1 DEF CallerOK, Call, Early, Late, After, Ending, Undisturbed
  <2> QED
    BY <1>1, <2>1, GotoKeeps DEF Barrier, Step
<1>2. CASE Raise(p)
  BY <1>2, RaiseKeeps, CallFact DEF Barrier, Locally, store
<1> QED
  BY <1>1, <1>2 DEF Barrier

(* The adapter is called in the one state in which no call of it has been  *)
(* made, so that nobody else is past it or has concluded a success.        *)
LEMMA AdapterKeeps ==
  ASSUME ExecutorInv, NEW p \in Callers, At(p, "Adapter"),
         NEW w \in SUBSET Writes, NEW d \in SUBSET Deletes, tree' = Touched(w, d),
         calls' = calls + 1, UNCHANGED store,
         NEW c \in Call, Become(p, c), CallerOK(p, c)'
  PROVE  ExecutorInv'
<1>0. CallerOK(p, call[p]) /\ call[p] \in Call /\ call[p].pc = "Adapter"
  BY CallFact DEF At
<1>1. calls = 0 /\ Attempted(p) /\ Has("attempt") /\ ~Succeeded
  BY <1>0 DEF CallerOK, Late, Attempted, Has, ExecutorInv, SlotOK
<1>2. TypeOK'
  <2>1. tree' \in [Paths -> {"original", "requested", "absent"}]
    BY DEF Touched, ExecutorInv, TypeOK
  <2> QED
    BY <1>1, <2>1 DEF ExecutorInv, TypeOK, Become, store
<1>3. OneBody' /\ SlotOK'
  BY <1>1 DEF ExecutorInv, OneBody, SlotOK, Has, Succeeded, store
<1>4. ASSUME NEW q \in Callers, q # p PROVE CallerOK(q, call[q])'
  <2>1. call'[q] = call[q] /\ CallerOK(q, call[q]) /\ call[q] \in Call
    BY <1>4, CallFact DEF ExecutorInv, TypeOK, Become
  <2>2. ~Attempted(q)
    BY <1>1, <1>4 DEF Attempted, ExecutorInv, OneBody, Kind
  <2>3. /\ call[q].pc \notin Late \cup After
        /\ call[q].pc \in Ending => call[q].outcome # "SUCCEEDED"
    BY <2>1, <2>2 DEF CallerOK
  <2>4. PICK d1 : d1 = call[q]
    OBVIOUS
  <2>5. CallerOK(q, d1)'
    BY <2>1, <2>3, <2>4
       DEF CallerOK, Late, Has, Attempted, Revision, Resolved, store
  <2> QED
    BY <2>1, <2>4, <2>5
<1>5. CallerOK(p, call[p])'
  BY DEF ExecutorInv, TypeOK, Become
<1> QED
  BY <1>2, <1>3, <1>4, <1>5 DEF ExecutorInv

(* The worktree changes under nobody who relies on it. *)
LEMMA AdapterStepKeeps ==
  ASSUME ExecutorInv, NEW p \in Callers,
         NEW w \in SUBSET Writes, NEW d \in SUBSET Deletes,
         \/ AdapterRaises(p, w, d)
         \/ \E report \in Report : AdapterReports(p, w, d, report)
         \/ AdapterDies(p, w, d)
  PROVE  ExecutorInv'
<1>0. CallerOK(p, call[p]) /\ call[p] \in Call /\ call[p].pc = "Adapter"
  BY CallFact DEF AdapterRaises, AdapterReports, AdapterDies, At
<1>1. /\ calls = 0 /\ Attempted(p) /\ Has("attempt") /\ ~Succeeded
      /\ UNCHANGED log /\ calls' = 1
  <2>1. calls = 0 /\ Attempted(p)
    BY <1>0 DEF CallerOK, Late
  <2>2. Has("attempt") /\ ~Succeeded
    BY <2>1 DEF Attempted, Has, ExecutorInv, SlotOK
  <2>3. UNCHANGED log /\ calls' = calls + 1
    BY DEF AdapterRaises, AdapterReports, AdapterDies, store
  <2> QED
    BY <2>1, <2>2, <2>3
<1>2. CASE AdapterRaises(p, w, d)
  <2>1. PICK c : c = [call[p] EXCEPT !.pc = "LoadReceipt", !.outcome = "UNKNOWN",
                                     !.tries = 0]
    OBVIOUS
  <2>2. 0 \in 0 .. MaxRetries
    BY BoundAssumption
  <2>3. c \in Call /\ Become(p, c)
    BY <1>0, <1>2, <2>1, <2>2 DEF Call, Step, Outcome, AdapterRaises, Conclude
  <2>4. CallerOK(p, c)'
    BY <1>0, <1>1, <2>1
       DEF CallerOK, Call, Early, Late, After, Ending, Has, Revision, Resolved, Outcome
  <2> QED
    BY <1>2, <2>3, <2>4, AdapterKeeps DEF AdapterRaises
<1>3. ASSUME NEW report \in Report, AdapterReports(p, w, d, report)
      PROVE  ExecutorInv'
  <2>1. PICK c : c = [call[p] EXCEPT !.pc = "Reobserve", !.report = report]
    OBVIOUS
  <2>3. c \in Call /\ Become(p, c)
    BY <1>0, <1>3, <2>1 DEF Call, Step, AdapterReports
  <2>4. CallerOK(p, c)'
    BY <1>0, <1>1, <2>1
       DEF CallerOK, Call, Early, Late, After, Ending, Has, Revision, Resolved,
           Attempted, Succeeded
  <2> QED
    BY <1>3, <2>3, <2>4, AdapterKeeps DEF AdapterReports
<1>4. CASE AdapterDies(p, w, d)
  <2>1. PICK c : c = Idle
    OBVIOUS
  <2>2. c \in Call /\ Become(p, c)
    BY <1>4, <2>1, IdleType DEF ExecutorInv, AdapterDies, Raise
  <2>3. CallerOK(p, c)'
    BY <1>1, <2>1, CallFact
       DEF CallerOK, Idle, Early, Late, After, Ending, Revision
  <2> QED
    BY <1>4, <2>2, <2>3, AdapterKeeps DEF AdapterDies
<1> QED
  BY <1>2, <1>3, <1>4

(* A verdict of success is this call's own re-observation. *)
LEMMA ReobserveKeeps ==
  ASSUME ExecutorInv, NEW p \in Callers, Reobserve(p)
  PROVE  ExecutorInv'
<1>0. CallerOK(p, call[p]) /\ call[p] \in Call /\ call[p].pc = "Reobserve"
  BY CallFact DEF Reobserve, At
<1>1. Attempted(p) /\ Has("attempt") /\ calls = 1
  BY <1>0 DEF CallerOK, After, Attempted, Has
<1> DEFINE said == Classified(call[p].report)
<1> DEFINE outcome == IF said = "SUCCEEDED" /\ ~Matched
                      THEN "REOBSERVATION_MISMATCH" ELSE said
<1>2. said \in Outcome
  BY DEF Classified, Outcome
<1> HIDE DEF said
<1>3. outcome \in Outcome /\ (outcome = "SUCCEEDED" => Matched)
  BY <1>2 DEF Outcome
<1>4. CASE Conclude(p, outcome)
  <2> HIDE DEF outcome
  <2> QED
    BY <1>1, <1>3, <1>4, ConcludeKeeps DEF Reobserve, At
<1>5. CASE Goto(p, "Rollback")
  <2>1. CallerOK(p, [call[p] EXCEPT !.pc = "Rollback"])
    BY <1>0 DEF CallerOK, Call, Early, Late, After, Ending
  <2> QED
    BY <1>5, <2>1, GotoKeeps DEF Reobserve, Step
<1> QED
  BY <1>4, <1>5 DEF Reobserve, said, outcome

(* A rollback removes files only while nobody has concluded a success. *)
LEMMA RollBackKeeps ==
  ASSUME ExecutorInv, NEW p \in Callers, NEW gone \in SUBSET Writes,
         NEW outcome \in {"ROLLBACK_SUCCEEDED", "ROLLBACK_FAILED"},
         RollBack(p, gone, outcome)
  PROVE  ExecutorInv'
<1>0. CallerOK(p, call[p]) /\ call[p] \in Call /\ call[p].pc = "Rollback"
  BY CallFact DEF RollBack, At
<1>1. /\ Attempted(p) /\ Has("attempt") /\ calls = 1 /\ ~Succeeded
      /\ UNCHANGED <<log, view, leftover, calls>>
  BY <1>0 DEF CallerOK, After, Attempted, Has, RollBack, store
<1>2. PICK c : c = [call[p] EXCEPT !.pc = "LoadReceipt", !.outcome = outcome,
                                   !.tries = 0]
  OBVIOUS
<1>3. 0 \in 0 .. MaxRetries
  BY BoundAssumption
<1>4. c \in Call /\ Become(p, c)
  BY <1>0, <1>2, <1>3 DEF Call, Step, Outcome, RollBack, Conclude
<1>5. TypeOK'
  <2>1. tree' \in [Paths -> {"original", "requested", "absent"}]
    BY DEF RollBack, ExecutorInv, TypeOK
  <2> QED
    BY <1>1, <1>4, <2>1 DEF ExecutorInv, TypeOK, Become
<1>6. OneBody' /\ SlotOK'
  BY <1>1 DEF ExecutorInv, OneBody, SlotOK, Has, Succeeded
<1>7. ASSUME NEW q \in Callers, q # p PROVE CallerOK(q, call[q])'
  <2>1. call'[q] = call[q] /\ CallerOK(q, call[q]) /\ call[q] \in Call
    BY <1>4, <1>7, CallFact DEF ExecutorInv, TypeOK, Become
  <2>2. ~Attempted(q)
    BY <1>1, <1>7 DEF Attempted, ExecutorInv, OneBody, Kind
  <2>3. PICK d : d = call[q]
    OBVIOUS
  <2>4. CallerOK(q, d)'
    BY <1>1, <2>1, <2>2, <2>3
       DEF CallerOK, Has, Attempted, Succeeded, Revision, Resolved, SwitchAt
  <2> QED
    BY <2>1, <2>3, <2>4
<1>8. CallerOK(p, call[p])'
  <2>1. CallerOK(p, c)'
    BY <1>0, <1>1, <1>2
       DEF CallerOK, Call, Early, Late, After, Ending, Has, Revision, Resolved, Outcome
  <2> QED
    BY <1>4, <2>1 DEF ExecutorInv, TypeOK, Become
<1> QED
  BY <1>5, <1>6, <1>7, <1>8 DEF ExecutorInv

-----------------------------------------------------------------------------
(* Crashes and the other committers. *)

LEMMA CrashKeeps ==
  ASSUME ExecutorInv, NEW p \in Callers, Crash(p) \/ CrashInCommit(p)
  PROVE  ExecutorInv'
<1>1. CASE Crash(p)
  BY <1>1, RaiseKeeps, CallFact DEF Crash, Locally, store
<1>2. ASSUME NEW k \in Kind, NEW rec, DieInCommit(p, k, rec) PROVE ExecutorInv'
  <2>1. TxOf(p, k) \in Kind \X Nat
    BY CallFact DEF TxOf, Call
  <2> QED
    BY <1>2, <2>1, RaiseKeeps, CallFact DEF DieInCommit
<1> QED
  BY <1>1, <1>2 DEF CrashInCommit, Kind

LEMMA OthersKeep ==
  ASSUME ExecutorInv, Others
  PROVE  ExecutorInv'
<1>1. PICK k, rec : /\ CommitForeign(k, rec)
                    /\ \/ k = "other" /\ rec = None
                       \/ k = "switch" /\ rec \in {"ACTIVE", "REVOKED"}
  BY DEF Others, OtherTransition, MoveSwitch
<1> DEFINE e == Entry(k, None, rec)
<1>2. e \in Transition /\ e.kind \notin Kind
  BY <1>1 DEF Entry, Transition, Kind
<1>3. log' = Append(log, e) /\ view' \in Nat /\ UNCHANGED <<leftover, tree, call, calls>>
  BY <1>1, CallFact DEF CommitForeign, Revision
<1> HIDE DEF e
<1>4. TypeOK' /\ OneBody'
  BY <1>2, <1>3, AppendFacts DEF ExecutorInv, TypeOK
<1>5. SlotOK'
  BY <1>2, <1>3, AppendFacts DEF ExecutorInv, SlotOK, Matched, Kind
<1>6. ASSUME NEW q \in Callers PROVE CallerOK(q, call[q])'
  BY <1>2, <1>3, GrowthKeeps, CallFact DEF Kind
<1> QED
  BY <1>4, <1>5, <1>6 DEF ExecutorInv

-----------------------------------------------------------------------------
LEMMA ExecutorInit == Init => ExecutorInv
<1> SUFFICES ASSUME Init PROVE ExecutorInv
  OBVIOUS
<1>1. /\ log \in Seq(Transition) /\ Len(log) = 1
      /\ \A i \in DOMAIN log : log[i].kind \notin Kind
  <2>1. PICK e \in {Entry("switch", None, "ACTIVE"), Entry("other", None, None)} :
            log = <<e>>
    BY DEF Init
  <2>2. e \in Transition /\ e.kind \notin Kind
    BY DEF Entry, Transition, Kind
  <2> QED
    BY <2>1, <2>2
<1>2. ~Has("attempt") /\ ~Has("receipt") /\ ~Succeeded /\ OneBody
  BY <1>1 DEF Has, Succeeded, OneBody, Kind
<1>3. TypeOK
  BY <1>1, BoundAssumption DEF Init, TypeOK, Call, Step, Idle
<1> QED
  BY <1>2, <1>3, IdleType DEF ExecutorInv, SlotOK, Init

LEMMA ExecutorNext == ExecutorInv /\ [Next]_vars => ExecutorInv'
<1> SUFFICES ASSUME ExecutorInv, [Next]_vars PROVE ExecutorInv'
  OBVIOUS
<1>1. ASSUME NEW p \in Callers, Begin(p) PROVE ExecutorInv'
  BY <1>1, ExecuteKeeps DEF Begin
<1>2. ASSUME NEW p \in Callers, Proceed(p) PROVE ExecutorInv'
  <2>1. CASE \/ LoadIntent(p) \/ LoadAttempt(p) \/ LoadReceipt(p)
    BY <2>1, LoadKeeps DEF LoadIntent, LoadAttempt, LoadReceipt, Step
  <2>2. CASE \/ CommitIntent(p) \/ CommitAttempt(p) \/ CommitReceipt(p)
    BY <2>2, CommitIntentKeeps, CommitAttemptKeeps, CommitReceiptKeeps
  <2>3. CASE \/ ResolveAttempt(p) \/ ResolveIntent(p) \/ Switch1(p) \/ Boot(p)
            \/ Barrier(p) \/ Reobserve(p)
    BY <2>3, ResolveAttemptKeeps, ResolveIntentKeeps, Switch1Keeps, BootKeeps,
       BarrierKeeps, ReobserveKeeps
  <2>4. CASE \E reuse \in BOOLEAN : ResolveReceipt(p, reuse)
    BY <2>4, ResolveReceiptKeeps
  <2>5. CASE \E admissible \in BOOLEAN : Switch2(p, admissible)
    BY <2>5, Switch2Keeps
  <2>6. CASE AdapterStep(p)
    BY <2>6, AdapterStepKeeps DEF AdapterStep
  <2>7. CASE \E gone \in SUBSET Writes :
               \E outcome \in {"ROLLBACK_SUCCEEDED", "ROLLBACK_FAILED"} :
                  RollBack(p, gone, outcome)
    BY <2>7, RollBackKeeps
  <2> QED
    BY <1>2, <2>1, <2>2, <2>3, <2>4, <2>5, <2>6, <2>7 DEF Proceed
<1>3. ASSUME NEW p \in Callers, Fail(p) PROVE ExecutorInv'
  BY <1>3, MeetsPendingKeeps, CrashKeeps, AdapterStepKeeps DEF Fail
<1>4. CASE Others
  BY <1>4, OthersKeep
<1>5. CASE UNCHANGED vars
  <2>1. UNCHANGED <<log, view, leftover, tree, call, calls>>
    BY <1>5 DEF vars, store
  <2>2. TypeOK' /\ OneBody' /\ SlotOK'
    BY <2>1 DEF ExecutorInv, TypeOK, OneBody, SlotOK, Has, Succeeded, Matched
  <2>3. ASSUME NEW p \in Callers PROVE CallerOK(p, call[p])'
    <3>1. PICK c : c = call[p]
      OBVIOUS
    <3>2. CallerOK(p, c)
      BY <3>1 DEF ExecutorInv
    <3>3. CallerOK(p, c)'
      BY <2>1, <3>2 DEF CallerOK, Has, Attempted, Succeeded, Matched,
                        Revision, Resolved, SwitchAt
    <3> QED
      BY <2>1, <3>1, <3>3
  <2> QED
    BY <2>2, <2>3 DEF ExecutorInv
<1> QED
  BY <1>1, <1>2, <1>3, <1>4, <1>5 DEF Next
-----------------------------------------------------------------------------
(* The invariant holds in every reachable state. *)
THEOREM ExecutorSafe == Spec => []ExecutorInv
<1>1. Init => ExecutorInv
  BY ExecutorInit
<1>2. ExecutorInv /\ [Next]_vars => ExecutorInv'
  BY ExecutorNext
<1> QED
  BY <1>1, <1>2, PTL DEF Spec

(* Every variable has its type: in particular a refused commit leaves a    *)
(* journal of the slot's own, and no retry counter passes                  *)
(* _MAX_COMMIT_RETRIES.                                                    *)
THEOREM ExecutorTyped == Spec => []TypeOK
<1>1. ExecutorInv => TypeOK
  BY DEF ExecutorInv
<1> QED
  BY <1>1, ExecutorSafe, PTL

(* P18-C5, for any number of concurrent and repeated calls: execute()      *)
(* dispatches the primary adapter call at most once per slot.              *)
THEOREM OneDispatch == Spec => []AdapterAtMostOnce
<1>1. ExecutorInv => AdapterAtMostOnce
  BY DEF ExecutorInv, SlotOK, AdapterAtMostOnce
<1> QED
  BY <1>1, ExecutorSafe, PTL

(* P18-C8: a call of execute() stands before the adapter only when the     *)
(* kill switch was ACTIVE in the State its own attempt produced.           *)
THEOREM DispatchedWhileActive == Spec => []ExecutesUnderActiveSwitch
<1>1. ExecutorInv => ExecutesUnderActiveSwitch
  BY DEF ExecutorInv, CallerOK, ExecutesUnderActiveSwitch, At
<1> QED
  BY <1>1, ExecutorSafe, PTL

(* Whatever receipt execute() returned, fresh, replayed or reused, is the  *)
(* slot's one durable receipt, then and ever after.                        *)
THEOREM ReturnsDurable == Spec => []ReturnedIsDurable
<1>1. ExecutorInv => ReturnedIsDurable
  BY DEF ExecutorInv, CallerOK, ReturnedIsDurable
<1> QED
  BY <1>1, ExecutorSafe, PTL

(* The only way to the adapter is the barrier. *)
LEMMA ThroughBarrier ==
  ASSUME TypeOK, Next, NEW q \in Callers, ~At(q, "Adapter"), At(q, "Adapter")'
  PROVE  Barrier(q) /\ Undisturbed(q)
<1> DEFINE Leads(p) == /\ \A r \in Callers \ {p} : call'[r] = call[r]
                       /\ call'[p].pc = "Adapter" => Barrier(p) /\ Undisturbed(p)
<1>0. ASSUME NEW p \in Callers, NEW c, Become(p, c),
             c.pc = "Adapter" => Barrier(p) /\ Undisturbed(p)
      PROVE  Leads(p)
  BY <1>0 DEF Become, TypeOK
<1> HIDE DEF Leads
<1>1. ASSUME NEW p \in Callers, NEW step \in Step, Goto(p, step), step # "Adapter"
      PROVE  Leads(p)
  BY <1>0, <1>1 DEF Goto, TypeOK, Call
<1>2. ASSUME NEW p \in Callers, NEW outcome, Conclude(p, outcome) PROVE Leads(p)
  BY <1>0, <1>2 DEF Conclude, TypeOK, Call
<1>3. ASSUME NEW p \in Callers, Raise(p) PROVE Leads(p)
  BY <1>0, <1>3 DEF Raise, Idle
<1>4. ASSUME NEW p \in Callers, NEW receipt, Return(p, receipt) PROVE Leads(p)
  BY <1>0, <1>4 DEF Return, Idle
<1>5. ASSUME NEW p \in Callers, NEW k, NEW rec, NEW load \in Step, load # "Adapter",
             CommitFails(p, k, rec, load)
      PROVE  Leads(p)
  BY <1>0, <1>3, <1>5 DEF CommitFails, Retry, Rejected, Conflict, TypeOK, Call
<1>6. ASSUME NEW p \in Callers, NEW from \in Step, NEW to \in Step, to # "Adapter",
             Load(p, from, to)
      PROVE  Leads(p)
  BY <1>0, <1>3, <1>6 DEF Load, TypeOK, Call
<1>7. ASSUME NEW p \in Callers, Barrier(p) PROVE Leads(p)
  BY <1>0, <1>3, <1>7 DEF Barrier, Goto
<1>8. ASSUME NEW p \in Callers, NEW token, NEW instant, Execute(p, token, instant)
      PROVE  Leads(p)
  BY <1>0, <1>8 DEF Execute, Idle
<1>9. ASSUME NEW p \in Callers, CommitIntent(p) PROVE Leads(p)
  BY <1>0, <1>5, <1>9 DEF CommitIntent, TypeOK, Call, Step
<1>10. ASSUME NEW p \in Callers, CommitAttempt(p) PROVE Leads(p)
  BY <1>0, <1>5, <1>10 DEF CommitAttempt, TypeOK, Call, Step
<1>11. ASSUME NEW p \in Callers, CommitReceipt(p) PROVE Leads(p)
  BY <1>4, <1>5, <1>11 DEF CommitReceipt, Step
<1>12. ASSUME NEW p \in Callers, ResolveIntent(p) \/ Boot(p) PROVE Leads(p)
  BY <1>0, <1>3, <1>12 DEF ResolveIntent, Boot, TypeOK, Call
<1>13. ASSUME NEW p \in Callers, \/ \E reuse \in BOOLEAN : ResolveReceipt(p, reuse)
                                \/ ResolveAttempt(p) \/ Switch1(p)
                                \/ \E ok \in BOOLEAN : Switch2(p, ok)
       PROVE  Leads(p)
  BY <1>1, <1>2, <1>3, <1>4, <1>13
     DEF ResolveReceipt, ResolveAttempt, Switch1, Switch2, Step
<1>14. ASSUME NEW p \in Callers, \/ LoadIntent(p) \/ LoadAttempt(p) \/ LoadReceipt(p)
       PROVE  Leads(p)
  BY <1>6, <1>14 DEF LoadIntent, LoadAttempt, LoadReceipt, Step
<1>15. ASSUME NEW p \in Callers, NEW w, NEW d,
              \/ AdapterRaises(p, w, d)
              \/ \E report \in Report : AdapterReports(p, w, d, report)
              \/ AdapterDies(p, w, d)
       PROVE  Leads(p)
  BY <1>0, <1>2, <1>3, <1>15 DEF AdapterRaises, AdapterReports, AdapterDies, TypeOK, Call
<1>16. ASSUME NEW p \in Callers,
              \/ Reobserve(p)
              \/ \E gone \in SUBSET Writes : \E outcome : RollBack(p, gone, outcome)
       PROVE  Leads(p)
  BY <1>1, <1>2, <1>16 DEF Reobserve, RollBack, Step
<1>17. ASSUME NEW p \in Callers, MeetsPending(p) \/ Crash(p) \/ CrashInCommit(p)
       PROVE  Leads(p)
  BY <1>3, <1>17 DEF MeetsPending, Crash, CrashInCommit, DieInCommit
<1>18. CASE Others
  BY <1>18 DEF Others, OtherTransition, MoveSwitch, CommitForeign, At
<1>19. ASSUME NEW p \in Callers, Begin(p) \/ Proceed(p) \/ Fail(p) PROVE Leads(p)
  <2>1. CASE Begin(p)
    BY <1>8, <2>1 DEF Begin
  <2>2. CASE Proceed(p)
    BY <1>7, <1>9, <1>10, <1>11, <1>12, <1>13, <1>14, <1>15, <1>16, <2>2, Zenon
       DEF Proceed, AdapterStep
  <2>3. CASE Fail(p)
    BY <1>15, <1>17, <2>3, Zenon DEF Fail
  <2> QED
    BY <1>19, <2>1, <2>2, <2>3
<1>20. ASSUME NEW p \in Callers, Leads(p) PROVE Barrier(q) /\ Undisturbed(q)
  <2>1. CASE p # q
    BY <1>20, <2>1 DEF Leads, At
  <2>2. CASE p = q
    BY <1>20, <2>2, Zenon DEF Leads, At
  <2> QED
    BY <2>1, <2>2
<1> QED
  BY <1>18, <1>19, <1>20 DEF Next

(* Once a receipt concludes the slot, the final State barrier lets no call *)
(* of execute() on to the adapter.                                         *)
THEOREM ConcludedIsClosed == Spec => ConcludedStaysClosed
<1> DEFINE A == \A p \in Callers :
        ~At(p, "Adapter") /\ At(p, "Adapter")' => Resolved("receipt") = None
<1>1. ExecutorInv /\ [Next]_vars => A \/ UNCHANGED vars
  <2> SUFFICES ASSUME ExecutorInv, Next, NEW q \in Callers, ~At(q, "Adapter"),
                      At(q, "Adapter")'
               PROVE  Resolved("receipt") = None
    BY Zenon
  <2>1. Barrier(q) /\ Undisturbed(q)
    BY ThroughBarrier DEF ExecutorInv
  <2>2. ~Has("receipt")
    BY <2>1, CallFact DEF CallerOK, Barrier, At, Late, Undisturbed
  <2> QED
    BY <2>2, ResolvedFact DEF ExecutorInv, Kind
<1> QED
  BY <1>1, ExecutorSafe, PTL DEF Spec, ConcludedStaysClosed
-----------------------------------------------------------------------------
(* Evidence: a hand-off under way has read the worktree of a concluded     *)
(* execution, and what it read is a success's only if the files were there.*)

EvidenceInv ==
    /\ ExecutorInv
    /\ reread # None => Has("receipt")
    /\ reread # None /\ Resolved("receipt").outcome = "SUCCEEDED" => reread = TRUE
    /\ VerifiedIsReal

(* A receipt of success is the receipt of the call that was made. *)
LEMMA SuccessFact ==
  ASSUME ExecutorInv, Has("receipt"), Resolved("receipt").outcome = "SUCCEEDED"
  PROVE  calls = 1 /\ Matched
<1>1. PICK i \in DOMAIN log : log[i].kind = "receipt"
  BY DEF Has
<1>2. Resolved("receipt") = log[i].rec
  BY <1>1, ResolvedFact DEF ExecutorInv, Kind
<1>3. Succeeded
  BY <1>1, <1>2 DEF Succeeded
<1> QED
  BY <1>3 DEF ExecutorInv, SlotOK

(* No step takes a transition back, or an adapter's call. *)
LEMMA OnlyGrows ==
  ASSUME ExecutorInv, [Next]_vars
  PROVE  /\ log' = log \/ \E e : log' = Append(log, e)
         /\ calls' = calls \/ calls' = calls + 1
<1> DEFINE Grows == /\ log' = log \/ \E e : log' = Append(log, e)
                    /\ calls' = calls \/ calls' = calls + 1
<1>1. ASSUME Locally PROVE Grows
  BY <1>1 DEF Locally, store
<1>2. ASSUME NEW p, NEW k, NEW rec, \/ Apply(p, k, rec)
                                  \/ Replay(p, k, rec)
                                  \/ DieInCommit(p, k, rec)
      PROVE  Grows
  BY <1>2 DEF Apply, Replay, DieInCommit
<1>3. ASSUME NEW p, NEW k, NEW rec, NEW load, CommitFails(p, k, rec, load)
      PROVE  Grows
  BY <1>1, <1>3 DEF CommitFails, Retry, Rejected, Conflict
<1>4. ASSUME NEW p, NEW w, NEW d,
             \/ AdapterRaises(p, w, d)
             \/ \E report \in Report : AdapterReports(p, w, d, report)
             \/ AdapterDies(p, w, d)
      PROVE  Grows
  BY <1>4 DEF AdapterRaises, AdapterReports, AdapterDies, store
<1>5. ASSUME NEW p, NEW gone, NEW outcome, RollBack(p, gone, outcome) PROVE Grows
  BY <1>5 DEF RollBack, store
<1>6. CASE Others
  BY <1>6 DEF Others, OtherTransition, MoveSwitch, CommitForeign
<1>7. CASE UNCHANGED vars
  BY <1>7 DEF vars, store
<1> HIDE DEF Grows
<1>8. ASSUME NEW p \in Callers, Begin(p) PROVE Grows
  BY <1>1, <1>8 DEF Begin, Execute
<1>9. ASSUME NEW p \in Callers, Proceed(p) PROVE Grows
  <2>1. CASE CommitIntent(p) \/ CommitAttempt(p) \/ CommitReceipt(p)
    BY <1>2, <1>3, <2>1, Zenon DEF CommitIntent, CommitAttempt, CommitReceipt, Concludes
  <2>2. CASE LoadIntent(p) \/ LoadAttempt(p) \/ LoadReceipt(p)
    BY <1>1, <2>2, Zenon DEF LoadIntent, LoadAttempt, LoadReceipt, Load
  <2>3. CASE \/ \E reuse \in BOOLEAN : ResolveReceipt(p, reuse)
             \/ ResolveAttempt(p) \/ ResolveIntent(p) \/ Switch1(p) \/ Boot(p)
             \/ \E admissible \in BOOLEAN : Switch2(p, admissible)
             \/ Barrier(p) \/ Reobserve(p)
    BY <1>1, <2>3, Zenon DEF ResolveReceipt, ResolveAttempt, ResolveIntent, Switch1,
                             Boot, Switch2, Barrier, Reobserve
  <2>4. CASE AdapterStep(p) \/ \E gone \in SUBSET Writes :
               \E outcome \in {"ROLLBACK_SUCCEEDED", "ROLLBACK_FAILED"} :
                  RollBack(p, gone, outcome)
    BY <1>4, <1>5, <2>4 DEF AdapterStep
  <2> QED
    BY <1>9, <2>1, <2>2, <2>3, <2>4 DEF Proceed
<1>10. ASSUME NEW p \in Callers, Fail(p) PROVE Grows
  BY <1>1, <1>2, <1>4, <1>10, Zenon DEF Fail, MeetsPending, Crash, CrashInCommit
<1> QED
  BY <1>6, <1>7, <1>8, <1>9, <1>10 DEF Next, Grows

(* The slot's receipt, once there, and the count of calls are settled. *)
LEMMA SettledKeeps ==
  ASSUME ExecutorInv, [Next]_vars
  PROVE  /\ Has("receipt") => Has("receipt")' /\ Resolved("receipt")' = Resolved("receipt")
         /\ calls = 1 => calls' = 1
<1>1. ExecutorInv'
  BY ExecutorNext
<1>2. calls' \in {0, 1}
  BY <1>1 DEF ExecutorInv, SlotOK
<1>3. ASSUME Has("receipt")
      PROVE  Has("receipt")' /\ Resolved("receipt")' = Resolved("receipt")
  <2>1. PICK i \in DOMAIN log : log[i].kind = "receipt"
    BY <1>3 DEF Has
  <2>2. i \in DOMAIN log' /\ log'[i] = log[i]
    <3>1. CASE log' = log
      BY <3>1
    <3>2. ASSUME NEW e, log' = Append(log, e)
          PROVE  i \in DOMAIN log' /\ log'[i] = log[i]
      BY <3>2 DEF ExecutorInv, TypeOK
    <3> QED
      BY <3>1, <3>2, OnlyGrows
  <2>3. Resolved("receipt") = log[i].rec
    BY <2>1, ResolvedFact DEF ExecutorInv, Kind
  <2> DEFINE j == CHOOSE j \in DOMAIN log' : log'[j].kind = "receipt"
  <2>4. j \in DOMAIN log' /\ log'[j].kind = "receipt"
    BY <2>1, <2>2
  <2>5. Resolved("receipt")' = log'[j].rec /\ Has("receipt")'
    BY <2>1, <2>2 DEF Resolved, Has
  <2> HIDE DEF j
  <2>6. log'[j].rec = log'[i].rec
    BY <1>1, <2>1, <2>2, <2>4 DEF ExecutorInv, OneBody, Kind
  <2> QED
    BY <2>2, <2>3, <2>5, <2>6
<1> QED
  BY <1>2, <1>3, OnlyGrows DEF ExecutorInv, SlotOK

LEMMA EvidenceInit == Init /\ HandOffInit => EvidenceInv
BY ExecutorInit DEF HandOffInit, EvidenceInv, VerifiedIsReal

LEMMA EvidenceNext ==
  EvidenceInv /\ [HandOffNext]_<<vars, evidenceVars>> => EvidenceInv'
<1> SUFFICES ASSUME EvidenceInv, [HandOffNext]_<<vars, evidenceVars>>
             PROVE  EvidenceInv'
  OBVIOUS
<1>0. ExecutorInv
  BY DEF EvidenceInv
<1>1. CASE [Next]_vars /\ UNCHANGED evidenceVars
  <2>1. ExecutorInv' /\ UNCHANGED <<edited, reread, handed>>
    BY <1>0, <1>1, ExecutorNext DEF evidenceVars
  <2>2. VerifiedIsReal'
    BY <1>0, <1>1, <2>1, SettledKeeps DEF EvidenceInv, VerifiedIsReal
  <2> QED
    BY <1>0, <1>1, <2>1, <2>2, SettledKeeps DEF EvidenceInv
<1>2. CASE HandOff /\ UNCHANGED vars
  <2>1. UNCHANGED <<log, view, leftover, tree, call, calls>>
    BY <1>2 DEF vars, store
  <2>2. ExecutorInv'
    BY <1>0, <1>2, ExecutorNext
  <2>3. /\ Has("receipt")' <=> Has("receipt")
        /\ Resolved("receipt")' = Resolved("receipt")
    BY <2>1 DEF Has, Resolved
  <2>4. Committed => Has("receipt")
    BY <1>0, ResolvedFact DEF Committed, ExecutorInv, Kind
  <2>5. CASE EditFiles
    BY <2>1, <2>2, <2>3, <2>5 DEF EditFiles, EvidenceInv, VerifiedIsReal
  <2>6. CASE Reread
    <3>1. Resolved("receipt").outcome = "SUCCEEDED" => AsRequested = TRUE
      BY <2>6 DEF Reread, Confirms
    <3> QED
      BY <2>1, <2>2, <2>3, <2>4, <2>6, <3>1 DEF Reread, EvidenceInv, VerifiedIsReal
  <2>7. CASE Derive
    <3>1. Has("receipt")
      BY <2>7 DEF Derive, EvidenceInv
    <3>2. StatusOf(Resolved("receipt").outcome) = "VERIFIED" =>
              calls = 1 /\ reread = TRUE
      <4>1. Resolved("receipt").outcome \in Outcome
        BY <1>0, <3>1, ResolvedFact, LogTypes DEF Has, ExecutorInv, Kind, ReceiptType
      <4>2. StatusOf(Resolved("receipt").outcome) = "VERIFIED" =>
                Resolved("receipt").outcome = "SUCCEEDED"
        BY <4>1 DEF StatusOf, Outcome
      <4> QED
        BY <1>0, <2>7, <3>1, <4>2, SuccessFact DEF Derive, EvidenceInv
    <3>3. VerifiedIsReal'
      BY <2>1, <2>7, <3>2 DEF Derive, EvidenceInv, VerifiedIsReal
    <3> QED
      BY <2>2, <2>7, <3>3 DEF Derive, EvidenceInv
  <2> QED
    BY <1>2, <2>5, <2>6, <2>7 DEF HandOff
<1>3. CASE UNCHANGED <<vars, evidenceVars>>
  BY <1>1, <1>3
<1> QED
  BY <1>1, <1>2, <1>3 DEF HandOffNext

(* P18-R2-F1 and the SUCCEEDED receipt: whichever call committed a receipt *)
(* of success, the worktree held the whole operation, re-observed; and     *)
(* Evidence handed off as VERIFIED came of files read as requested and of  *)
(* an adapter that was called.                                             *)
THEOREM OutcomesAreSound == FairHandOffSpec => []OutcomesSound
<1>1. Init /\ HandOffInit => EvidenceInv
  BY EvidenceInit
<1>2. EvidenceInv /\ [HandOffNext]_<<vars, evidenceVars>> => EvidenceInv'
  BY EvidenceNext
<1>3. EvidenceInv => OutcomesSound
  <2> SUFFICES ASSUME EvidenceInv PROVE SucceededIsReal
    BY DEF OutcomesSound, EvidenceInv
  <2>1. ExecutorInv
    BY DEF EvidenceInv
  <2> QED
    BY <2>1, SuccessFact, ResolvedFact DEF SucceededIsReal, Matched, ExecutorInv, Kind
<1> QED
  BY <1>1, <1>2, <1>3, PTL DEF FairHandOffSpec
=============================================================================
