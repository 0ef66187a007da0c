# Agent Civilization OS: the verification project

TLA+ models of the parts of `src/manosube_agent_civilization` that keep state,
race, crash or decide, the TLC runs that check them, and theorems about them checked by
TLAPS. Line numbers are those of the repository's files; `file_store.py`,
`projection/route.py` and so on are relative to the package.

1. [Inventory](#1-inventory)
2. [Modules](#2-modules-and-how-they-correspond-to-the-code)
3. [Runs](#3-runs-bounds-and-what-they-show)
4. [Fairness](#4-fairness)
5. [Proofs](#5-proofs)
6. [Disagreements between code and documents](#6-where-the-code-and-its-documents-disagree)
7. [Not modelled](#7-what-is-left-out-and-why)
8. [Plan](#8-plan)

## 1. Inventory

Everything durable goes through one component, the filesystem State Store. The
others are *routes*: functions that read the Store, decide, commit immutable
records through it and perhaps call something outside (an adapter, a network, a
model). There is no server; the concurrency is that of several processes
(and, in two routes, a worker thread) over one directory.

| component | state it keeps | what is hard | what makes it correct | module |
|---|---|---|---|---|
| **State Store**, transactional lane (`store/`, `reflow/commit.py`) | lineage log, current view, promoted records, a journal per transaction, genesis receipt, a file lock | a dozen durable writes per commit with a crash between any two; unlocked readers; retries after a lost answer | what is acknowledged stays; one verified chain; records never change; readers see committed States only | `FileStateStore` |
| **State Store**, coordination lane (`file_store.py` 307-719) | append-only ledger, materialized cache | a torn line, an unsynced line, stale expected tips, replays | one publication per identity; each record behind its writer's tip; no cache file without a line | `CoordinationLedger` |
| **Change executor** (`change_executor/`) | intent, attempt, receipt per slot; the kill switch chain | two processes on a slot, a claim repeated while it runs, the switch moving between checks, an adapter that lies, raises or dies | at most one dispatch, under an ACTIVE switch, ending in one true receipt; Evidence of what was read | `ChangeExecutor`, `ExecutionEvidence` |
| **Work-time transparency** | open, update and terminal notices of a work unit | update against terminal, clock regressions, failed reports | nothing after a terminal; contiguous sequence; monotone times | `WorkTimeCoordination` |
| **Projection** (`projection/`) | intent and attempt claims, envelopes, an artifact on GitHub | claim, search and create are separate; a request carried out late; edits | one artifact per subject, one owner, Evidence of what is there now | `ProjectionRoute` |
| **Multi-agent execution** (`multi_agent/`) | plans, claims, envelopes, outputs, releases | coordinator timeout against the worker's commit, in one process or two; adoption after a death | one terminal fact per attempt; nothing executed twice; unanimous Evidence | `MultiAgentPlan` |
| **Model runtime** (`model_runtime/`) | work units, envelopes, swaps, recoveries | a State read in one Boot and committed on another | snapshots are real States and only go forward | `ModelRuntime` |
| **Runtime observation and admission** (`runtime/`, `projection/execution.py`) | admission and declaration chains, envelopes, a claims file | chains moving while a capability is decided or a target probed; a fallback that crashes | issued and anchored under what is current; fallback only after the deadline | `TransitionChain`, `RootComposition`, `RuntimeObservation`, `FallbackController` |
| **URL Boot** (`url_boot/`) | envelopes | names that resolve differently from hop to hop | pinned safe addresses; true provenance | `UrlBoot` |
| **Reflow** (`reflow/`) | lifecycle events, the open list in the State | two callers on one Difference; Evidence expiring before the commit | closed once and soundly; the list matches the lifecycles | `ReflowRoute`, `ClosureGates` |
| **Difference engine** (`difference/`) | none: its callers keep results | stale and ended lineages carried in | legal chains, one per Difference; satisfied only if seen | `DifferenceDerivation`, `DifferenceLifecycle` |
| **Authority** (`authority/`) | rules, prohibitions, approvals | approvals that expire or belong to an earlier State; precedence | a human's matters need a human; declarations only restrict | `AuthorityEvaluation`, `GrantDecision` |
| **Acceptance policy** (`acceptance_policy/`) | baselines, transitions, adoptions | two adoptions simulated on one State | the lineage always folds; versions form a chain | `AcceptancePolicy` |
| **Observation engine, Evidence** (`observation/`, `evidence/`) | a growing bundle | contradictions in either order; repeated requests | no contradiction lost; a retry stays a retry | `ObservationEngine`, `EvidenceSufficiency` |
| **Independent verification** | none: resolves what is committed | grants and declarations committed meanwhile | selected by a human's signed statement | `IndependentVerification` |
| **Technical reviews** (`development_binding/review_*`) | a locked JSON ledger of claims | a launcher dying around the send; edited and dismissed reviews | sent once; the slot covers what runs; verified is clean | `ReviewControl` |
| **Comparative benchmark** | protocols, bundles, receipts, keys, submissions in the ledger | identities that leave content out, any order of commits | results rederive from records that stand; reproductions are their own | `BenchmarkRoute` |
| **Binding, Boot, CLI** | none of their own | they call the Store | the Store's properties | `CommittedRecords` |
| **Proof artifacts, v1.0 acceptance, development guards, canonicalization, topology, scripts** | ledger entries at most | little | - | - |

`PROJECT.json` lists every component with its files and status, and the hazards
(the places where a unit test would hardly reach) at their lines.

**How they interact.** Routes call the Store in-process. A transaction's lifetime
is one call of `commit` under `locks/store.lock`; what a route read before is
stale by then unless `commit` compares it. Boot (`boot/route.py`) is the reader
every route starts from. Nothing in the package calls `recover`: that is the
operator's act, which is why the Store's properties come in two groups, those that hold
whatever is called and those that hold when `recover` is run after a crash.
The Difference engine's results go to Reflow, which commits them; projection,
model execution and verifier selection ask the same grant decision; Evidence is
what projections, plans, observations and verifications hand off in the end.

## 2. Modules and how they correspond to the code

The models are in three layers. The Store is modelled write by write and is shown to
implement an atomic register of transitions and records; the ledger likewise. The
routes above rest on that promise, in one of two forms: `ChangeExecutor` has the
Store's log and the marks of its mechanism a route can observe, and the others use
`CommittedRecords`, a sequence of States and a set of immutable records, where
a route's commit loop (load, rebuild, compare and swap, retry) is one step except
where what a route decided depends on the State it decided on. The pure algorithms
are operators, checked inside a small machine that feeds them every history of inputs.

### State Store

`StateRegister` is the promise: a history of transitions and what a read of each record
answers, settled for good by one step per commit. An answer is a body or a refusal
(`Corrupt`): `resolve_record` raises where the journals that claim a record hold different
bodies of it (294-305), and goes on raising. `FileStateStore` is the code.

- *State.* `lineage`, `torn`, `files`, `jevent`, `manifest`, `staged`, `record`,
  `current`, `receipt` are the files of a project; `pc` and `job` are the local
  variables of whichever process holds the lock (`_lock`, 126-134; `Crash` frees
  it, as `flock` does); `rd` those of the unlocked readers.
- *Actions.* One per durable write of `commit` (1555-1625), `initialize`
  (1165-1302), `recover` (1627-1690), `_stage_records` and
  `_promote_staged_records`: `WriteEvent` is the journal directory with
  `event.json`, then `StageRecords`, `WriteIntent`, `AppendLineage`,
  `PromoteRecord` per record, `ReplaceCurrent`, `MarkCommitted`. The early
  returns (`CommitReplay`, `StageConflict`, `PromoteDiverges`,
  `RecoverDistrusts`) are actions of their own. `load_current` is three steps
  (`LoadReconstruct`, `LoadCheck` or `LoadWrite`), `read_current_consistent`
  three more.
- *Abstractions.* A State is a revision and a fingerprint; a body is a model value;
  a content address determines its content. Journals sort in any order, since
  their names are content addresses. Two writes are merged into one action when
  nothing distinguishes a crash between them (`event.json` and `state.json`;
  the staged record files and their manifest).
- `WellOrder` (used by the inductive arguments) states what a least index is;
  `FileStateStoreInv` holds the inductive invariants `DurableInv` (of `Spec`) and
  `OperatedInv` (of `OperatedSpec`), `FileStateStore_proofs` the proofs.

`Spec` is the Store under any calls; `OperatedSpec` adds the discipline that
`recover` has run before the next commit after a crash.

### Coordination ledger

`ChainLog` is what a ledger line is and what a tip is; `ChainRegister` the promise
(publish one record at the tip; answer with published records only);
`CoordinationLedger` the code, write by write: a line is appended in two halves
(`AppendHalf`, `AppendRest`; 455-461), then fsynced (`Sync`), then materialized.
`Heal` is `_heal_coordination_ledger_tail`, which every commit and recovery runs and a
resolve does not. `Crash` is the death of a process: everything written stays.
`PowerFail` is the death of the machine: of the lines after `durable`, the last
one an fsync covered, any suffix may be gone, and half a line may remain. The
`Malformed` value is a line in which two fragments ran together; that it is never
written is the content of `TypeOK`. `after`, the tip a writer expected, is not on
disk; it is carried in the model's lines so that `ChainLinear` can be stated.

### Change executor

`ChangeExecutor` is `execute` (`route.py` 1587-1653 and `_execute_body`) for one slot
with any number of callers and claims, and the kill switch's chain. Each Store
read and each Store commit is a step. The Store is the abstract one (`log`), plus
the two marks of its mechanism a route can observe: `view`, because
`load_current` refuses a view it cannot explain, and `leftover`, journals whose
commit was refused or killed before its intent and which make a repetition of that
transaction fail. The adapter (`AdapterReports`, `AdapterRaises`, `AdapterDies`)
may do any part of the operation and report any other. `Others` are transitions
from elsewhere, and a human activating or revoking the switch. A receipt is
reduced to what two receipts of one slot can differ in.

`ExecutionEvidence` extends it with the hand-off of the receipt to Evidence
(`evidence_handoff.py` 558-777), any time later and any number of times: `Reread` is
the second independent reading of the worktree and the check that it does not contradict
the receipt, `Derive` the State loaded after it and the Evidence made of both. Between
execution, reading and derivation `EditFiles` lets others change the operation's files.
`ChangeExecutor_proofs` has the theorems of both.

### Work-time transparency

`WorkTimeCoordination` is one work unit's chain of notices, as any number of
processes run the work unit through `with_work_time_coordination`. `chain` is the
chain in the ledger, on which a commit at the tip is `ChainRegister`'s one step
(`Publish`); `call` holds each caller's local variables: where it is, `opened_at`,
the reporter's `tip_ref` and `sequence_number`, the notice under construction, and
how the last call ended. Each read of the Store and each commit is a step, since
each takes the lock for itself: a report is `Report` (number and clock),
`ResolveTerminal`, `ResolvePredecessor`, `CommitUpdate`; closing is `Finish`,
`ResolveTip` (one update per step), `CommitTerminal`. `StoreRaises` is an error of
any of them, also after the line is in the ledger; `Crash` a death. A clock
reading is any of `Seconds`, a deadline a number of `Minutes` after the open, and the two
are compared as the code does it: the time elapsed is rounded to the nearest minute
(`Elapsed`; `clock.py` 25-33). A notice keeps its identity, predecessor, time, deadline,
lateness and outcome. Only callers whose opens agree to the last byte get past
`Open`, which is what the ledger demands.

### Routes that leave the process

- `ProjectionRoute` is `project_to_github` for one mapping key: the intent's claim,
  the search on GitHub, the attempt's claim, the create request, the envelope, the
  observation and, later, the receipt's hand-off. GitHub is a set of requests it
  received, each carried out at once or later, found by a search now or later, and
  edited or deleted by anyone. Calls die, lose answers and are repeated with their
  token or another.
- `UrlBoot` is one bounded fetch after another. `dns` is what the name service
  would answer now; each hop resolves, admits and connects as separate steps, so that
  the answer may change between them. The envelope and the hand-off carry what was
  really connected to.
- `IndependentVerification` resolves a selection's grants and declarations, calls
  the verifier, checks its answer against what is committed then and hands it off;
  `GrantDecision` is the decision it shares with projection and model execution.
- `RuntimeObservation` is `observe_runtime_target` with its HTTP and SSH adapters,
  grants, boundaries and redaction, over a clock that any step may advance;
  `FallbackController` the bounded fallback from Actions (poll budget, deadline, and a
  claims file written without a lock) that drives it.

`Routes_proofs` has the theorems of the first three, of the work unit, the observation
engine and the benchmark, `Runtime_proofs` those of the others and of the chains below.
In a theorem of projection, URL Boot, verification, agents and acceptance policy a route
runs beside every other writer of the project: the specification proved of
adds to the route's own steps a State of any content and the commit of any records but
the route's own kinds, which no run has room for.

### Chains and composition at the root

`TransitionChain` is the rotation and revocation of root admissions and deployment
declarations: a commit decides on a State it loaded and swaps on it later, and a
lost swap is decided again (`RetryTransition`). `RootComposition` extends it with the
service composed once and the requests that ask it for a capability, each boot a
step of its own.

### Agents

`ModelRuntime` is opening, executing, swapping and recovering work units in
sessions. `MultiAgentPlan` extends it: a plan is opened by one call (`opener`) and
executed by two (`call`), each attempt on a worker thread (`thread`) with a
terminal gate that only its own process sees. `Timeout`, the thread's commit, the
adoption of an earlier claim, the output, the release, the aggregation and the
hand-off are actions; a process dies with its threads. `Agents_proofs` has the theorems
of both, with sessions, opener and calls all in one Store.

### Deciders

- `AuthorityEvaluation` holds the declared rules, prohibitions and approvals and
  evaluates every request after each declaration, tick or move of the State.
- `ReflowRoute` takes Differences along `DifferenceLifecycle` (the transition table),
  closing them over `ClosureGates` (the gates of a Closure Evaluation) and
  `EvidenceSufficiency`. A call keeps what it loaded until its compare-and-swap.
- `DifferenceDerivation` is `derive_differences`, its loop over the targets a recursive
  function of their number; the machine around it feeds a result
  back in as a predecessor, old results too, and lets lineages grow elsewhere. A target
  may carry any lineage that is held, also one that another target of the request carries.
- `AcceptancePolicy` is the lineage of clauses: proposals, ratified adoptions, the
  fold that gives the effective policy and the preview that predicts it.
- `ObservationEngine` is `observe` over a bundle its caller threads.
- `ReviewControl` is the review ledger, one operation a step, with launchers that die
  between operations while their process lives on, and the reuse of a native review.
  The send between them is the documented use of the ledger (`spawn_review_process`
  itself refuses to run): what is checked is what the ledger grants and forbids.
- `BenchmarkRoute` is the benchmark's five routes, each one commit to the ledger; a
  record carries the records it names, so that what a reader resolves and what the
  record was computed from can be compared. Instants are tenths of a second, and the
  validity of keys compares their texts (`Text`), as the code compares strings: a time
  without a fraction sorts behind every fraction of its second.

`Decisions_proofs` has the theorems of authority, Reflow and derivation, `Agents_proofs`
those of the acceptance policy and the reviews.

### Instances

`MCFileStateStore`, `MCChangeExecutor` and `MCCoordinationLedger` only add the symmetry
sets. `MCExecution` adds who calls: by its variable `alone`, one process while others
commit and hand the receipt off, or several that repeat one call at once. `MCAgents`,
`MCOutside`, `MCDecisions` and `MCRuntime` put several components in one run. Their
variable `driver`, chosen in the initial state, says which one moves: the components share
the Store's or the chain's state but not each other's steps, so that a run is the union of
its drivers' state spaces. The runs are composed to keep the project small, not because
the components are independent; where they are not (root composition over its chains, the
controller over the observations, Reflow over Evidence and the gates, plans over work
units) the modules themselves compose them.

## 3. Runs, bounds and what they show

| run | bounds | distinct states | shows |
|---|---|---|---|
| `store_free` | genesis and 2 transactions, 1 record, 2 bodies, 1 reader, torn appends | 248 039 | `CommittedIsDurable`, `CommittedViewMonotone`, `ResolvedImmutable`, `LoadedIsCommitted` under any calls |
| `store_operated` | the same with 2 fingerprints, no reader | 286 852 | `LineageSound`, `AckedStaysCommitted`, `StoreReadable`, `ImplementsRegister`, `IntentCompletes` when recovery is run |
| `executor_race` | 2 callers, 2 claims, 1 path, 2 retries, 1 foreign transition, deaths in commits | 1 755 917 | `AdapterAtMostOnce`, `ExecutesUnderActiveSwitch`, `ReturnedIsDurable`, `ConcludedStaysClosed` |
| `executor_outcomes` | 1 caller alone with 2 claims, 2 instants (one outside the window), 1 foreign transition, the receipt handed off any number of times, one edit by others; or 2 callers repeating one call at once; a write and a delete, deaths in commits | 426 011 | `OutcomesSound`, `AttemptResolves` |
| `ledger_crash` | 3 identities, 2 chains, 2 bodies, processes die | 27 396 | `TypeOK`, `CacheBacked`, `ImplementsChainRegister` |
| `ledger_power` | 2 identities, 2 chains, 2 bodies, the machine may stop | 152 418 | `ChainLinear` |
| `agents` | sessions: 1 session, 2 adapters, 2 contents; plans: 2 slots, 2 calls; policy: 2 participants, 8 revisions; reviews: 2 identities, 2 launchers, 1 pid, 2 days with 1 launch each, 2 edits | 1 001 019 | `SessionsSound`, `SlotsSound`, `EvidenceUnanimous`, `NotExecutedTwice`, `PolicySound`, `LaunchesSound` |
| `outside` | work unit: 2 callers, clocks that read 0 or 80 s, deadlines of 0 or 1 min, 2 reports; projection: 2 calls, 2 tokens, 3 payloads, 1 edit; URL: 2 admitted hosts and one not, 2 redirects, 3 addresses; verification: 2 grants, 5 declarations; observations: 3 positions, 20 requests; benchmark: 3 policies, 3 runs, 4 keys, submissions at 0.5 and 2 s, 6 records | 1 478 506 | `NothingAfterTerminal`, `NoticesSound`, `ProjectionSound`, `FetchSound`, `VerificationSound`, `BundleSound`, `BenchmarkSound` |
| `decisions` | authority: any 2 records, 1 tick, 1 move; reflow: 2 callers, 2 Differences, 2 observations, 3 revisions; derivation: 2 targets, 3 results held | 424 622 | `AuthoritySound`, `ReflowSound`, `DerivationSound` |
| `runtime` | chains of 2 committers and 2 retries; 1 request, 2 executions; 1 observer, clock to 3; 2 operations, 2 invocations, 1 crash | 644 275 | `AdmissionSound`, `ObservationSound`, `FallbackSound` |
| `removed_clause`, `observation_retry` | those of `agents`, `outside` | - | the disagreements of section 6 |

A property named `...Sound` is the conjunction of what its component promises; each
conjunct has a definition and a comment of its own:

| property | its parts |
|---|---|
| `OutcomesSound` | a durable SUCCEEDED is what the worktree held when its receipt was committed; VERIFIED Evidence is of an adapter that was called and of files read as requested for it |
| `LineageSound` | no event twice; only the last event may be uncommitted; the chain verifies |
| `NoticesSound` | contiguous chain; monotone times; lateness recorded, to the nearest minute; what a caller is told is the recorded outcome |
| `ProjectionSound` | one request sent; one owner from claim to envelope; verified Evidence is true now |
| `FetchSound` | one safe admitted address per host; hops bounded; provenance as it happened |
| `VerificationSound` | selected by a human's signed, active, matching statement; resting on something besides its target |
| `BundleSound` | every contradiction is kept on both sides; later conflicts do not break a retry |
| `BenchmarkSound` | results rederive from records that stand; no task of the frozen corpus is left out; a reproduction is of another process, or signed with the registered key, within less than a second of when it was in force |
| `SessionsSound` | snapshots are States the Store had; units are carried forward only |
| `SlotsSound` | a plan can be executed; one terminal fact per attempt; accepted outputs have their envelope; a coordinator waits without limit for a commit only |
| `PolicySound` | the lineage folds; versions form a chain; narrowing makes no new gate; what could be adopted can be previewed |
| `LaunchesSound` | sent once; the slot covers what runs; the daily ceiling; cancelled is dead; verified is clean |
| `AuthoritySound` | a human's matters are autonomous under an approval in force only; decisions cite their ground; declarations only restrict |
| `ReflowSound` | the open list matches the lifecycles; closed once; closed on sufficient, current, independent Evidence; references are committed |
| `DerivationSound` | chains are legal; one per Difference, unless another target's binding superseded it; satisfied only on what is seen |
| `AdmissionSound` | chains advance legally, never past a revocation; a capability is issued under the admission it was composed under |
| `ObservationSound` | probes run within grant and boundary; nothing redacted is shown; an envelope enters on a State whose declaration it was observed under |
| `FallbackSound` | fallback only when Actions is unavailable or the deadline is reached; a claimed operation has its envelope |

*Why the bounds suffice.* Two transactions after genesis are a predecessor, a successor
and a competitor for the same revision; crashes and recoveries are not bounded, so every
sequence of interrupted attempts at them is covered. Two bodies and one record give every
conflict, since records do not interact. Two callers with two claims give a race between
claims and, as any caller may use any claim, between two calls of one claim; the number of
calls and crashes is unbounded in the executor, only foreign transitions (`MaxForeign`)
and compare-and-swap retries (`MaxRetries`) are counted. In `executor_outcomes` two
processes repeat one call, which is enough for each to obstruct the other; claims that
compete are those of `executor_race`. Three identities in two chains give a chain of
three, or two chains interleaved. Two callers, two reports, two clock readings and two
deadlines give every order of two clocks, a deadline met, one missed and marked (80
seconds after an open due at 0) and one missed and not marked (80 seconds where 1 minute
was due), a skipped number, and a close between any two steps of a report. Two slots
settle in both orders and with equal or different candidates; two calls are a call and its
repetition, or two processes at once. The policy driver needs eight revisions for open,
propose, adopt, propose and adopt again with a competitor. Two Differences are one that is
moved and one whose open entry must survive it. Three held results are a predecessor, its
successor and a stale copy. The inputs of deciders are the good one, and others that fall
short of it in one way each. One observer is enough for what grants, chains and the clock
do to an observation; controllers side by side are left to the theorem `FallbackHolds`.
The bounds of several components (`FewRevisions`, `PolicyRevisions`, `MaxRevision`,
`MaxFiled`) cut every driver after the State moved under it at each of its steps.

Model values are shared between drivers that use them for different things, as
symmetry wants one set: `t1` and `t2` are a projection's tokens, a URL's safe
addresses and the work unit's callers; the `ASSUME`s of the instances say so. Symmetry
is used in runs without liveness properties only, and never over a value an expression
singles out. Deadlock checking is on for the ledger, where the system cannot stop,
and off elsewhere: every transaction, plan or request may be done.

Every property also has a seeded fault (`\* Seeded fault:` in the modules), a
conjunctive one a fault for most of its parts: a plausible bug of the code under which
TLC finds the property violated.

## 4. Fairness

Safety runs assume none. For liveness:

- *Store* (`FairSpec`): weak fairness of the lock holder's next step (a process
  that runs, runs on) and of `RecoverBegin` (the operator runs `recover` when it can be
  run). `IntentCompletes` holds of behaviours in which crashes eventually stop.
- *Executor* (`MCSpec` of `MCExecution`, `FairHandOffSpec` in the theorem): weak fairness of
  a call's next step, and strong fairness of `AsksAgain`, a call with the claim of an
  existing attempt. Strong, because the caller is often busy with another claim's call,
  and the code does nothing for an orphaned attempt unless its own claim asks
  (1093-1134). `AttemptResolves` says that this is enough once failures stop, with one
  exception: the Store stays *obstructed*, for ever. That it names the exception and no
  other is the point of the property. A Store is obstructed if a receipt's commit was
  killed before its intent, at the revision at which every later call tries again (the
  journal it left refuses them, `route.py` 515; a foreign transition moves the revision and frees
  them), or if a replay by an overlapping call wrote an old `current.json` back, so that no
  State can be loaded. Both happen in the run: without either disjunct of `Obstructed`
  TLC finds the property violated.

The other components promise no progress of their own: their calls end when their
caller's does, and what an abandoned call leaves is taken up by the next call or by nobody.
`BlockedOnCommitOnly` (in `SlotsSound`) is the safety side of the one wait without a
limit they contain.

## 5. Proofs

TLAPS checks, for every value of the constants that satisfies the modules' `ASSUME`s:

| theorem | says | hypotheses |
|---|---|---|
| **State Store**, `FileStateStore_proofs` | | |
| `DurableCorrect` | `Spec => [](TypeOK /\ CommittedIsDurable /\ NoDuplicateEvents)` | none |
| `StoreTyped`, `LoadsCommitted` | `Spec => []TypeOK`, `Spec => []LoadedIsCommitted` | none |
| `ViewMonotone`, `RecordsImmutable` | `Spec => CommittedViewMonotone`, `Spec => ResolvedImmutable` | none |
| `LineageHolds`, `AcksHold` | `OperatedSpec => []LineageSound`, `OperatedSpec => []AckedStaysCommitted` | torn appends allowed |
| `AlwaysReadable` | `OperatedSpec => []StoreReadable` | no torn append |
| `StoreImplementsRegister` | `OperatedSpec => ImplementsRegister` | torn appends allowed |
| **Change executor**, `ChangeExecutor_proofs` | | |
| `ExecutorTyped`, `OneDispatch`, `DispatchedWhileActive`, `ReturnsDurable` | `Spec => []` of `TypeOK`, `AdapterAtMostOnce`, `ExecutesUnderActiveSwitch`, `ReturnedIsDurable` | none |
| `ConcludedIsClosed` | `Spec => ConcludedStaysClosed` | none |
| `OutcomesAreSound` | `FairHandOffSpec => []OutcomesSound` (the fairness is not used) | none |
| **Coordination ledger**, `CoordinationLedger_proofs` | | |
| `LedgerSafe`, `LedgerTyped` | `Spec => [](TypeOK /\ NoDuplicateKeys /\ ChainLinear)`, `Spec => []TypeOK` | power failures allowed |
| `CacheTrusted`, `LedgerImplementsRegister` | `Spec => []CacheBacked`, `Spec => ImplementsChainRegister` | no power failure |
| **Routes**, `Routes_proofs` | | |
| `WorkTimeSafe`, `NoticesHold` | `Spec => []` of the type invariant, `NothingAfterTerminal` and `NoticesSound` | none |
| `FetchesHold` | `UrlSpec => []FetchSound` | beside any other writer |
| `VerificationsHold` | `VerificationSpec => []VerificationSound` | beside any other writer |
| `ProjectionsHold` | `ProjectionSpec => []ProjectionSound` | beside any other writer |
| `BenchmarkCorrect` | `BenchmarkSpec => []BenchmarkSound` | none |
| `BundlesHold` | `ObservationSpec => []BundleSound` | none |
| **Agents**, `Agents_proofs` | | |
| `SessionsHold`, `SlotsHold`, `EvidenceHolds` | `AgentsSpec => []` of `SessionsSound`, `SlotsSound`, `EvidenceUnanimous` | beside any other writer |
| `NotTwice` | `AgentsSpec => NotExecutedTwice` | beside any other writer |
| `LaunchesHold` | `ReviewSpec => []LaunchesSound` | none |
| `PolicyHolds` | `PolicySpec => []PolicySound` | beside any other writer |
| **Runtime**, `Runtime_proofs` | | |
| `AdmissionsHold`, `ObservationsHold` | `RuntimeSpec => []AdmissionSound`, `RuntimeSpec => ObservationSound` | chains, requests and observers together |
| `FallbackHolds`, `FallbackObservationsHold` | `FallbackSpec => []FallbackSound`, `FallbackSpec => ObservationSound` | chains and controller together |
| **Deciders**, `Decisions_proofs` | | |
| `AuthorityHolds` | `AuthoritySpec => AuthoritySound` | none |
| `ReflowHolds` | `ReflowSpec => []ReflowSound` | none |
| `DerivationsHold` | `DerivationSpec => []DerivationSound` | none |

The `ASSUME`s are of five kinds, and TLC evaluates each of them on the runs: the ranges of
bounds, ceilings, deadlines and instants; that one set is a part of another
(`WindowAssumption`, `GrantedAssumption`); that a value that stands for nothing is none of
the things it is compared with (`NoneAssumption`, `BodyAssumption`, `ReceiptAssumption`,
`CandidatesAssumption`, `ReviewAssumption`, `ClausesAssumption`), as Python's `None` is not;
that a field has one of the values its schema or type admits (`StatusAssumption`,
`RulesAssumption`, `ResultsAssumption`, `ObservableAssumption`, `LooksAssumption`); and that
a closing call's inputs are about what it read (`ClosureRequestsAssumption`).

The hypotheses of the table are constants of the models. Torn appends and power failures say
which failures there are: `StoreReadable` is false with half a line at the lineage's end
and `CacheBacked` after a power failure. Section 6 explains both.

`NoDuplicateEvents`, `NoDuplicateKeys` and the work unit's type invariant are proved and
therefore in no run of their own (the first is a part of `LineageSound`).

**The Store under any calls.** `CommittedIsDurable` is not inductive: that
`MarkCommitted` keeps it depends on how the lock holder came there, and the lock
holder may be a `commit`, an `initialize` or a `recover` that resumes what some dead
process left. `DurableInv` adds three parts. `JournalsOK` relates a journal's files
to each other and to the lineage (a marker needs an intent, an intent an event; the
journal's event is the lineage's). `JobOK` relates the holder's `pc` to the disk:
before the append its transaction is not in the lineage, after it is, and at
`MarkCommitted` every claimed record is promoted. `CallOK` says which steps belong
to which call, and that everything `recover` has still to do carries an intent.
The proof has one lemma per action; the reader's actions are one lemma, as they
change nothing but the view. Three of the theorems are about pairs of states and
follow from `DurableInv` because a journal's files and a genesis receipt only grow
(`FilesGrow`, `ReceiptStays`): what is committed stays so (`CommittedStays`), hence the
longest committed prefix only grows (`PrefixStays`; that such a prefix exists is
`CommittedLenFact`, by `WellOrder`), and a record a read resolves is a promoted one
of a committed transaction. `HeldIsCommitted` carries the State a reader holds across its
unlocked steps. That an answer stays, a refusal included, needs one thing more (`FreshOK`): a
commit stages only records that have no file yet, and once, so a later claimant of a
record that reads answer adds no body to compare (`BodiesStay`).

**The Store whose operator recovers.** Under any calls the lineage may break: a commit let in
behind an interrupted one does it. `OperatedInv` says why it does not
where `recover` runs first. At most one transaction is interrupted, and its event is the
last of the lineage or has still to be appended and extends it (`InterruptedOK`); a commit or
initialization at work is the only one that ever will be (`AloneOK`); what its event extends
is bound to the chain as it is now (`BindingOK`); the genesis comes first, with a
receipt that verifies (`GenesisOK`); what was acknowledged is committed and in the
lineage (`AckedOK`). TLC checked this invariant with torn appends (290 024 states) before it
was proved. For the refinement only two steps are visible: `MarkCommitted`, at
which the prefix and the visible records grow together, and the `WriteLineage` of a
bare genesis, which has no journal to mark; each is one step of `StateRegister`
(`VisibleStep`), and every other action is a stutter (`InvisibleStep`).

**The executor.** `AdapterAtMostOnce` needs to know who may be past the attempt. An attempt's
record has the nonce of the call that made it, and `Attempted(p)` says it is `p`'s. `ExecutorInv`
is: a slot's records of one kind have one body (`OneBody`); the counter of
dispatches is 0 or 1, needs an attempt, and a durable success needs a dispatch and
a worktree that matched (`SlotOK`); and of each caller, what its step implies
(`CallerOK`): before its attempt is committed the nonce is not its own; from there to the
adapter it is, nothing was dispatched yet, and as long as the attempt's State is the
last there is no receipt; after the adapter, something was dispatched. Steps that change
a caller's locals only, steps that commit and steps that
meet a replay have a lemma each (`LocalKeeps`, `ApplyKeeps`, `ReplayKeeps`). No call
goes on to the adapter once a receipt stands, because the one way there is the barrier
(`ThroughBarrier`), which demands that the attempt's State still is the last.
`EvidenceInv` adds what a second reading must agree with.

**The ledger's argument.** `LedgerInv` is the three properties and `JobOK`: an
unappended entry is unpublished and at its tip (the lock protects that until
`AppendRest`), and an entry to be materialized or returned is published. A torn
tail appears only before `AppendRest` or when the lock is free, and every path to
`AppendHalf` heals it, so no complete line is `Malformed`. Losing a suffix keeps
`ChainLinear` and `NoDuplicateKeys` because both are statements about prefixes.
The refinement maps `AppendRest` to `Publish`, `Return` to `Answer` and the rest to stutters.

**The work unit's argument.** What a caller read before its commit may be stale,
so the invariant does not say it holds of the chain's end: `CallOK` says of a
notice about to be committed that it may stand directly behind *some* notice of
the chain (`BehindAt`), which growth never undoes (`GrowthKeeps`). At the commit,
the tip check and the identities' injectivity along a contiguous chain make
that notice the last one (`PublishKeeps`). A terminal is no one's predecessor,
so nothing follows it, although no commit looks for it. What a mark of lateness says in
seconds is arithmetic about rounding (`NearestFact`, `LatenessFact`).

**The routes.** What a route saw before it left the process is still so when it comes back,
since records stay committed and a past State stays what it was. Of a *fetch*, the
invariant follows one hop: the grant it is bound by (`BoundOK`), the host,
address and number of the hop under way (`HopOK`), and that an envelope says what
was connected to (`EnvelopeOK`), which keeps `ConnectionsPinned` although the
name service changes its answer between two hops. Of a *verification*, `SelectedRun` holds
from the selection to the hand-off because a committed declaration is never
uncommitted; that it suffices to find *some* grant the decision does not exclude is
`AuthorizesSays`. Of a *projection*, `ClaimsHold` says that a call past the intent is of
the intent's body, so that calls with distinct tokens cannot both be past it; hence
the create request has one sender unless a token is shared (`NoneShared => OneSends`), and the attempt and
the envelope are of the intent's claim (`AttemptOfIntent`, `EnvelopeOfClaim`).

**The agents.** `SessionsInv` says of each record that its snapshot is a State the
Store had and that its envelope goes forward (`RecordOK`), and of a session between
Boot and commit the same of what it holds. Of a plan, a key has one body for
good (`BodiesUnique`), so an output that names an envelope keeps naming it. `CallOK`
relates a call to its threads: the thread with the terminal gate is the one its
call waits for, so that a coordinator waits without limit for a commit only. `AloneOK` is what holds
while no two calls ever overlapped: the one in flight is the only one that can claim or
settle its slot, and the envelope it is about to settle with is that of the slot's claim
(`FoundOK`, `SlotFact`). The
conjunction, `PlanInv`, was checked by TLC on the instance of the run `agents` first.

**The reviews.** That a review is sent once is not about the send but about who may still
do it. `LaunchersOK` gives a claim at most one launcher past it and ties each launcher's step
to the claim's status and to whether the review was sent. `ProcessesOK` gives a review one
process, whose pid the claim and the launcher agree on, so that the cancellation, which
knows a pid only, ends the process of its own review (`CancelOK`). `ReviewClaimsOK` says that an unfinished
claim has the slot and that the day's counter is the number of claims made on it.

**The acceptance policy.** Appending an adoption folds once more on top of what the
lineage folded to (`FoldsCleanly` is about just that), so `LineageOK` says of each prefix
what it is to be: that it folds, that a version in force is the last adopted change
of its clause, that narrowings added no blocker. A call decides on the State it loaded;
`ParticipantOK` says that as long as that State is the last, the lineage is the one it
saw fold, and `CommitCounts` that any commit moves the State on. That the fold has one
value at every prefix and that an append folds once more (`ViewsExist`, `ViewsAgree`,
`PolicyAppends`) is proved by the shortest prefix of which it would not hold (`WellOrder`).

**The runtime.** A route here decides on a State it loaded, is away, and comes back to a
longer history. `Grown` is what every step of everyone does to the Store: past States and
resolved records stay. So `CommitterOK` (decided rightly on a State that was), `RequestOK`
(issued at a State with the service's admission) and `ObserverOK` (probed live, shows what
it may) survive the steps of others, and the compare-and-swap makes the State decided on
the last one, of which `HeadsAdvanceLegally` and the anchor of an envelope are about. Of
the controller, `InvocationOK` says that an observation is made only where Actions is not
available or the deadline has passed, and `RealClaims` that every copy of the claims, in the file
or in an invocation, is of operations that were executed; a stale copy written over a newer one
loses claims but adds none.

**Authority.** `MostRestrictiveOf` says what the most restrictive decision of a set is; more
rules and prohibitions make the set larger, so the decision no milder
(`DeclarationsRestrict`), while the human floor and the prohibitions above it depend on
no rule at all. The invariant is small: the rules declared are of the universe, and an approval's
scope is that of the intent it binds, so that an approval found by its intent covers it.

**Reflow.** `EventsOK` says that two events of a Difference have different bases, as a
commit moves the State from the base of its event, hence that one is the latest, and
`OpenOK` that the State's open list is what the latest events leave open. No event leads to
VERIFYING (`EventOK`): a closing follows the Genesis itself, and only one that was
not committed yet (`DecidedOK`), so a Difference is closed at most once. What a closing
Evaluation shows is proved of the gates: sufficient Evidence is as good as its weakest
and as old as its oldest part.

**Derivation.** `BoundExists` and `DeriveIs` unfold the loop over the targets; that
`ResultOK` holds of the result after every target is proved by the least target after
which it would not (`DeriveOK`). `ResultOK` is: every chain in the result is legal and
ends where its Difference says (`ChainAppends`: a chain that was validated stays legal by
the one event the binding adds); what was satisfied was seen; and of a Difference there is
one chain unless a binding of another target superseded it. A binding finds a chain of its
Difference in the result only where it carries a lineage another target carries too, and
then that target's binding has superseded it or is refused (`EndedElsewhere`, `OneFresh`,
`OneReplaced`). Lineages may be grown elsewhere, stale or ended: only that they are
sequences is assumed of what is held (`HeldOK`), as `ValidPredecessor` refuses the rest.

**Bundles.** The latest evaluation of a fact names all the facts that contradict it
(`FactsNameAll`), because a call re-evaluates each fact its own facts meet. `AnswerKept` says
of a request that was answered that its observation and bindings are still there, and that
its exact repetition is accepted if it met no contradiction then: no later call touches
what another observation owns.

**The benchmark.** The parts of the property are statements about one record and the
records it names (`Rederived`, `Own`), which additions keep. That one actor signs with one
key under one protocol is about two submissions: it follows from `IdsUnique` and
`AnchorsNamed`, as a key's identity is made of actor and protocol and an identity is filed
once. That a key found in force by its texts was in force within less than a second of it
is `HeldFact`, by what a text tells of its instant (`TextFact`). `CorpusCounted` is the
completeness: a group whose own events are the corpus task by task has as many counted as
there are tasks. `FilingKeeps` says what one filed record has to show, and each route has
a lemma that shows it.

**Only model-checked.** Liveness: `IntentCompletes` and `AttemptResolves` are about what
must happen under fairness, which the provers at hand do not reach (ENABLED). Every other
property of a passing run is stated by a theorem. What the theorems do not give is what a run
is for besides: that the interesting cases happen (the seeded faults), and that the two
disagreements of section 6 do.

## 6. Where the code and its documents disagree

Two runs end in a counterexample; `PROJECT.json` quotes the lines.

- `removed_clause` (`BoundToPredecessor`): a clause taken out by an adopted REMOVE and
  proposed again is bound to the baseline (`acceptance_policy/route.py` 538), where the
  fold demands the REMOVE (`engine.py` 602); the adoption is refused for ever.
- `observation_retry` (`ExactRetryAccepted`): an observation that contradicts an earlier
  one is stored CONFLICTED, and its exact repetition is refused as an identity collision
  (`observation/engine.py` 516).

What follows was met while modelling. The models behave so, and the properties are
stated around it; it has no run of its own.

*Store.* A commit let in after a crash past COMMIT_INTENT, before `recover`, appends
behind an uncommitted event, and completing the first then breaks the chain
(`file_store.py` 1570, 1600; 1315 speaks of one boundary every public read shares): hence
`OperatedSpec`. Replaying an older transaction rewrites `current.json` with its old State,
which then is more than one revision behind (1596; 1466 says nothing explains that).
A bare `initialize` repeated after an interrupted genesis with records returns success
for a genesis that never counts as committed (1291; `InKind` excludes it from the operated
Store, as `binding/route.py` always supplies records). Half a line at the lineage's end
stops every read and nothing heals it (1473, `CrashMidAppend`). `recover` leaves journals
without an intent (1649). Such a journal also claims the records it staged: where its
transaction died before COMMIT_INTENT and another one commits a different body of one of
them, that commit succeeds and every later read of the record raises (294-305;
`Resolved` answers `Corrupt`). A ledger replay materializes a line that was never fsynced (627),
so that after a power failure the cache may hold an orphan (678 says it cannot).

*Change executor.* A second crash before the attempt leaves a claim stale for ever, without
any foreign transition (`route.py` 1228; `CHANGE_EXECUTOR_CONTRACT.md` 663 says it can
resume). A death inside the receipt's commit leaves a journal that every repetition at that
revision meets (515; 366 promises an end), and a replay by a call that overlaps may write an old view back;
`AttemptResolves` names both. Its commits rebase onto transitions Boot never saw (514).

*Work-time transparency* (`ReportRaises`, `Finish`). `report` spends its sequence number
before the commit (`adapters.py` 150), so after one refused report its later ones name a
predecessor that does not exist and are refused as skipped; a report that was published but
whose materialization raised leaves the reporter behind its own chain, and its terminal is
refused too; a clock before `opened_at` replaces the error `perform` raised (345), which
the docstring says is "always re-raised unchanged" (299).

A notice less than half a minute behind its deadline is not marked late, the elapsed time being
rounded (`clock.py` 33; `route.py` 291-294 says no rounding hides a missed deadline); a deadline
is in whole minutes, so one that is later than that is always marked.

*Projection.* The attempt has no nonce: two calls with one token that run at once both
resolve none, commit the same one and create (`projection/route.py` 1060; `errors.py` 56).
`OnePost` excludes them. The capability of `projection/execution.py` refreshes its snapshot
from whatever Boot finds after a call (237), so an external commit that lands during the call is
taken for its own (32 promises to refuse it).

*Runtime observation.* `_save_claim_state` truncates and writes a claims file without a
lock (`scripts/runtime_observation_transport.py` 923): two controllers lose one another's
claims, and an operation may be observed again (`docs/runtime_observation_transports.md` 969
says it reports ALREADY_SATISFIED). `ClaimsAreReal` states the direction that holds.

*Multi-agent execution.* The terminal gate is in-process: two processes on one plan may
each settle an attempt (`multi_agent/route.py` 1617); `OneTerminalFact` and
`NotExecutedTwice` assume they do not overlap.

*Technical reviews.* An import is addressed by findings and identity key and so keeps the
classification of its first request only for that request's identity, which leaves out
some of the grant (`review_control.py` 741, 161). A launcher that dies in CLAIMED keeps the slot
until it is abandoned by hand. A cancellation checks a pid and signals it in two steps
(`review_adapter.py` 1072, 1089). A review fetched at a later instant than the caller's now is
refused as stale.

*Difference engine and Reflow.* Two bindings of one request that share a predecessor may
both supersede it, or one supersede what the other continues; the result then has two
chains of one Difference, caught only where their materialized statuses differ
(`difference/engine.py` 1889, 1981). The run and the proof include this:
`OneChainPerDifference` says that two chains of a Difference may stand only where another
target's binding superseded it. Supersessions of separate requests can form a cycle; a
satisfied target drops the predecessor it was given; a fresh derivation under a later
objective is refused without a predecessor's context. A lifecycle event's predecessor need
not be the latest one, and its base State's revision need not grow along the chain, so a
committed lifecycle is a tree of which the State's open list follows the last commit. A
reflow of a BLOCKED or RETAINED Difference can only block or retain it again (`closure.py`
257), and no route mints the table's transitions back to VERIFYING. A closure's Claim
series is judged by the events its caller supplies.

*Benchmark.* A registered key cannot be revoked: its identity leaves out status and
validity, and another body under it is refused. A reproduction's protocol need not be
its bundle's: `COMPARATIVE_BENCHMARK_CONTRACT.md` 558 speaks of the submission's own
`protocol_freeze_ref`, and a MATCH across two protocols that aggregate alike is
admitted (`comparative_benchmark/route.py` 299-411). A second commit of the same raw events
by another process is a conflict, not the "idempotent replay" of `identity.py` 66.
`submission_time`, by which a key's validity is judged, is what the submission says. It is
compared with the key's window as a string, and timestamps may have fractions: "...00.5Z" sorts
before "...00Z" (`comparative_benchmark/engine.py` 819, 825). A submission up to a second after the
key expired, or before it is valid, may be admitted and one within the window refused, and a
window that ends before it begins may be registered (633). `runtime/engine.py` 98-118
describes this very mistake.

*Acceptance policy.* Two calls that commit the identical record at once: the
compare-and-swap loser finds the record and raises a conflicting replay where a later
repetition would be answered.

## 7. What is left out, and why

- Record contents, schemas, signatures, canonicalization, digests: data, taken to
  determine what they are computed from. Tampering from outside is not modelled.
- Loss of unsynced data in the transactional lane: its files are written by
  `atomic_write` with fsync, and its lineage append is fsynced; only the ledger has
  steps that rely on unsynced bytes.
- The executor's Boundary evaluation (`boundary.py`): `Switch2`'s admissibility is a
  free choice. Of the hand-off, the field-by-field refusal of a receipt that is not the
  committed one.
- Work estimates and re-estimates, the schema and fingerprint checks of resolved
  notices, and `verify_joined_coordination` (a guard without state).
- Text normalization and canonical encodings of the Difference engine, and its generic
  graph walks; the HTTP client under URL Boot and the observations, which is what it
  answers; the environment manifests and statements of the benchmark.
- Proof artifacts and v1.0 acceptance: one validated append, and a report over files.
  The development guards, canonicalization, topology and other scripts keep no state.

`PROJECT.json` has the status of each component and the reason.

## 8. Plan

Done: the Store over `StateRegister`; the executor and its hand-off; the ledger over `ChainRegister`; the
work unit; projection, URL Boot, verification, observation; model runtime and multi-agent
plans; the runtime chains with composition, observation and fallback; authority,
Reflow, derivation, acceptance policy, reviews and the benchmark.

Proved: everything the runs check, liveness excepted, with both refinements.

Left, by what it would add:

1. The executor's Boundary (`change_executor/boundary.py`) in place of the free choice in
   `Switch2`.
2. Theorems of one project in which several routes run at once. A route beside *any* other
   writer is proved of projection, URL Boot, verification, agents and policy; the runtime and Reflow
   are proved beside each other's writers only as far as their own modules compose them.
3. Reflow and derivation in one module, with a result's chains committed by Reflow, which
   would relate the tree of lifecycles of section 6 to the chains callers carry in.
4. Proof artifacts; estimates of the work unit.
