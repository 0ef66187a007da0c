------------------------ MODULE WorkTimeCoordination ------------------------
(***************************************************************************)
(* work_time_transparency: the notices of one work unit, an open, its      *)
(* progress updates and one terminal, and the processes that run it        *)
(* through with_work_time_coordination.                                    *)
(*                                                                         *)
(* chain is the work unit's chain in the coordination ledger; committing   *)
(* at the tip is ChainRegister's one atomic step.  All else a call does    *)
(* before it, resolving the open, the terminal, the predecessor or the     *)
(* tip, is a separate read under a lock of its own.  Several processes     *)
(* may share a work unit when their opens agree to the last byte.  Each    *)
(* clock reading is any second: wall clocks step back, and those of two    *)
(* processes differ.  Instants are compared exactly, durations rounded to  *)
(* minutes.  Texts, estimates, bindings and integrity checks of resolved   *)
(* bodies are left out.                                                    *)
(***************************************************************************)
EXTENDS Naturals, Sequences

CONSTANTS
    Callers,    \* processes running the work unit
    Seconds,    \* clock readings
    Minutes,    \* deadlines, counted from the open
    Ahead,      \* how far ahead an update's deadline may lie: ten minutes
    MaxReports, \* bound: reports per call
    None

ASSUME TimeAssumption == Seconds \subseteq Nat /\ Minutes \subseteq Nat
ASSUME BoundsAssumption == Ahead \in Nat /\ MaxReports \in Nat
ASSUME AbsentAssumption ==
    None \notin Nat \cup {"COMPLETED", "FAILED_TERMINAL", "refused"}

VARIABLES
    chain,      \* the work unit's notices in the order of the ledger
    call        \* each caller's local variables

vars == <<chain, call>>

-----------------------------------------------------------------------------
(* Notices.  A record's identity is its kind and, for an update, its       *)
(* sequence number, within one work unit.                                  *)

Key == [kind : {"open", "terminal"}, seq : {0}]
       \cup [kind : {"update"}, seq : Nat \ {0}]

KeyOf(n) == [kind |-> n.kind, seq |-> n.seq]

OpenKey == [kind |-> "open", seq |-> 0]
UpdateKey(n) == IF n = 0 THEN OpenKey ELSE [kind |-> "update", seq |-> n]
TerminalKey == [kind |-> "terminal", seq |-> 0]

(* predecessor_ref, recorded_at, the next deadline, whether the            *)
(* predecessor's was missed, the outcome.                                  *)
Notice(key, after, time, due, late, outcome) ==
    [kind |-> key.kind, seq |-> key.seq, after |-> after, time |-> time,
     due |-> due, late |-> late, outcome |-> outcome]

Published(key) == {i \in DOMAIN chain : KeyOf(chain[i]) = key}

(* The nearest minute; a half goes to the even one, as Python's round does.*)
NearestMinute(seconds) ==
    LET half == IF (seconds \div 60) % 2 = 0 THEN 29 ELSE 30
    IN  (seconds + half) \div 60

(* elapsed_minutes: rounded, and never negative. *)
Elapsed(time) ==
    IF time < chain[1].time THEN 0 ELSE NearestMinute(time - chain[1].time)

\* Seeded fault: lateness is measured against the open's deadline alone.
LateForOpen(n, time) == Elapsed(time) > chain[1].due
(* heartbeat_deadline_breached: after its predecessor's deadline. *)
Late(n, time) == Elapsed(time) > n.due

\* Seeded fault: a notice need only not precede the open.
NotBeforeOpen(n, time) == time >= chain[1].time
(* verify_monotonic_continuation. *)
NotBefore(n, time) == time >= n.time

-----------------------------------------------------------------------------
(* commit_coordination_record_at_tip.                                      *)

\* Seeded fault: the tip is the last update, as resolve_tip walks to it.
AtLastUpdate(n) ==
    \A i \in DOMAIN chain : n.after # None /\ chain[i].seq <= n.after.seq
AtTip(n) ==
    n.after = IF chain = <<>> THEN None ELSE KeyOf(chain[Len(chain)])

\* Seeded fault: any record of the same identity counts as a replay.
SameIdentity(n) == Published(KeyOf(n)) # {}
SameBody(n) == \E i \in Published(KeyOf(n)) : chain[i] = n

Publish(n) ==
    /\ Published(KeyOf(n)) = {} /\ AtTip(n)
    /\ chain' = Append(chain, n)

(* Published now, or before with the same body. *)
Commit(n) == Publish(n) \/ (SameBody(n) /\ UNCHANGED chain)

(* RecordConflictError or CoordinationTipConflictError. *)
Conflict(n) ==
    /\ ~SameBody(n)
    /\ Published(KeyOf(n)) # {} \/ ~AtTip(n)
    /\ UNCHANGED chain

-----------------------------------------------------------------------------
(* with_work_time_coordination: the open.                                  *)

NoCall ==
    [pc |-> "idle", opened |-> None, tip |-> None, seq |-> 0,
     notice |-> None, walked |-> 0, told |-> None]

At(p, step) == call[p].pc = step

Become(p, c) == call' = [call EXCEPT ![p] = c]

End(p, told) == Become(p, [NoCall EXCEPT !.told = told])

(* open_work_time_coordination is given opened_at and the caller's first   *)
(* deadline: any, as the ten minutes bind only work estimated to be longer.*)
Begin(p, time, due) ==
    /\ At(p, "idle")
    /\ Become(p, [NoCall EXCEPT
                    !.pc = "Open", !.opened = time,
                    !.notice = Notice(OpenKey, None, time, due, FALSE, None)])
    /\ UNCHANGED chain

Open(p) ==
    /\ At(p, "Open")
    /\ \/ /\ Commit(call[p].notice)
          /\ Become(p, [call[p] EXCEPT !.pc = "Perform", !.tip = OpenKey,
                                       !.notice = None])
       \/ Conflict(call[p].notice) /\ End(p, "refused")

-----------------------------------------------------------------------------
(* ProgressReporter.report, any number of times while perform runs.        *)

(* The sequence number advances before anything can fail. *)
NextSequence(p) == call[p].seq + 1

(* The clock is read; lateness is known once the predecessor is.           *)
Report(p, time, due) ==
    /\ At(p, "Perform")
    /\ NextSequence(p) <= MaxReports
    /\ Become(p, [call[p] EXCEPT
                    !.pc = "ResolveTerminal", !.seq = NextSequence(p),
                    !.notice = Notice(UpdateKey(NextSequence(p)), call[p].tip,
                                      time, due, FALSE, None)])
    /\ UNCHANGED chain

(* The report raises, and perform goes on as it likes: the sequence number *)
(* is spent, the tip is not moved.                                         *)
ReportRaises(p) ==
    Become(p, [call[p] EXCEPT !.pc = "Perform", !.notice = None])

(* Update-after-terminal is refused. *)
ResolveTerminal(p) ==
    /\ At(p, "ResolveTerminal")
    /\ IF Published(TerminalKey) # {}
       THEN ReportRaises(p)
       ELSE Become(p, [call[p] EXCEPT !.pc = "ResolvePredecessor"])
    /\ UNCHANGED chain

\* Seeded fault: the record before the sequence number is not looked up.
FollowsAny(n, i) == KeyOf(chain[i]) = n.after
(* resolve_predecessor_at_sequence and verify_predecessor_matches: chain[i]*)
(* has the sequence number before n's and is what n names.                 *)
Follows(n, i) ==
    KeyOf(chain[i]) = UpdateKey(n.seq - 1) /\ KeyOf(chain[i]) = n.after

(* Whether the update may be built behind chain[i]. *)
Admissible(n, i) ==
    /\ Follows(n, i)
    /\ NotBefore(chain[i], n.time)
    /\ n.due <= Elapsed(n.time) + Ahead

ResolvePredecessor(p) ==
    /\ At(p, "ResolvePredecessor")
    /\ LET n == call[p].notice IN
       \/ \E i \in DOMAIN chain :
             /\ Admissible(n, i)
             /\ Become(p, [call[p] EXCEPT
                    !.pc = "CommitUpdate",
                    !.notice = [n EXCEPT !.late = Late(chain[i], n.time)]])
       \/ (\A i \in DOMAIN chain : ~Admissible(n, i)) /\ ReportRaises(p)
    /\ UNCHANGED chain

CommitUpdate(p) ==
    /\ At(p, "CommitUpdate")
    /\ \/ /\ Commit(call[p].notice)
          /\ Become(p, [call[p] EXCEPT !.pc = "Perform", !.notice = None,
                                       !.tip = KeyOf(call[p].notice)])
       \/ Conflict(call[p].notice) /\ ReportRaises(p)

-----------------------------------------------------------------------------
(* The terminal.                                                           *)

OutcomeOf(outcome) == outcome

(* perform returns (COMPLETED) or raises (FAILED_TERMINAL).  A clock that  *)
(* stands before opened_at is WorkTimeTransparencyClockError.              *)
Finish(p, time, outcome) ==
    /\ At(p, "Perform")
    /\ IF time < call[p].opened
       THEN End(p, None)
       ELSE Become(p, [call[p] EXCEPT
                    !.pc = "ResolveTip", !.walked = 0,
                    !.notice = Notice(TerminalKey, call[p].tip, time, 0, FALSE,
                                      OutcomeOf(outcome))])
    /\ UNCHANGED chain

(* resolve_tip walks the updates one by one from the open; the last one    *)
(* must be what the reporter takes for the tip.                            *)
ResolveTip(p) ==
    /\ At(p, "ResolveTip")
    /\ LET n == call[p].notice
           step == call[p].walked
       IN
       \/ /\ Published(UpdateKey(step + 1)) # {}
          /\ Become(p, [call[p] EXCEPT !.walked = step + 1])
       \/ /\ Published(UpdateKey(step + 1)) = {}
          /\ \E i \in Published(UpdateKey(step)) :
                IF n.after = KeyOf(chain[i]) /\ NotBefore(chain[i], n.time)
                THEN Become(p, [call[p] EXCEPT
                        !.pc = "CommitTerminal",
                        !.notice = [n EXCEPT !.late = Late(chain[i], n.time)]])
                ELSE End(p, None)
    /\ UNCHANGED chain

(* A terminal that cannot be recorded is a note on the error perform       *)
(* raised, or the error of a call whose perform returned.                  *)
CommitTerminal(p) ==
    /\ At(p, "CommitTerminal")
    /\ \/ Commit(call[p].notice) /\ End(p, call[p].notice.outcome)
       \/ Conflict(call[p].notice) /\ End(p, None)

-----------------------------------------------------------------------------
(* Failures.                                                               *)

Raise(p) ==
    IF call[p].pc \in {"ResolveTerminal", "ResolvePredecessor", "CommitUpdate"}
    THEN ReportRaises(p)
    ELSE End(p, None)

(* boot_project or a read of the Store raises; a commit may do so after    *)
(* its line is in the ledger, when the record is materialized.             *)
StoreRaises(p) ==
    /\ call[p].pc \notin {"idle", "Perform"}
    /\ Raise(p)
    /\ \/ UNCHANGED chain
       \/ /\ call[p].pc \in {"Open", "CommitUpdate", "CommitTerminal"}
          /\ Publish(call[p].notice)

(* The process dies, or perform never returns. *)
Crash(p) ==
    /\ ~At(p, "idle")
    /\ End(p, None)
    /\ UNCHANGED chain

-----------------------------------------------------------------------------
Init == chain = <<>> /\ call = [p \in Callers |-> NoCall]

Step(p) ==
    \/ \E time \in Seconds, due \in Minutes : Begin(p, time, due) \/ Report(p, time, due)
    \/ Open(p)
    \/ ResolveTerminal(p)
    \/ ResolvePredecessor(p)
    \/ CommitUpdate(p)
    \/ \E time \in Seconds, outcome \in {"COMPLETED", "FAILED_TERMINAL"} :
          Finish(p, time, outcome)
    \/ ResolveTip(p)
    \/ CommitTerminal(p)
    \/ StoreRaises(p)
    \/ Crash(p)

Next == \E p \in Callers : Step(p)

Spec == Init /\ [][Next]_vars

-----------------------------------------------------------------------------
(* Properties.                                                             *)

Outcome == {"COMPLETED", "FAILED_TERMINAL"}

NoticeType ==
    [kind : {"open"}, seq : {0}, after : {None}, time : Seconds,
     due : Minutes, late : {FALSE}, outcome : {None}]
    \cup [kind : {"update"}, seq : Nat \ {0}, after : Key, time : Seconds,
          due : Minutes, late : BOOLEAN, outcome : {None}]
    \cup [kind : {"terminal"}, seq : {0}, after : Key, time : Seconds,
          due : {0}, late : BOOLEAN, outcome : Outcome]

CallType ==
    [pc : {"idle", "Open", "Perform", "ResolveTerminal", "ResolvePredecessor",
           "CommitUpdate", "ResolveTip", "CommitTerminal"},
     opened : Seconds \cup {None}, tip : Key \cup {None}, seq : Nat,
     notice : NoticeType \cup {None}, walked : Nat,
     told : Outcome \cup {"refused", None}]

(* Every variable has its type. *)
TypeOK ==
    /\ chain \in Seq(NoticeType)
    /\ call \in [Callers -> CallType]

(* "update-after-terminal refused", whoever closes the coordination while  *)
(* a report is under way, and a work unit is closed once.                  *)
NothingAfterTerminal ==
    \A i \in DOMAIN chain : chain[i].kind = "terminal" => i = Len(chain)

(* The updates number the chain without a gap and every notice names the   *)
(* one before it: "skipped, reordered, forked" predecessors are refused,   *)
(* also when reports failed and others write the same chain.               *)
ChainContiguous ==
    \A i \in DOMAIN chain :
        /\ chain[i].kind = "open" <=> i = 1
        /\ chain[i].kind = "update" => chain[i].seq = i - 1
        /\ i > 1 => chain[i].after = KeyOf(chain[i - 1])

(* "non-monotonic continuation refused": the times along a chain never     *)
(* step back, however the processes' clocks differ.                        *)
TimesMonotone ==
    \A i, j \in DOMAIN chain : i <= j => chain[i].time <= chain[j].time

(* P84-R2-F3: no early heartbeat, no race and no rounding hides a later    *)
(* missed deadline.  A notice marked late came after the deadline of the   *)
(* notice it follows, and one that came more than half a minute after it   *)
(* is marked; one less late than that may not be, as the time elapsed is   *)
(* rounded to minutes.                                                     *)
LatenessRecorded ==
    \A i \in DOMAIN chain : i > 1 =>
        LET after == chain[i].time - chain[1].time
            deadline == 60 * chain[i - 1].due
        IN  /\ chain[i].late => after > deadline
            /\ after > deadline + 30 => chain[i].late

(* "exactly one observable outcome": what a caller is told of how the work *)
(* ended is what the chain's one terminal says.                            *)
ToldIsRecorded ==
    \A p \in Callers : call[p].told \in Outcome =>
        \E i \in Published(TerminalKey) : chain[i].outcome = call[p].told

(* Each update extends the one before it in number and in time, missed     *)
(* deadlines are marked, and callers are told what the chain says.         *)
NoticesSound == ChainContiguous /\ TimesMonotone /\ LatenessRecorded /\ ToldIsRecorded
=============================================================================
