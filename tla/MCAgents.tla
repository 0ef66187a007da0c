------------------------------ MODULE MCAgents ------------------------------
(* Instances for TLC.  The sessions of the model runtime, the opening of a *)
(* plan, the calls that execute one and the lineage of the acceptance      *)
(* policy share nothing but the Store, whose other writers Transition      *)
(* stands for: an instance has one of the four.                            *)
EXTENDS MultiAgentPlan, AcceptancePolicy, ReviewControl, TLC

CONSTANTS
    MaxContentChanges,  \* bound: contents other writers replace
    FewRevisions,       \* bound: revisions the sessions and the opener see
    PolicyRevisions,    \* bound: revisions of the acceptance policy
    FirstReview,        \* the review GitHub has natively
    PermittedChecks     \* the checks of the grants to reuse it

VARIABLE driver

mcVars == <<storeVars, session, planVars, policyVars, reviewVars, driver>>

(* A work unit's clause on its merge, a second baseline of the same unit,  *)
(* and changes that lift a gate, add one, or add the other clause anew.    *)
Clause(id, blocks, original) ==
    [id |-> id, class |-> "REQUIRED_EVIDENCE", blocks |-> blocks,
     scope |-> "all", original |-> original]

MCBaselines ==
    {[issue |-> 1, clauses |-> {Clause("x", {"merge"}, TRUE)}],
     [issue |-> 1, clauses |-> {Clause("y", {"merge"}, TRUE)}]}

MCClauses == {Clause("x", {}, FALSE), Clause("x", {"merge", "review"}, FALSE)}

Signature(id) ==
    [id |-> id, owner |-> TRUE, ratified |-> TRUE, receipt |-> id,
     binding |-> "genesis", key |-> "human", covers |-> TRUE]

MCSignatures ==
    {Signature("s1"),
     [Signature("s2") EXCEPT !.binding = "second"],
     [Signature("s3") EXCEPT !.covers = FALSE],
     [Signature("s4") EXCEPT !.receipt = "s1"]}

(* Grants of one review, all but one of which fall short in one way.       *)
NativeGrant(checks) ==
    [review |-> FirstReview, checks |-> checks,
     signed |-> [review |-> FirstReview, checks |-> checks],
     wellFormed |-> TRUE, restated |-> TRUE, scope |-> "current",
     inForce |-> TRUE]

MCReviewGrants ==
    LET g == NativeGrant({"security"}) IN
    {NativeGrant(c) : c \in PermittedChecks} \cup
    {[g EXCEPT !.signed.checks = Checks], [g EXCEPT !.wellFormed = FALSE],
     [g EXCEPT !.restated = FALSE], [g EXCEPT !.scope = "moved"],
     [g EXCEPT !.inForce = FALSE]}

Finding(check, status, blocking) ==
    [check |-> check, status |-> status, procedure |-> TRUE,
     blocking |-> blocking]

Passes(check) == Finding(check, "PASS", FALSE)

MCFindings ==
    {<<>>, <<Passes("security")>>, <<Passes("security"), Passes("tests")>>,
     <<Passes("tests"), Finding("none", "FAIL", FALSE), Passes("security")>>,
     <<Passes("security"), Finding("tests", NoReview, TRUE)>>,
     <<[Passes("security") EXCEPT !.procedure = FALSE], Passes("tests")>>}

Native(state, findings) ==
    [state |-> state, findings |-> findings, valid |-> TRUE,
     provenance |-> TRUE, fresh |-> TRUE, relevant |-> TRUE]

MCReviews ==
    LET good == Native("APPROVED", <<Passes("security"), Passes("tests")>>) IN
    {Native("APPROVED", f) : f \in MCFindings}
    \cup {Native(s, <<>>) : s \in {"PENDING", "CHANGES_REQUESTED", "COMMENTED"}}
    \cup {[good EXCEPT !.valid = FALSE], [good EXCEPT !.provenance = FALSE],
          [good EXCEPT !.fresh = FALSE], [good EXCEPT !.relevant = FALSE],
          [good EXCEPT !.state = "CHANGES_REQUESTED"]}

MCResults ==
    LET good == [ended |-> "whole", state |-> "COMPLETED", inScope |-> TRUE,
                 sameInput |-> TRUE,
                 findings |-> <<Passes("security"), Passes("tests")>>] IN
    {[good EXCEPT !.findings = f] : f \in MCFindings}
    \cup {[good EXCEPT !.ended = e] : e \in {"timed out", "failed", "truncated"}}
    \cup {[good EXCEPT !.state = s] : s \in {"UNAVAILABLE", "FAILED"}}
    \cup {[good EXCEPT !.inScope = FALSE], [good EXCEPT !.sameInput = FALSE]}

(* A plan opened on the first State and committed. *)
Opened ==
    LET first == [revision |-> 1, content |-> CHOOSE c \in Contents : TRUE] IN
    /\ history = <<first.content, first.content, first.content>>
    /\ records = {WorkUnit(first),
                  Record(PlanKey, PlanOf(first, first))}
    /\ opener = [pc |-> "done", held |-> first, unit |-> first]
    /\ call = [c \in Calls |-> NoCall]
    /\ thread = [c \in Calls |-> [s \in SlotSet |-> NoThread]]

MCInit ==
    /\ RuntimeInit /\ PolicyInit /\ ReviewInit
    /\ \/ driver \in {"sessions", "opener"} /\ StoreInit /\ PlanInit
       \/ /\ driver \in {"policy", "launches", "native"}
          /\ StoreInit /\ PlanInit
          /\ history[1] = CHOOSE c \in Contents : TRUE
       \/ driver = "calls" /\ Opened
    /\ driver # "native" => review.shown = CHOOSE r \in Reviews : TRUE

Changes == Cardinality({i \in 2..Revision : history[i] # history[i - 1]})

OthersNext ==
    /\ Changes < MaxContentChanges
    /\ \E c \in Contents \ {history[Revision]} : Transition(c)
    /\ UNCHANGED <<session, planVars, policyVars, reviewVars>>

AgentsNext ==
    \/ /\ driver = "sessions" /\ Revision < FewRevisions
       /\ (RuntimeNext /\ UNCHANGED <<planVars, policyVars, reviewVars>>)
          \/ OthersNext
    \/ /\ driver = "opener" /\ Revision < FewRevisions
       /\ (OpenerNext /\ UNCHANGED <<session, policyVars, reviewVars>>)
          \/ OthersNext
    \/ driver = "calls" /\ CallsNext /\ UNCHANGED <<session, policyVars, reviewVars>>
    \/ /\ driver = "policy" /\ Revision < PolicyRevisions
       /\ PolicyNext /\ UNCHANGED <<session, planVars, reviewVars>>

MCNext ==
    /\ \/ AgentsNext
       \/ /\ (driver = "launches" /\ LaunchesNext) \/ (driver = "native" /\ NativeNext)
          /\ UNCHANGED <<storeVars, session, planVars, policyVars>>
    /\ UNCHANGED driver

MCSpec == MCInit /\ [][MCNext]_mcVars

Symmetry == Permutations(Participants)
=============================================================================
