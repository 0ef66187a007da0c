------------------------------ MODULE MCOutside ------------------------------
(* Instances for TLC of the routes that leave the process between their    *)
(* checks and their commits, of the observation engine, of the notices of  *)
(* a work unit and of the benchmark; an instance has one of them.          *)
EXTENDS WorkTimeCoordination, ProjectionRoute, UrlBoot, IndependentVerification,
        ObservationEngine, BenchmarkRoute, TLC

CONSTANTS
    MaxContentChanges,      \* bound: contents other writers replace
    FewRevisions            \* bound: revisions of the other drivers

VARIABLE driver

mcVars ==
    <<storeVars, projectionVars, urlVars, verificationVars, engineVars, vars,
      benchmark, driver>>

(* The interchangeable values of the other drivers are the projection's.   *)
ASSUME SafeAddresses = Tokens /\ Callers = Tokens

Symmetry ==
    Permutations(Tokens) \cup Permutations(Instants) \cup Permutations(Granted)
    \cup Permutations(Contents)

(* A grant of the selection and one of another; declarations that fall     *)
(* short of it in one way each, and one that does not.                     *)
Declared(grant, content, by, status, signed) ==
    [grant |-> grant, content |-> content, by |-> by, status |-> status,
     signed |-> signed]

MCGrants ==
    {[id |-> "g1", content |-> Selection, by |-> Human, status |-> "ACTIVE"],
     [id |-> "g2", content |-> Selection, by |-> Human, status |-> "REVOKED"]}

MCDeclarations ==
    {Declared("g1", Selection, Human, "ACTIVE", TRUE),
     Declared("g1", "other", Human, "ACTIVE", TRUE),
     Declared("g1", Selection, Human, "REVOKED", TRUE),
     Declared("g1", Selection, Human, "ACTIVE", FALSE),
     Declared("g2", Selection, Human, "ACTIVE", TRUE)}

(* One snapshot observed at State revisions, each finding some values and  *)
(* claiming some absence at one coordinate; and what falls short once.     *)
Scope == [id |-> "scope", target |-> "t", method |-> "m", sources |-> {"s"},
          subjects |-> {"x"}, status |-> "COMPLETE"]

Raw(spelling) == [subject |-> "x", boundary |-> "s", spelling |-> spelling]
Occurrence(outcome, spellings) ==
    [source |-> "s", locator |-> "l", outcome |-> outcome,
     facts |-> {Raw(spelling) : spelling \in spellings}]

Claim(status) ==
    [subject |-> "x", boundary |-> "s", status |-> status, reason |-> "none"]

Tried(result) == [method |-> "m", result |-> result, bounded |-> TRUE]

Asked(revision, spellings, statuses) ==
    [scope |-> Scope, target |-> "t", method |-> "m", revision |-> revision,
     window |-> "w", sources |-> {"s"}, timely |-> TRUE,
     occurrences |-> {Occurrence("COMPLETE", spellings)},
     attempts |-> {Tried("COMPLETE")}, blind |-> {}, complete |-> TRUE,
     claims |-> {Claim(status) : status \in statuses},
     evidence |-> {"e1"}, negativeEvidence |-> {"n1"}]

MCCanonical == [spelling \in {"on", "ON", "off"} |->
                    IF spelling = "off" THEN "off" ELSE "on"]

MCObservationRequests ==
    {Asked(revision, spellings, statuses) :
        revision \in {"r1", "r2", "r3"},
        spellings \in {{}, {"on"}}, statuses \in {{}, {"ABSENT"}}}
    \cup {Asked("r1", {"on", "off"}, {}), Asked("r2", {"off"}, {}),
          Asked("r3", {"ON"}, {}), Asked("r1", {"strange"}, {}),
          Asked("r2", {}, {"UNOBSERVED"}), Asked("r3", {}, {"EMPTY"}),
          [Asked("r1", {}, {"ABSENT"}) EXCEPT !.blind = {"BLOCKS_ABSENCE"}],
          [Asked("r2", {"on"}, {}) EXCEPT !.timely = FALSE],
          [Asked("r3", {"on"}, {}) EXCEPT !.evidence = {"e2"}],
          [Asked("r3", {"off"}, {}) EXCEPT
              !.occurrences = {Occurrence("PARTIAL", {"off"})}],
          [Asked("r3", {}, {"ABSENT"}) EXCEPT !.attempts = {Tried("FAILED")}],
          [Asked("r2", {}, {}) EXCEPT !.complete = FALSE]}

(* Two protocols that differ in a threshold only, and one whose groups do  *)
(* not differ; runs that differ in one outcome, perhaps one that does not *)
(* exist, and a run without a task.                                        *)
Group(id, role, mechanism) == [id |-> id, role |-> role, mechanism |-> mechanism]

Policy(value, other) ==
    [groups |-> {Group("with", "MANOSUBE_PRESENT", "route"),
                 Group("without", "MANOSUBE_ABSENT", other)},
     tasks |-> <<"t1", "t2">>,
     thresholds |-> {[group |-> "with", metric |-> "COMPLETED_VERIFIED",
                      value |-> value]},
     claims |-> {[id |-> "c1", metric |-> "FAILED", groups |-> {"with", "without"}]}]

MCPolicies == {Policy(1, "harness"), Policy(2, "harness"), Policy(1, "route")}

Did(group, task, outcome) == [group |-> group, task |-> task, outcome |-> outcome]

MCEventLists ==
    {<<Did("with", "t1", outcome), Did("with", "t2", "COMPLETED_VERIFIED"),
       Did("without", "t1", "COMPLETED_VERIFIED"), Did("without", "t2", "FAILED")>> :
        outcome \in {"COMPLETED_VERIFIED", "REFUSED", "LOST"}}
    \cup {<<Did("with", "t1", "COMPLETED_VERIFIED"),
            Did("with", "t2", "COMPLETED_VERIFIED"),
            Did("without", "t1", "COMPLETED_VERIFIED")>>}

Anchor(value, at, key, status, from, until) ==
    LET policy == Policy(value, "harness") IN
    [actor |-> "alice", key |-> key, status |-> status, from |-> from,
     until |-> until,
     freeze |-> [id |-> FreezeId(policy), body |-> [policy |-> policy, at |-> at]]]

MCAnchors ==
    {Anchor(1, 5, "k1", "ACTIVE", 20, Never), Anchor(1, 5, "k2", "ACTIVE", 5, 0),
     Anchor(1, 20, "k1", "REVOKED", 0, Never), Anchor(2, 5, "k1", "ACTIVE", 20, 20)}

MCInit ==
    /\ Init /\ StoreInit /\ ProjectionInit /\ UrlInit /\ VerificationInit /\ EngineInit
    /\ BenchmarkInit
    /\ driver \in {"work", "projection", "url", "verification", "engine", "benchmark"}
    /\ driver # "url" => dns = [h \in AdmittedHosts |-> NoUrl]

Changes == Cardinality({i \in 2..Revision : history[i] # history[i - 1]})

OthersNext ==
    /\ Changes < MaxContentChanges
    /\ \E c \in Contents \ {history[Revision]} : Transition(c)
    /\ UNCHANGED <<projectionVars, urlVars, verificationVars, engineVars>>

RoutesNext ==
    \/ /\ driver = "projection"
       /\ \/ ProjectionNext /\ UNCHANGED <<urlVars, verificationVars, engineVars>>
          \/ OthersNext
    \/ /\ driver = "url" /\ Revision < FewRevisions
       /\ \/ UrlNext /\ UNCHANGED <<projectionVars, verificationVars, engineVars>>
          \/ OthersNext
    \/ /\ driver = "verification"
       /\ VerificationNext /\ UNCHANGED <<projectionVars, urlVars, engineVars>>
    \/ /\ driver = "engine" /\ EngineNext
       /\ UNCHANGED <<storeVars, projectionVars, urlVars, verificationVars>>

MCNext ==
    /\ \/ RoutesNext /\ UNCHANGED <<vars, benchmark>>
       \/ /\ driver = "work" /\ Next
          /\ UNCHANGED <<storeVars, projectionVars, urlVars, verificationVars,
                         engineVars, benchmark>>
       \/ /\ driver = "benchmark" /\ BenchmarkNext
          /\ UNCHANGED <<storeVars, projectionVars, urlVars, verificationVars,
                         engineVars, vars>>
    /\ UNCHANGED driver

MCSpec == MCInit /\ [][MCNext]_mcVars
=============================================================================
