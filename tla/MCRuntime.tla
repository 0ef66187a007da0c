------------------------------ MODULE MCRuntime ------------------------------
(* Instances for TLC of the runtime: the composed service under rotations  *)
(* of its root admission, observations of a deployment under rotations of  *)
(* its declaration, and the fallback controller; an instance has one.      *)
EXTENDS RootComposition, FallbackController, TLC

CONSTANTS
    MaxUnrelated    \* bound: commits of others that change no chain

VARIABLES driver, unrelated

mcVars == <<storeVars, chainVars, rootVars, observationVars, controllerVars,
            driver, unrelated>>

Admission(id, generation, predecessor, status) ==
    [id |-> id, chain |-> "admission", generation |-> generation,
     predecessor |-> predecessor, status |-> status, consistent |-> TRUE,
     signed |-> "anchor", from |-> 0, until |-> 0, fingerprint |-> "none"]

Declaration(id, generation, predecessor, status, until) ==
    [id |-> id, chain |-> "deployment", generation |-> generation,
     predecessor |-> predecessor, status |-> status, consistent |-> TRUE,
     signed |-> "human", from |-> 0, until |-> until, fingerprint |-> "v1"]

(* A chain with a rotation, a revocation beside it, and what may follow    *)
(* each; records that skip a generation, name none, or are signed by       *)
(* another key.                                                            *)
MCIssued ==
    {Admission("a0", 0, NoId, "ACTIVE"),
     Admission("a1", 1, "a0", "ACTIVE"),
     Admission("ax", 1, "a0", "REVOKED"),
     Admission("ay", 2, "ax", "ACTIVE"),
     [Admission("af", 1, "a0", "ACTIVE") EXCEPT !.signed = "other"],
     Declaration("d0", 0, NoId, "ACTIVE", 2),
     Declaration("d1", 1, "d0", "ACTIVE", 3),
     Declaration("dx", 1, "d0", "REVOKED", 3),
     Declaration("dy", 2, "dx", "ACTIVE", 3),
     [Declaration("df", 1, "d0", "ACTIVE", 3) EXCEPT !.consistent = FALSE],
     Declaration("dg", 2, "d0", "ACTIVE", 3)}

NoHeads == [chain \in Chains |-> NoId]
MCContents == {NoHeads}

Grant(from, until, permitted, redaction) ==
    [from |-> from, until |-> until, permitted |-> permitted,
     redaction |-> redaction, timeout |-> 1, signed |-> TRUE,
     transports |-> {"MANUAL_SSH", "PREAUTHORIZED_UNATTENDED_SSH"},
     script |-> "s", config |-> "c"]

MCRunGrants == {Grant(0, 2, {"f", "g"}, {"g"})}

Boundary(from, until, permitted, redaction) ==
    [from |-> from, until |-> until, permitted |-> permitted,
     redaction |-> redaction, timeout |-> 1, scoped |-> TRUE, expects |-> TRUE]

MCBoundaries ==
    {Boundary(0, 2, {"f", "g"}, {"g"}),
     Boundary(0, 2, {"f", "g"}, {"f"}),     \* redacts another field
     Boundary(0, 3, {"f"}, {"g"}),          \* outlives the grant
     Boundary(0, 1, {"f", "g"}, {"g"})}

Report(code, ok, identity) ==
    [code |-> code, ok |-> ok, reason |-> "NOT_FOUND", identity |-> identity,
     size |-> 1, parsed |-> TRUE, script |-> "s", config |-> "c",
     counted |-> TRUE, expected |-> TRUE]

MCReports ==
    {Report("zero", TRUE, "v1"), Report("timeout", FALSE, "v1"),
     Report("zero", TRUE, "v2")}

Ask(grants, declarations) == [grants |-> grants, declarations |-> declarations]
AskGrant(id, kind) ==
    [id |-> id, kind |-> kind, identified |-> TRUE, subject |-> "s",
     fingerprint |-> "s"]
AskDeclaration(grant) ==
    [grant |-> grant, identified |-> TRUE, authorized |-> TRUE]

MCGrantRequests ==
    {Ask({AskGrant("g1", "DIFFERENCE_ISSUE")}, {AskDeclaration("g1")}),
     Ask({AskGrant("g1", "DIFFERENCE_ISSUE"), AskGrant("g2", "DIFFERENCE_ISSUE")},
         {AskDeclaration("g1"), AskDeclaration("g2")})}

(* The observations and the controller start with a declaration in force.  *)
MCInit ==
    /\ driver \in {"root", "observe", "fallback"}
    /\ unrelated = 0
    /\ ChainInit /\ RootInit /\ ObservationInit /\ ControllerInit
    /\ IF driver = "root" THEN StoreInit
       ELSE \E d \in Issued :
               /\ d.id = "d0"
               /\ records = {Stored(d)}
               /\ history = <<[NoHeads EXCEPT !["deployment"] = "d0"]>>

Others ==
    /\ unrelated < MaxUnrelated /\ CommitRecords({})
    /\ unrelated' = unrelated + 1
    /\ UNCHANGED <<chainVars, rootVars, observationVars, controllerVars>>

Chained ==
    /\ ChainNext
    /\ UNCHANGED <<rootVars, observationVars, controllerVars, unrelated>>

(* To an observation a transition of the declaration is its commit alone.  *)
Declared ==
    /\ \E r \in Issued :
          r.chain = "deployment" /\ SelfConsistent(r) /\ Decidable(r) /\ Admit(r)
    /\ UNCHANGED <<chainVars, rootVars, observationVars, controllerVars, unrelated>>

MCNext ==
    /\ \/ driver = "root" /\ Chained
       \/ driver # "root" /\ Declared
       \/ driver # "fallback" /\ Others
       \/ /\ driver = "root" /\ RootNext
          /\ UNCHANGED <<chainVars, observationVars, controllerVars, unrelated>>
       \/ /\ driver = "observe" /\ ObservationNext
          /\ UNCHANGED <<chainVars, rootVars, controllerVars, unrelated>>
       \/ /\ driver = "fallback" /\ ControllerNext
          /\ UNCHANGED <<chainVars, rootVars, unrelated>>
    /\ UNCHANGED driver

MCSpec == MCInit /\ [][MCNext]_mcVars

Symmetry == Permutations(Committers) \cup Permutations(Operations)
=============================================================================
