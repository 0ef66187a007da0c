------------------------------ MODULE MCDecisions ------------------------------
(***************************************************************************)
(* Instances for TLC of the modules that decide and classify.  They share  *)
(* no state: `driver` is the one a behaviour runs.                         *)
(***************************************************************************)
EXTENDS AuthorityEvaluation, ReflowRoute, DifferenceDerivation, TLC

VARIABLE driver

-----------------------------------------------------------------------------
(* AuthorityEvaluation *)

MCRules ==
    [kinds : {Kinds, Kinds \ HumanOnly}, ceiling : {"RECOVERABLE", "IRREVERSIBLE"},
     scope : {s \in Scopes : s.members # {}}, decision : {"AUTONOMOUS", "HUMAN_APPROVAL_REQUIRED"}]

MCProhibitions ==
    [class : {"CONSTITUTIONAL", "PROJECT"}, project : {"own", "other"},
     kinds : {HumanOnly}, scope : {s \in Scopes : s.members # {}}]

-----------------------------------------------------------------------------
(* ReflowRoute *)

MCBaseline ==
    [at |-> 1, time |-> 0, status |-> "COMPLETE", sourced |-> TRUE,
     satisfied |-> FALSE]

Saw(at, time, sourced) ==
    [at |-> at, time |-> time, status |-> "COMPLETE", sourced |-> sourced,
     satisfied |-> TRUE]
MCObservable == {Saw(1, 0, TRUE), Saw(1, 1, FALSE), Saw(2, 0, TRUE)}

MCEvidence(seen) == {e \in [observation : seen, recorded : Instants] : Derivable(e)}
MCChanges(seen) ==
    {c \in [observation : seen, recorded : Instants, expected : {Baseline.at}] :
        ChangeDerivable(c)}

ClaimEvent(number, status) ==
    [number |-> number, previous |-> number - 1, status |-> status]
Series ==
    {{ClaimEvent(1, "SATISFIED")},
     {ClaimEvent(0, "SATISFIED"), ClaimEvent(1, "UNKNOWN")}}

(* A request to close by re-observation alone, on Evidence of it. *)
Free(base, status, e) ==
    [base |-> base, status |-> status, flaws |-> {}, kernel |-> Kernel,
     witness |-> Kernel, candidate |-> TRUE, after |-> {e.observation},
     evidence |-> {e}, judgedAt |-> e.recorded, verifying |-> {e}, changes |-> {},
     mode |-> "CHANGE_FREE", contradicted |-> FALSE, bound |-> Mandatory,
     claims |-> {ClaimEvent(0, "UNKNOWN"), ClaimEvent(1, "SATISFIED")},
     reason |-> {}, proposed |-> "CLOSED", evaluatedAt |-> 0,
     blocker |-> "OTHER_STRUCTURAL", named |-> {e.observation}, genesis |-> TRUE]

(* One thing wrong with it. *)
Wrong(r) ==
    {[r EXCEPT !.flaws = {f}] : f \in Flaws}
    \cup {[r EXCEPT !.claims = s] : s \in Series}
    \cup {[r EXCEPT !.bound = Mandatory \ {"P-004"}, !.contradicted = x] : x \in BOOLEAN}
    \cup {[r EXCEPT !.contradicted = TRUE], [r EXCEPT !.witness = "other"],
          [r EXCEPT !.named = {}], [r EXCEPT !.genesis = FALSE]}

(* Other Evidence than that of its verification. *)
Judged(r, seen) ==
    {[r EXCEPT !.evidence = ev, !.judgedAt = j] :
       ev \in {{}} \cup {{x, y} : x, y \in MCEvidence(seen)}, j \in Instants}

(* The same by a Change. *)
ByChange(r, seen) ==
    {[r EXCEPT !.mode = "CHANGE_BOUND", !.verifying = {}, !.changes = {c},
               !.judgedAt = 1, !.evaluatedAt = 1] : c \in MCChanges(seen)}

(* Giving the Difference up instead. *)
Left(r, seen) ==
    LET given == [r EXCEPT !.reason = r.evidence]
        bare == [given EXCEPT !.candidate = FALSE, !.after = {}, !.evidence = {},
                              !.verifying = {}, !.bound = {}, !.claims = {}]
    IN {[given EXCEPT !.proposed = "BLOCKED", !.contradicted = TRUE, !.blocker = k] :
          k \in {"MATERIAL_CONFLICT", "CLAIM_FAILURE"}}
       \cup {[bare EXCEPT !.proposed = "RETAINED", !.named = seen]}

MCClosureRequests(base, status, seen) ==
    UNION {LET r == Free(base, status, e)
           IN {r} \cup Wrong(r) \cup Judged(r, seen) \cup ByChange(r, seen) :
              e \in MCEvidence(seen)}
    \cup (IF seen = {} THEN {}
          ELSE Left(Free(base, status, CHOOSE e \in MCEvidence(seen) : TRUE), seen))

-----------------------------------------------------------------------------
(* DifferenceDerivation *)

Said(number, status, own) == [number |-> number, status |-> status, own |-> own, sound |-> TRUE]
Shown(value, evaluations) ==
    [status |-> "COMPLETE", facts |-> {[value |-> value, evaluations |-> evaluations]},
     negatives |-> {}, evidence |-> TRUE, flaws |-> {}]
Nothing(statuses, evidence) ==
    [status |-> "EMPTY", facts |-> {}, evidence |-> TRUE, flaws |-> {},
     negatives |-> {[status |-> s, evidence |-> evidence] : s \in statuses}]

Supported == {Said(0, "SUPPORTED", TRUE)}

MCLooks ==
    {Shown("expected", {Said(0, "SUPPORTED", TRUE)}),
     Shown("other", {Said(0, "SUPPORTED", TRUE), Said(1, "CONFLICTED", FALSE)}),
     Shown("expected", {Said(0, "SUPPORTED", TRUE), Said(1, "CONFLICTED", TRUE)}),
     Nothing({"NO_RESULT"}, TRUE), Nothing({"EMPTY"}, TRUE)}
MCOperator == [t \in Targets |-> IF t = 1 THEN "equals" ELSE "none"]
MCBoundaries == {[name |-> "s", complete |-> c] : c \in BOOLEAN}
Whole == [name |-> "s", complete |-> TRUE]

MCPolicies ==
    {[name |-> n, failClosed |-> f, independent |-> FALSE] : n \in {"p", "q"}, f \in BOOLEAN}
Policy == [name |-> "p", failClosed |-> TRUE, independent |-> FALSE]

Of(look, state, prior) ==
    [scope |-> Whole, bundle |-> {[at |-> state, look |-> look]}, policy |-> Policy,
     prior |-> prior, carried |-> TRUE]
DeriveAt(state, objective, bindings) ==
    [state |-> state, objective |-> objective, method |-> TRUE, bindings |-> bindings]

(* One target: everything it can show.  Two: what two of them can. *)
MCDerivations ==
    UNION {{DeriveAt(0, o, [x \in {t} |-> Of(k, 0, p)]) :
              o \in 0 .. LastObjective, k \in Looks, p \in Priors} : t \in Targets}
MCPairs ==
    {DeriveAt(LastState, 0, <<Of(k, LastState, p), Of(Shown("expected", Supported), LastState, q)>>) :
       k \in {Shown("other", Supported), Shown("expected", Supported)},
       p \in Priors, q \in Priors}

(* One thing wrong, or another policy. *)
MCPoor ==
    UNION {LET r == DeriveAt(0, 0, <<Of(k, 0, {})>>)
           IN {[r EXCEPT !.method = FALSE],
               [r EXCEPT !.bindings[1].scope.complete = FALSE],
               [r EXCEPT !.state = 1],
               [r EXCEPT !.bindings[1].bundle = @ \cup {[at |-> 0, look |-> Nothing({"EMPTY"}, TRUE)]}]}
              \cup {[r EXCEPT !.bindings[1].policy = x] : x \in Policies}
              \cup {[r EXCEPT !.bindings[1].bundle = {[at |-> 0, look |-> [k EXCEPT !.flaws = {f}]]}] :
                       f \in LookFlaws} :
              k \in {Shown("expected", Supported), Nothing({"NO_RESULT"}, TRUE)}}
    \cup {DeriveAt(0, 0, <<[Of(Shown("other", Supported), 0, p) EXCEPT !.carried = FALSE]>>) :
            p \in Priors \ {{}}}

MCPaths == {<<"ACTIVE">>, <<"BLOCKED">>, <<"INVALIDATED">>, <<"ACTIVE", "VERIFYING", "CLOSED">>, <<"REOPENED">>}

-----------------------------------------------------------------------------
(* Members and requesters are the same two model values: no behaviour uses *)
(* both.                                                                   *)
ASSUME Members = Requesters

MCSymmetry == Permutations(Members) \cup Permutations(Differences)

MCInit ==
    /\ driver \in {"authority", "reflow", "derivation"}
    /\ AuthorityInit /\ ReflowInit /\ DerivationInit

MCNext ==
    /\ UNCHANGED driver
    /\ \/ /\ driver = "authority" /\ AuthorityNext
          /\ UNCHANGED <<reflowVars, derivationVars>>
       \/ /\ driver = "reflow" /\ ReflowNext({1})
          /\ UNCHANGED <<authorityVars, derivationVars>>
       \/ /\ driver = "derivation"
          /\ DerivationNext(MCDerivations \cup MCPairs \cup MCPoor, MCPaths)
          /\ UNCHANGED <<authorityVars, reflowVars>>

MCSpec ==
    MCInit /\ [][MCNext]_<<driver, authorityVars, reflowVars, derivationVars>>
=============================================================================
