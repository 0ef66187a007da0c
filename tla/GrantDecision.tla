---------------------------- MODULE GrantDecision ----------------------------
(***************************************************************************)
(* authority: how a human grant, and the signed declaration that anchors   *)
(* it, is matched with what a route is about to do.  The three evaluations *)
(* (a verifier's selection, a projection to GitHub, a model's execution)   *)
(* have one shape: what they compare field by field is one content here,   *)
(* and a model execution grant is signed itself, as if it were its own     *)
(* declaration.  Pure operators: the routes resolve the records.           *)
(*                                                                         *)
(* A grant is [id, content, by, status], a declaration [grant, content,    *)
(* by, status, signed].  Records that are malformed, or whose id is not    *)
(* the one of their content, or that come twice, are refused before.       *)
(***************************************************************************)

CONSTANTS
    Human,
    NotExcluded     \* what keeps a grant from use: nothing

ASSUME NotExcludedAssumption ==
    NotExcluded \notin {"GRANT_NOT_ACTIVE", "DECLARATION_MISSING",
                        "DECLARATION_AUTHORITY_MISMATCH", "DECLARATION_NOT_ACTIVE",
                        "DECLARATION_CONTENT_MISMATCH", "DECLARATION_SIGNATURE_INVALID"}

(* _core_mismatches. *)
Matches(grant, content) == grant.content = content /\ grant.by = Human

(* _anchors_grant. *)
Anchors(declaration, grant) == declaration.grant = grant.id

\* Seeded fault: a declaration of the grant's id need not say the same.
RestatesNothing(declaration, grant) == TRUE
(* _declaration_restates_grant. *)
Restates(declaration, grant) == declaration.content = grant.content

(* _verify_declaration_signature, with the Project Binding's key. *)
SignedByHuman(declaration) == declaration.signed

(* The checks in the order in which they exclude a grant, each with the    *)
(* declarations it leaves.                                                 *)
Anchored(grant, declarations) == {d \in declarations : Anchors(d, grant)}
OfHuman(grant, declarations) ==
    {d \in Anchored(grant, declarations) : d.by = Human}
InForce(grant, declarations) ==
    {d \in OfHuman(grant, declarations) : d.status = "ACTIVE"}
Restating(grant, declarations) ==
    {d \in InForce(grant, declarations) : Restates(d, grant)}
Anchoring(grant, declarations) ==
    {d \in Restating(grant, declarations) : SignedByHuman(d)}

(* excluding.append. *)
Excluded(grant, declarations) ==
    CASE grant.status # "ACTIVE" -> "GRANT_NOT_ACTIVE"
      [] Anchored(grant, declarations) = {} -> "DECLARATION_MISSING"
      [] OfHuman(grant, declarations) = {} -> "DECLARATION_AUTHORITY_MISMATCH"
      [] InForce(grant, declarations) = {} -> "DECLARATION_NOT_ACTIVE"
      [] Restating(grant, declarations) = {} -> "DECLARATION_CONTENT_MISMATCH"
      [] Anchoring(grant, declarations) = {} -> "DECLARATION_SIGNATURE_INVALID"
      [] OTHER -> NotExcluded

(* binding. *)
Binding(grants, declarations, content) ==
    {g \in grants : Matches(g, content) /\ Excluded(g, declarations) = NotExcluded}

(* _evaluate, for any of the three. *)
Authorizes(grants, declarations, content) ==
    Binding(grants, declarations, content) # {}
=============================================================================
