------------------------------ MODULE Policies ------------------------------
(***************************************************************************)
(* The token policies that come with the library (crate aauth-policy,      *)
(* policies.rs), and the inputs they are resumed with.                     *)
(*                                                                         *)
(* A decision is to grant, to federate, to deny, an error, or to defer     *)
(* with a requirement.  A policy is asked with an input when a pending     *)
(* request is resumed; without one it is asked to evaluate a new request.  *)
(***************************************************************************)

CONSTANT None

Requirement == {"interaction", "clarification", "claims", "approval"}
Decision == {"grant", "federate", "deny", "error"} \cup Requirement

\* What the body of a POST to a pending url can be read as.  Cancelled has
\* no form on the wire.
PendingPostBody == {"clarification", "claims", "updated", "interaction"}
PendingInput == PendingPostBody \cup {"cancelled"}

\* parse_pending_post_body: no body is an interaction completed.
ParsePendingPostBody(body) == IF body = None THEN "interaction" ELSE body

PersonTokenPolicy == {"always", "clarification", "interaction"}
AccessTokenPolicy == {"always", "clarification", "interaction", "claims", "approval"}

-----------------------------------------------------------------------------
(* Of a Person Server; own: the resource token names it as the audience.   *)

\* A mistake the properties are expected to notice: the audience is not
\* looked at.
FaultyAlwaysGrantPerson(input, own) ==
  IF input = "cancelled" THEN "deny" ELSE IF input = "claims" THEN "error" ELSE "grant"

AlwaysGrantPerson(input, own) ==
  IF input = "cancelled" THEN "deny"
  ELSE IF input = "claims" THEN "error"
  ELSE IF own THEN "grant" ELSE "federate"

ClarificationThenGrantPerson(input, own) ==
  IF input = None THEN "clarification"
  ELSE IF input = "cancelled" THEN "deny"
  ELSE IF input = "claims" THEN "error"
  ELSE IF own THEN "grant" ELSE "federate"

\* Around AlwaysGrantPersonPolicy.
DeferInteractionPerson(input, own) ==
  IF input = None THEN "interaction" ELSE AlwaysGrantPerson(input, own)

PersonDecides(policy, input, own) ==
  CASE policy = "always" -> AlwaysGrantPerson(input, own)
    [] policy = "clarification" -> ClarificationThenGrantPerson(input, own)
    [] policy = "interaction" -> DeferInteractionPerson(input, own)

-----------------------------------------------------------------------------
(* Of an Access Server. *)

AlwaysGrantAccess(input) == IF input = "cancelled" THEN "deny" ELSE "grant"

ClarificationThenGrantAccess(input) ==
  IF input = None THEN "clarification"
  ELSE IF input = "cancelled" THEN "deny"
  ELSE IF input = "claims" THEN "error" ELSE "grant"

\* Around AlwaysGrantAccessPolicy.
DeferInteractionAccess(input) ==
  IF input = None THEN "interaction" ELSE AlwaysGrantAccess(input)

DeferClaimsAccess(input) ==
  IF input = None THEN "claims"
  ELSE IF input = "cancelled" THEN "deny"
  ELSE IF input = "clarification" THEN "error" ELSE "grant"

DeferApprovalAccess(input) ==
  IF input = None THEN "approval"
  ELSE IF input = "cancelled" THEN "deny" ELSE "grant"

AccessDecides(policy, input) ==
  CASE policy = "always" -> AlwaysGrantAccess(input)
    [] policy = "clarification" -> ClarificationThenGrantAccess(input)
    [] policy = "interaction" -> DeferInteractionAccess(input)
    [] policy = "claims" -> DeferClaimsAccess(input)
    [] policy = "approval" -> DeferApprovalAccess(input)

=============================================================================
