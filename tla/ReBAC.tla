------------------------------- MODULE ReBAC -------------------------------
(***************************************************************************)
(* The relationship engine (authz/rebac), a drop-in for OPA: an AuthZEN    *)
(* request becomes one OpenFGA check of (user, can_<verb>, <entity>:<id>). *)
(* The domain halves of the names play no part, nor do the properties.     *)
(***************************************************************************)
EXTENDS AuthZEN, Sequences

CONSTANT Tuples   \* the checks OpenFGA answers with allowed

\* Unmapped when the name has no verb, the type no entity or the id is empty.
Mapped(req) ==
  /\ isColonPair(req.action)
  /\ isColonPair(req.resource.type) /\ req.resource.id # ""
  /\ req.subject.id # ""

relationFor(action)    == <<"can", action.local>>
objectFor(type, id)    == <<type.local, id>>

check(req) ==
  <<req.subject.id, relationFor(req.action), objectFor(req.resource.type, req.resource.id)>>
    \in Tuples

RelationDecision(req) ==
  IF ~Mapped(req) THEN Verdict(FALSE, <<>>, "rebac_unmapped_request")
  ELSE IF check(req) THEN Verdict(TRUE, <<>>, "rebac_relationship_ok")
  ELSE Verdict(FALSE, <<>>, "rebac_no_relationship")
=============================================================================
