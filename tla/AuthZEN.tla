------------------------------ MODULE AuthZEN ------------------------------
(***************************************************************************)
(* The VSP Standard Contract (authz/authzen): the data a PEP and a PDP     *)
(* exchange, and the front-door validation of a request.                   *)
(*                                                                         *)
(* Data is abstracted to what the decisions tell apart:                    *)
(*   - a name such as "acct:settle" is a record that says whether the      *)
(*     string is a well-formed colon pair and what its two halves are;     *)
(*   - a Go map[string]any is [nil |-> ..., kv |-> ...]: a nil map and an  *)
(*     empty map behave alike in Go but are encoded differently in JSON;   *)
(*   - a key that is missing from a JSON object reads as Absent, which is  *)
(*     not the empty string.                                               *)
(* Correlation ids, PEP ids and the action's method property only serve    *)
(* tracing and are left out.                                               *)
(***************************************************************************)
EXTENDS Naturals

Absent == "<absent>"

-----------------------------------------------------------------------------
(* Profiles, subject types, assurance levels.                              *)

ProfileEdge     == "edge"
ProfileEastWest == "east_west"
ProfilePartner  == "partner"
Profiles == {ProfileEdge, ProfileEastWest, ProfilePartner}

SubjectTypes == {"user", "workload"}

\* The PEP's ordering of assurance levels: an unknown level ranks lowest.
AALRank(level) == CASE level = "AAL1" -> 1
                    [] level = "AAL2" -> 2
                    [] level = "AAL3" -> 3
                    [] OTHER          -> 0

-----------------------------------------------------------------------------
(* Names and maps.                                                         *)

\* isColonPair and domainOf read these fields; a malformed name has no domain.
Name(domain, local) == [pair |-> TRUE, domain |-> domain, local |-> local]
Malformed(text)     == [pair |-> FALSE, domain |-> Absent, local |-> text]
isColonPair(name)   == name.pair

EmptyMap == [nil |-> FALSE, kv |-> [k \in {} |-> Absent]]
NilMap   == [nil |-> TRUE,  kv |-> [k \in {} |-> Absent]]
GoMap(kv) == [nil |-> FALSE, kv |-> kv]
Get(map, key) == IF key \in DOMAIN map.kv THEN map.kv[key] ELSE Absent

NoAct == [type |-> Absent, id |-> Absent]

-----------------------------------------------------------------------------
(* Request.Validate gathers every issue rather than stopping at the first. *)

\* Defect: the cross-field rule is forgotten.
BrokenNoDomainRule(req) ==
  [subject_type    |-> req.subject.type \notin SubjectTypes,
   subject_id      |-> req.subject.id = "",
   action_name     |-> ~isColonPair(req.action),
   resource_type   |-> ~isColonPair(req.resource.type),
   authz_profile   |-> req.context.profile \notin Profiles]

Broken(req) ==
  [subject_type    |-> req.subject.type \notin SubjectTypes,
   subject_id      |-> req.subject.id = "",
   action_name     |-> ~isColonPair(req.action),
   resource_type   |-> ~isColonPair(req.resource.type),
   domain_mismatch |-> /\ isColonPair(req.action)
                       /\ isColonPair(req.resource.type)
                       /\ req.action.domain # req.resource.type.domain,
   authz_profile   |-> req.context.profile \notin Profiles]

Issues(req) == {i \in DOMAIN Broken(req) : Broken(req)[i]}

Validate(req) == Issues(req) = {}

-----------------------------------------------------------------------------
(* What a decision engine returns, whichever engine it is.                 *)

Verdict(allow, obligations, reason) ==
  [allow |-> allow, obligations |-> obligations, reason |-> reason]
=============================================================================
