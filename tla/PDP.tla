-------------------------------- MODULE PDP --------------------------------
(***************************************************************************)
(* The Policy Decision Point (authz/pdp) and the two transports that carry *)
(* a request to it: JSON over HTTP (authz/pdpclient, authz/api) and gRPC   *)
(* (authz/grpcpdp).  The service keeps no state of its own: it is an       *)
(* operator of the request it decodes and of its clock.                    *)
(***************************************************************************)
EXTENDS Policy, ReBAC, Token

CONSTANTS
  Transport,   \* "http" or "grpc": how the PEP reaches the PDP
  Backend      \* "opa" or "rebac": the engine the service was built with

\* buildPDP knows two transports; two engines implement the PDP's interface.
ASSUME PDPAssumption == Transport \in {"http", "grpc"} /\ Backend \in {"opa", "rebac"}

-----------------------------------------------------------------------------
(* What the PDP decodes from the request the PEP encoded.  JSON drops an   *)
(* empty properties object (omitempty), and the decoder leaves the field   *)
(* nil; a protobuf Struct that was not sent reads back as an empty map.    *)

\* Defect: JSON drops every property.
OverHTTPNothing(props) == NilMap

OverHTTP(props) == IF DOMAIN props.kv = {} THEN NilMap ELSE props
OverGRPC(props) == IF DOMAIN props.kv = {} THEN EmptyMap ELSE props

Wire(req) ==
  [req EXCEPT !.resource.props =
     IF Transport = "http" THEN OverHTTP(@) ELSE OverGRPC(@)]

-----------------------------------------------------------------------------
(* Service.Evaluate: validate, evaluate the policy, assemble the response. *)

Response(err, decision, obligations, reason, tok) ==
  [err |-> err, decision |-> decision, obligations |-> obligations,
   reason |-> reason, tok |-> tok]

NoResponse    == Response("pending", FALSE, <<>>, "", NoToken)
ErrorResponse == Response("error", FALSE, <<>>, "", NoToken)

Eval(req) == IF Backend = "opa" THEN Decision(req) ELSE RelationDecision(req)

assemble(req, dec, t) ==
  Response("nil", dec.allow, dec.obligations, dec.reason,
           IF dec.allow THEN Issue(req, t) ELSE NoToken)

Evaluate(req, t) ==
  IF ~Validate(req) THEN ErrorResponse ELSE assemble(req, Eval(req), t)
=============================================================================
