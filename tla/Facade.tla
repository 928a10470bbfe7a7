------------------------------- MODULE Facade -------------------------------
(***************************************************************************)
(* The two facades in front of one PDP service: the AuthZEN HTTP endpoint  *)
(* (authz/api) and the gRPC server (authz/grpcpdp).  One contract request  *)
(* is sent through both, by clients that need not be PEPs, and each facade *)
(* decodes, evaluates and maps the outcome to a status of its transport.   *)
(* The engine may fail at any evaluation.                                  *)
(***************************************************************************)
EXTENDS PDP

CONSTANT Requests   \* contract requests clients encode

\* The parts of a contract request.  A subject's id is a string in Go: it is never
\* missing, nor JSON's false.
ContractRequest(r) ==
  /\ r = [subject |-> r.subject, action |-> r.action, resource |-> r.resource,
          context |-> r.context]
  /\ r.resource = [type |-> r.resource.type, id |-> r.resource.id,
                   props |-> r.resource.props]
  /\ r.subject.id \notin {Absent, "false"}

ASSUME FacadeAssumption == \A r \in Requests : ContractRequest(r)

VARIABLES
  req,    \* the request under way
  http,   \* the HTTP facade's answer: status and response
  grpc    \* the gRPC facade's answer

vars == <<req, http, grpc>>

Answer(status, response) == [status |-> status, response |-> response]
Waiting == Answer("waiting", NoResponse)

NoRequest ==
  [subject  |-> [type |-> "", id |-> "", aal |-> Absent, act |-> NoAct],
   action   |-> Malformed(""),
   resource |-> [type |-> Malformed(""), id |-> "", props |-> NilMap],
   context  |-> [profile |-> Absent, source_ip |-> Absent, partner_id |-> Absent]]

Init == req = NoRequest /\ http = Waiting /\ grpc = Waiting

Send(r) ==
  /\ req = NoRequest
  /\ req' = r
  /\ UNCHANGED <<http, grpc>>

\* handleEvaluation: a body that is not the contract's JSON never reaches the
\* service; a contract violation is the client's fault, the rest the server's.
handleEvaluation ==
  LET in     == [req EXCEPT !.resource.props = OverHTTP(@)]
      answer == Evaluate(in, 0)
  IN  /\ req # NoRequest /\ http = Waiting
      /\ \/ http' = Answer("400", ErrorResponse)     \* decoding failed
         \/ /\ ~Validate(in)
            /\ http' = Answer("400", ErrorResponse)
         \/ /\ Validate(in)
            /\ http' = Answer("500", ErrorResponse)  \* the engine failed
         \/ /\ Validate(in)
            /\ http' = Answer("200", answer)
      /\ UNCHANGED <<req, grpc>>

\* Server.Evaluate: gRPC decodes the message before the handler runs.
grpcEvaluate ==
  LET in     == [req EXCEPT !.resource.props = OverGRPC(@)]
      answer == Evaluate(in, 0)
  IN  /\ req # NoRequest /\ grpc = Waiting
      /\ \/ /\ ~Validate(in)
            /\ grpc' = Answer("InvalidArgument", ErrorResponse)
         \/ /\ Validate(in)
            /\ grpc' = Answer("Internal", ErrorResponse)
         \/ /\ Validate(in)
            /\ grpc' = Answer("OK", answer)
      /\ UNCHANGED <<req, http>>

\* Both answers are in; the clients are done.
Close ==
  /\ http # Waiting /\ grpc # Waiting
  /\ req' = NoRequest /\ http' = Waiting /\ grpc' = Waiting

Next == (\E r \in Requests : Send(r)) \/ handleEvaluation \/ grpcEvaluate \/ Close

Spec == Init /\ [][Next]_vars

-----------------------------------------------------------------------------
(* Properties.                                                             *)

\* Whichever transport a PEP uses, the policy decides the same: the decoded
\* requests differ in nil and empty maps only, which no rule tells apart.
TransportsAgree ==
  http.status = "200" /\ grpc.status = "OK" =>
    /\ http.response.decision = grpc.response.decision
    /\ http.response.obligations = grpc.response.obligations
    /\ http.response.reason = grpc.response.reason

\* Validate and vsp.global, the same rules in two languages, refuse the same
\* requests for the same reasons, with one exception: Rego's not lets an empty
\* subject id through, which Validate alone refuses.  (The profile is checked
\* by a gate of its own in Rego.)
ValidatorsAgree ==
  req # NoRequest =>
    Issues(req) \ {"authz_profile"} =
      schema_violations(req) \cup {i \in {"subject_id"} : req.subject.id = ""}

\* No decision without the profile's context: an allow on the east-west hop
\* names a workload actor, and no allow leaves out a required attribute.
AllowCarriesContext ==
  http.response.decision =>
    /\ req.context.profile = ProfileEastWest => req.subject.act.id \in SpiffeIDs
    /\ \A a \in required_attributes_for(req.action) : a \in DOMAIN req.resource.props.kv
=============================================================================
