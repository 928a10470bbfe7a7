---------------------------- MODULE FacadeProofs ----------------------------
(***************************************************************************)
(* Proofs about Facade, for any contract requests, any attributes that the *)
(* policy requires, any domains and identities, and both engines.          *)
(***************************************************************************)
EXTENDS Facade, TLAPS

-----------------------------------------------------------------------------
(* The inductive invariant.                                                *)

HTTPIn == [req EXCEPT !.resource.props = OverHTTP(@)]
GRPCIn == [req EXCEPT !.resource.props = OverGRPC(@)]

\* A facade's answer is none yet, an error, or the service's on what it decoded.
AnswerOK(answer, in, ok) ==
  \/ answer = Waiting
  \/ answer.status # ok /\ answer.response = ErrorResponse
  \/ Validate(in) /\ answer = Answer(ok, Evaluate(in, 0))

IInv ==
  /\ ContractRequest(req)
  /\ req = NoRequest => http = Waiting /\ grpc = Waiting
  /\ AnswerOK(http, HTTPIn, "200")
  /\ AnswerOK(grpc, GRPCIn, "OK")

-----------------------------------------------------------------------------
(* What the transports do to a request, and what the rules look at.        *)

\* Requests that differ in whether a map is nil, at most.
SameForRules(p, q) ==
  /\ p.subject = q.subject /\ p.action = q.action /\ p.context = q.context
  /\ p.resource.type = q.resource.type /\ p.resource.id = q.resource.id
  /\ p.resource.props.kv = q.resource.props.kv

\* What a facade decodes: the parts that were sent, and the properties' keys.
LEMMA Decoded ==
  ASSUME NEW r, ContractRequest(r), NEW props
  PROVE  LET in == [r EXCEPT !.resource.props = props]
         IN  /\ in.subject = r.subject /\ in.action = r.action /\ in.context = r.context
             /\ in.resource.type = r.resource.type /\ in.resource.id = r.resource.id
             /\ in.resource.props = props
<1>1. PICK subject, action, type, id, sent, context :
        r = [subject |-> subject, action |-> action,
             resource |-> [type |-> type, id |-> id, props |-> sent], context |-> context]
  BY DEF ContractRequest
<1>2. [r EXCEPT !.resource.props = props] =
        [subject |-> subject, action |-> action,
         resource |-> [type |-> type, id |-> id, props |-> props], context |-> context]
  BY <1>1
<1>3. QED
  BY <1>1, <1>2

\* Both transports deliver the same keys and values.
LEMMA SameKeys ==
  ASSUME NEW props
  PROVE  /\ OverHTTP(props).kv = OverGRPC(props).kv
         /\ DOMAIN OverHTTP(props).kv = DOMAIN props.kv
<1>1. CASE DOMAIN props.kv = {}
  <2>1. OverHTTP(props).kv = [k \in {} |-> Absent] /\ OverGRPC(props).kv = [k \in {} |-> Absent]
    BY <1>1 DEF OverHTTP, OverGRPC, NilMap, EmptyMap
  <2>2. QED
    BY <1>1, <2>1
<1>2. CASE DOMAIN props.kv # {}
  BY <1>2 DEF OverHTTP, OverGRPC
<1>3. QED
  BY <1>1, <1>2

LEMMA SameForRulesDecoded ==
  ASSUME ContractRequest(req)
  PROVE  /\ SameForRules(HTTPIn, GRPCIn)
         /\ HTTPIn.subject = req.subject /\ HTTPIn.action = req.action
         /\ HTTPIn.context = req.context
         /\ DOMAIN HTTPIn.resource.props.kv = DOMAIN req.resource.props.kv
<1>1. PICK h : h = OverHTTP(req.resource.props)
  OBVIOUS
<1>2. PICK g : g = OverGRPC(req.resource.props)
  OBVIOUS
<1>3. HTTPIn = [req EXCEPT !.resource.props = h] /\ GRPCIn = [req EXCEPT !.resource.props = g]
  BY <1>1, <1>2, Zenon DEF HTTPIn, GRPCIn
<1>4. PICK r : r = req
  OBVIOUS
<1>5. /\ HTTPIn.subject = req.subject /\ HTTPIn.action = req.action /\ HTTPIn.context = req.context
      /\ HTTPIn.resource.type = req.resource.type /\ HTTPIn.resource.id = req.resource.id
      /\ HTTPIn.resource.props = h
  BY <1>3, <1>4, Decoded
<1>6. /\ GRPCIn.subject = req.subject /\ GRPCIn.action = req.action /\ GRPCIn.context = req.context
      /\ GRPCIn.resource.type = req.resource.type /\ GRPCIn.resource.id = req.resource.id
      /\ GRPCIn.resource.props = g
  BY <1>3, <1>4, Decoded
<1>7. h.kv = g.kv /\ DOMAIN h.kv = DOMAIN req.resource.props.kv
  BY <1>1, <1>2, SameKeys
<1>8. QED
  BY <1>5, <1>6, <1>7 DEF SameForRules

\* No rule of Validate, of the gates, of the domain or of the relationship engine
\* tells such requests apart.
LEMMA RulesIgnoreNil ==
  ASSUME NEW p, NEW q, SameForRules(p, q)
  PROVE  Eval(p) = Eval(q)
<1>1. \A k : Get(p.resource.props, k) = Get(q.resource.props, k)
  BY DEF Get, SameForRules
<1>2. schema_violations(p) = schema_violations(q)
  BY DEF schema_violations, SameForRules
<1>3. missing_required_violations(p) = missing_required_violations(q)
  BY <1>1 DEF missing_required_violations, SameForRules
<1>4. profile_violations(p) = profile_violations(q)
  BY DEF profile_violations, SameForRules
<1>5. Violated(p) <=> Violated(q)
  BY <1>2, <1>3, <1>4 DEF Violated
<1>6. HighValue(p) <=> HighValue(q)
  BY <1>1 DEF HighValue
<1>7. acct_verdict(p) = acct_verdict(q)
  <2>1. /\ p.subject.aal = q.subject.aal /\ p.action = q.action
        /\ Get(p.resource.props, "amount") = Get(q.resource.props, "amount")
    BY <1>1 DEF SameForRules
  <2>2. QED
    BY <1>6, <2>1, Zenon DEF acct_verdict
<1>8. Decision(p) = Decision(q)
  BY <1>5, <1>7 DEF Decision, SameForRules
<1>9. RelationDecision(p) = RelationDecision(q)
  <2>1. Mapped(p) <=> Mapped(q)
    BY DEF Mapped, SameForRules
  <2>2. check(p) <=> check(q)
    BY DEF check, SameForRules
  <2>3. QED
    BY <2>1, <2>2, Zenon DEF RelationDecision
<1>10. QED
  BY <1>8, <1>9 DEF Eval

\* What the service answers to a valid request.
LEMMA EvaluateValid ==
  ASSUME NEW in, Validate(in)
  PROVE  /\ Evaluate(in, 0).decision = Eval(in).allow
         /\ Evaluate(in, 0).obligations = Eval(in).obligations
         /\ Evaluate(in, 0).reason = Eval(in).reason
<1>1. Evaluate(in, 0) = assemble(in, Eval(in), 0)
  BY DEF Evaluate
<1>2. /\ assemble(in, Eval(in), 0).decision = Eval(in).allow
      /\ assemble(in, Eval(in), 0).obligations = Eval(in).obligations
      /\ assemble(in, Eval(in), 0).reason = Eval(in).reason
  BY Zenon DEF assemble, Response
<1>3. QED
  BY <1>1, <1>2

-----------------------------------------------------------------------------
(* The invariant.                                                          *)

LEMMA InitIInv == Init => IInv
<1> SUFFICES ASSUME Init PROVE IInv
  OBVIOUS
<1>1. req = NoRequest /\ http = Waiting /\ grpc = Waiting
  BY DEF Init
<1>2. ContractRequest(NoRequest)
  BY DEF ContractRequest, NoRequest, Absent
<1>3. QED
  BY <1>1, <1>2 DEF IInv, AnswerOK

LEMMA NextIInv == IInv /\ [Next]_vars => IInv'
<1> SUFFICES ASSUME IInv, [Next]_vars PROVE IInv'
  OBVIOUS
<1>1. CASE UNCHANGED vars
  BY <1>1 DEF vars, IInv, HTTPIn, GRPCIn
<1>2. ASSUME NEW r \in Requests, Send(r) PROVE IInv'
  <2>1. req' = r /\ http' = Waiting /\ grpc' = Waiting
    BY <1>2 DEF Send, IInv
  <2>2. ContractRequest(r)
    BY FacadeAssumption
  <2>3. QED
    BY <2>1, <2>2 DEF IInv, AnswerOK
<1>3. CASE handleEvaluation
  <2>1. req' = req /\ grpc' = grpc /\ req # NoRequest
    BY <1>3 DEF handleEvaluation
  <2>2. \/ http' \in {Answer("400", ErrorResponse), Answer("500", ErrorResponse)}
        \/ Validate(HTTPIn) /\ http' = Answer("200", Evaluate(HTTPIn, 0))
    BY <1>3, Zenon DEF handleEvaluation, HTTPIn
  <2>3. AnswerOK(http', HTTPIn, "200")
    <3>1. CASE http' \in {Answer("400", ErrorResponse), Answer("500", ErrorResponse)}
      BY <3>1 DEF AnswerOK, Answer
    <3>2. CASE Validate(HTTPIn) /\ http' = Answer("200", Evaluate(HTTPIn, 0))
      BY <3>2, Zenon DEF AnswerOK
    <3>3. QED
      BY <2>2, <3>1, <3>2
  <2>4. QED
    BY <2>1, <2>3 DEF IInv, HTTPIn, GRPCIn
<1>4. CASE grpcEvaluate
  <2>1. req' = req /\ http' = http /\ req # NoRequest
    BY <1>4 DEF grpcEvaluate
  <2>2. \/ grpc' \in {Answer("InvalidArgument", ErrorResponse), Answer("Internal", ErrorResponse)}
        \/ Validate(GRPCIn) /\ grpc' = Answer("OK", Evaluate(GRPCIn, 0))
    BY <1>4, Zenon DEF grpcEvaluate, GRPCIn
  <2>3. AnswerOK(grpc', GRPCIn, "OK")
    <3>1. CASE grpc' \in {Answer("InvalidArgument", ErrorResponse), Answer("Internal", ErrorResponse)}
      BY <3>1 DEF AnswerOK, Answer
    <3>2. CASE Validate(GRPCIn) /\ grpc' = Answer("OK", Evaluate(GRPCIn, 0))
      BY <3>2, Zenon DEF AnswerOK
    <3>3. QED
      BY <2>2, <3>1, <3>2
  <2>4. QED
    BY <2>1, <2>3 DEF IInv, HTTPIn, GRPCIn
<1>5. CASE Close
  <2>1. req' = NoRequest /\ http' = Waiting /\ grpc' = Waiting
    BY <1>5 DEF Close
  <2>2. ContractRequest(NoRequest)
    BY DEF ContractRequest, NoRequest, Absent
  <2>3. QED
    BY <2>1, <2>2 DEF IInv, AnswerOK
<1>6. QED
  BY <1>1, <1>2, <1>3, <1>4, <1>5 DEF Next

\* A facade answers with an error, or with what the service says of the request it
\* decoded (handleEvaluation, Server.Evaluate).
THEOREM FacadeInvariant == Spec => []IInv
<1>1. Init => IInv
  BY InitIInv
<1>2. IInv /\ [Next]_vars => IInv'
  BY NextIInv
<1>3. QED
  BY <1>1, <1>2, PTL DEF Spec

-----------------------------------------------------------------------------
(* The properties.                                                         *)

\* A decision is that of the engine on what the facade decoded.
LEMMA DecidedBy ==
  ASSUME NEW answer, NEW in, NEW ok \in {"200", "OK"}, AnswerOK(answer, in, ok),
         answer.status = ok \/ answer.response.decision
  PROVE  /\ Validate(in)
         /\ answer.response.decision = Eval(in).allow
         /\ answer.response.obligations = Eval(in).obligations
         /\ answer.response.reason = Eval(in).reason
<1>1. answer # Waiting
  <2>1. Waiting.status = "waiting" /\ Waiting.response = NoResponse
    BY DEF Waiting, Answer
  <2>2. NoResponse.decision = FALSE
    BY DEF NoResponse, Response
  <2>3. QED
    BY <2>1, <2>2
<1>2. ~(answer.status # ok /\ answer.response = ErrorResponse)
  <2>1. ErrorResponse.decision = FALSE
    BY DEF ErrorResponse, Response
  <2>2. QED
    BY <2>1
<1>3. Validate(in) /\ answer = Answer(ok, Evaluate(in, 0))
  BY <1>1, <1>2 DEF AnswerOK
<1>4. answer.response = Evaluate(in, 0)
  BY <1>3 DEF Answer
<1>5. QED
  BY <1>3, <1>4, EvaluateValid

\* One service behind two transports: what JSON and protobuf do to an empty map
\* changes no decision, obligation or reason.
THEOREM TransportsAlwaysAgree == Spec => []TransportsAgree
<1>1. IInv => TransportsAgree
  <2> SUFFICES ASSUME IInv, http.status = "200", grpc.status = "OK"
               PROVE  /\ http.response.decision = grpc.response.decision
                      /\ http.response.obligations = grpc.response.obligations
                      /\ http.response.reason = grpc.response.reason
    BY DEF TransportsAgree
  <2>1. PICK h : h = HTTPIn
    OBVIOUS
  <2>2. PICK g : g = GRPCIn
    OBVIOUS
  <2>3. Eval(h) = Eval(g)
    BY <2>1, <2>2, SameForRulesDecoded, RulesIgnoreNil DEF IInv
  <2>4. /\ http.response.decision = Eval(h).allow
        /\ http.response.obligations = Eval(h).obligations
        /\ http.response.reason = Eval(h).reason
    BY <2>1, DecidedBy DEF IInv
  <2>5. /\ grpc.response.decision = Eval(g).allow
        /\ grpc.response.obligations = Eval(g).obligations
        /\ grpc.response.reason = Eval(g).reason
    BY <2>2, DecidedBy DEF IInv
  <2>6. QED
    BY <2>3, <2>4, <2>5
<1>2. QED
  BY <1>1, FacadeInvariant, PTL

\* Request.Validate and the Rego package vsp.global refuse the same requests, but for
\* the empty subject id and the profile.
THEOREM ValidatorsAlwaysAgree == Spec => []ValidatorsAgree
<1>1. IInv => ValidatorsAgree
  <2> SUFFICES ASSUME IInv
               PROVE  Issues(req) \ {"authz_profile"} =
                        schema_violations(req) \cup {i \in {"subject_id"} : req.subject.id = ""}
    BY DEF ValidatorsAgree
  <2>1. ~Not(req.subject.id)
    BY DEF IInv, ContractRequest, Not
  <2> DEFINE gates == [subject_type    |-> req.subject.type \notin {"user", "workload"},
                       subject_id      |-> Not(req.subject.id),
                       action_name     |-> ~isColonPair(req.action),
                       resource_type   |-> ~isColonPair(req.resource.type),
                       domain_mismatch |-> /\ isColonPair(req.action)
                                           /\ isColonPair(req.resource.type)
                                           /\ req.action.domain # req.resource.type.domain]
             Rules == {"subject_type", "action_name", "resource_type", "domain_mismatch"}
  <2>2. schema_violations(req) = {v \in Rules \cup {"subject_id"} : gates[v]}
    <3>1. schema_violations(req) = {v \in DOMAIN gates : gates[v]}
      BY Zenon DEF schema_violations
    <3>2. DOMAIN gates = Rules \cup {"subject_id"}
      OBVIOUS
    <3>3. QED
      BY <3>1, <3>2, Zenon
  <2>3. Issues(req) = {v \in Rules \cup {"subject_id", "authz_profile"} : Broken(req)[v]}
    <3>1. DOMAIN Broken(req) = Rules \cup {"subject_id", "authz_profile"}
      BY DEF Broken
    <3>2. QED
      BY <3>1, Zenon DEF Issues
  <2>4. \A v \in Rules : gates[v] <=> Broken(req)[v]
    <3>1. /\ gates.subject_type <=> Broken(req).subject_type
          /\ gates.action_name <=> Broken(req).action_name
          /\ gates.resource_type <=> Broken(req).resource_type
          /\ gates.domain_mismatch <=> Broken(req).domain_mismatch
      BY DEF Broken, SubjectTypes
    <3>2. QED
      BY <3>1
  <2>5. /\ ~gates["subject_id"]
        /\ Broken(req)["subject_id"] <=> req.subject.id = ""
    BY <2>1 DEF Broken
  <2> HIDE DEF gates
  <2>6. QED
    BY <2>2, <2>3, <2>4, <2>5
<1>2. QED
  BY <1>1, FacadeInvariant, PTL

\* With the policy engine, an allow has passed the gates of vsp.profiles and of
\* vsp.lib: a workload actor on the east-west hop, every required attribute.
THEOREM AllowAlwaysCarriesContext ==
  ASSUME Backend = "opa"
  PROVE  Spec => []AllowCarriesContext
<1>1. IInv => AllowCarriesContext
  <2> SUFFICES ASSUME IInv, http.response.decision
               PROVE  /\ req.context.profile = ProfileEastWest => req.subject.act.id \in SpiffeIDs
                      /\ \A a \in required_attributes_for(req.action) :
                           a \in DOMAIN req.resource.props.kv
    BY DEF AllowCarriesContext
  <2>1. PICK h : h = HTTPIn
    OBVIOUS
  <2>2. /\ h.subject = req.subject /\ h.action = req.action /\ h.context = req.context
        /\ DOMAIN h.resource.props.kv = DOMAIN req.resource.props.kv
    BY <2>1, SameForRulesDecoded DEF IInv
  <2>3. Eval(h).allow
    BY <2>1, DecidedBy DEF IInv
  <2>4. ~Violated(h)
    <3>1. Eval(h) = Decision(h)
      BY DEF Eval
    <3>2. CASE Violated(h)
      <4>1. Decision(h) = Verdict(FALSE, <<audit>>, "request_invalid")
        BY <3>2 DEF Decision
      <4>2. Decision(h).allow = FALSE
        BY <4>1 DEF Verdict
      <4>3. QED
        BY <2>3, <3>1, <4>2
    <3>3. QED
      BY <3>2
  <2>5. h.context.profile = ProfileEastWest => h.subject.act.id \in SpiffeIDs
    <3>1. profile_violations(h) = {}
      BY <2>4 DEF Violated
    <3>2. ASSUME h.context.profile = ProfileEastWest PROVE valid_workload_act(h.subject.act)
      <4>1. "act" \notin profile_violations(h) /\ "act_kind" \notin profile_violations(h)
        BY <3>1
      <4>2. h.subject.act # NoAct
        BY <3>2, <4>1 DEF profile_violations
      <4>3. QED
        BY <3>2, <4>1, <4>2 DEF profile_violations
    <3>3. QED
      BY <3>2 DEF valid_workload_act
  <2>6. \A a \in required_attributes_for(h.action) : a \in DOMAIN h.resource.props.kv
    BY <2>4 DEF Violated, missing_required_violations, Get, Not, Absent
  <2>7. QED
    BY <2>2, <2>5, <2>6
<1>2. QED
  BY <1>1, FacadeInvariant, PTL
=============================================================================
