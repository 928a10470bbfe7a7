-------------------------------- MODULE PEP --------------------------------
(***************************************************************************)
(* One Policy Enforcement Point (authz/pep, deployed by cmd/zta-pep)       *)
(* serving concurrent requests.  Every handler goroutine climbs the ladder *)
(* L0 -> L1 -> revocation check -> L2 (token fast path, else PDP call) and *)
(* then answers the client.  A step of the model ends where the goroutine  *)
(* reads state another goroutine writes, or waits for somebody else:       *)
(*                                                                         *)
(*   l0          the workload attestor is asked                            *)
(*   l1          the route table is read                                   *)
(*   revocation  the CAEP cache is read                                    *)
(*   l2          the request is built, the presented token is verified     *)
(*   calling     the PDP call is in flight                                 *)
(*   enforce     Check has returned; the middleware answers                *)
(*                                                                         *)
(* Meanwhile SETs reach the cache, SVIDs are revoked out of band, time     *)
(* passes, other PEPs obtain decisions from the same PDP, and the process  *)
(* may be restarted, which loses the cache and every request in progress.  *)
(***************************************************************************)
EXTENDS PDP, Integers, FiniteSets

CONSTANTS
  Handlers,         \* request-handling goroutines
  Inbound,          \* the HTTP requests clients send, without their token
  ForeignRequests,  \* requests other PEPs send to the same PDP, as decoded
  EventSubjects,    \* subjects SETs are about
  Profile,          \* this PEP's profile
  Routes,           \* its route table, a sequence: the first match wins
  RequirePeerSVID,  \* the caller must come from the mTLS certificate
  FastPath,         \* a token verifier is configured
  CAEPEnabled,      \* a revocation cache is configured
  Revocable,        \* SVIDs that may be revoked out of band
  Skew,             \* ticks by which the PEP's clock lags the PDP's
  MaxTime,          \* bound on the clock
  MaxMinted         \* bound on the tokens ever issued

\* parseConfig admits the three profiles; the rest is configuration.
ASSUME PEPAssumption ==
  /\ Profile \in Profiles
  /\ RequirePeerSVID \in BOOLEAN
  /\ FastPath \in BOOLEAN
  /\ CAEPEnabled \in BOOLEAN
  /\ Skew \in Nat
  /\ MaxTime \in Nat
  /\ MaxMinted \in Nat

VARIABLES
  pc,       \* where each handler is
  in,       \* the HTTP request it serves
  tok,      \* the decision token that request presents
  resp,     \* the PDP's response to it, when there is one
  outcome,  \* what Check returned
  reply,    \* what the middleware last answered
  held,     \* decision tokens in clients' hands
  revoked,  \* the CAEP revocation cache
  distrusted, \* SVIDs the attestor no longer accepts
  now,      \* the PDP's clock
  minted,   \* history: every token issued, for which request, and when
  blocked,  \* history: the subject has been revoked ever since the request came
  triedAt   \* history: when the handler last verified a token

handlerVars == <<pc, in, tok, resp, outcome, reply, triedAt>>
vars == <<pc, in, tok, resp, outcome, reply, held, revoked, distrusted, now,
          minted, blocked, triedAt>>

-----------------------------------------------------------------------------
(* The inbound request and what the PEP makes of it.                       *)

NoInbound == [cert |-> "", hdr |-> "", key |-> "", subject |-> "", aal |-> "",
              rid |-> "", partner |-> "", body |-> [ok |-> TRUE, kv |-> EmptyMap.kv]]

\* Defect: the header is believed although there is a certificate.
peerIdentityHeaderFirst(r) ==
  IF r.hdr # "" THEN r.hdr ELSE r.cert

\* The peer's SPIFFE id, "" when there is none.
peerIdentity(r) ==
  IF r.cert # "" THEN r.cert
  ELSE IF RequirePeerSVID THEN "" ELSE r.hdr

Matches(r) == {i \in DOMAIN Routes : Routes[i].key = r.key}

matchRoute(r) == Routes[CHOOSE i \in Matches(r) : \A j \in Matches(r) : i <= j]

\* The body is read only when the route lifts fields from it.
BuildFails(r) == matchRoute(r).props # {} /\ ~r.body.ok

resourceProps(r) ==
  GoMap([k \in DOMAIN r.body.kv \cap matchRoute(r).props |-> r.body.kv[k]])

buildRequest(r) ==
  [subject  |-> [type |-> "user", id |-> r.subject, aal |-> r.aal,
                 act  |-> IF Profile = ProfileEastWest /\ peerIdentity(r) # ""
                          THEN [type |-> "workload", id |-> peerIdentity(r)]
                          ELSE NoAct],
   action   |-> matchRoute(r).action,
   resource |-> [type |-> matchRoute(r).type, id |-> r.rid,
                 props |-> resourceProps(r)],
   context  |-> [profile    |-> Profile,
                 source_ip  |-> IF Profile = ProfileEdge THEN "ip" ELSE Absent,
                 partner_id |-> IF Profile = ProfilePartner THEN r.partner ELSE Absent]]

\* Defects: the claims are compared without the digest or without the
\* assurance level, or the levels are compared strictly.
CoversAnyProps(claims, req) ==
  /\ claims.sub = req.subject.id
  /\ claims.act = req.action
  /\ claims.res = ResourceRef(req.resource)
  /\ AALRank(req.subject.aal) >= AALRank(claims.aal)
CoversAnyLevel(claims, req) ==
  /\ claims.sub = req.subject.id
  /\ claims.act = req.action
  /\ claims.res = ResourceRef(req.resource)
  /\ claims.rd = ResourceDigest(req.resource.props)
CoversHigherLevel(claims, req) ==
  /\ CoversAnyLevel(claims, req)
  /\ AALRank(req.subject.aal) > AALRank(claims.aal)

\* The claims bind to this request, and its assurance is at least the token's.
Covers(claims, req) ==
  /\ claims.sub = req.subject.id
  /\ claims.act = req.action
  /\ claims.res = ResourceRef(req.resource)
  /\ claims.rd = ResourceDigest(req.resource.props)
  /\ AALRank(req.subject.aal) >= AALRank(claims.aal)

tryDecisionToken(raw, req, t) ==
  FastPath /\ raw # NoToken /\ Verify(raw, t) /\ Covers(raw, req)

-----------------------------------------------------------------------------
(* Outcomes.                                                               *)

Kinds == {"None", "Allow", "DropL0", "DenyRoute", "DenyForbidden", "DenyStepUp"}

Outcome(kind, reason, acr, token) ==
  [kind |-> kind, reason |-> reason, acr |-> acr, tok |-> token]
Deny(kind, reason) == Outcome(kind, reason, "", NoToken)
NoOutcome == Deny("None", "")

StepUps(obligations) == {i \in DOMAIN obligations : obligations[i].type = "step_up"}

\* An allow ignores the obligations; a deny looks for the first step_up.
classify(response) ==
  LET steps == StepUps(response.obligations)
      first == CHOOSE i \in steps : \A j \in steps : i <= j
  IN  IF response.decision
      THEN Outcome("Allow", response.reason, "", response.tok)
      ELSE IF steps # {}
      THEN Outcome("DenyStepUp", response.reason,
                   response.obligations[first].required_acr, NoToken)
      ELSE Deny("DenyForbidden",
                IF response.reason = "" THEN "forbidden" ELSE response.reason)

\* What the upstream service answers: its own status, the step-up requirement of
\* a deeper PEP, or nothing (the proxy's 502).
Upstream == { [status |-> 200, stepUp |-> ""], [status |-> 403, stepUp |-> "AAL3"],
              [status |-> 403, stepUp |-> ""], [status |-> 401, stepUp |-> ""],
              [status |-> 502, stepUp |-> ""] }

\* Defects: the edge passes a bubbled-up requirement on as it is, or turns it into
\* a challenge for no level.
RewriteNothing(up) == up
RewriteLosesLevel(up) ==
  IF Profile = ProfileEdge /\ up.stepUp # "" THEN [status |-> 401, stepUp |-> ""] ELSE up

\* The edge proxy turns a bubbled-up requirement into a challenge.
Rewrite(up) ==
  IF Profile = ProfileEdge /\ up.stepUp # "" THEN [up EXCEPT !.status = 401] ELSE up

DenyReply(out) ==
  IF out.kind = "DenyStepUp"
  THEN [status |-> IF Profile = ProfileEdge THEN 401 ELSE 403, stepUp |-> out.acr]
  ELSE [status |-> 403, stepUp |-> ""]

NoReply == [status |-> 0, stepUp |-> ""]

-----------------------------------------------------------------------------
Init ==
  /\ pc = [h \in Handlers |-> "idle"]
  /\ in = [h \in Handlers |-> NoInbound]
  /\ tok = [h \in Handlers |-> NoToken]
  /\ resp = [h \in Handlers |-> NoResponse]
  /\ outcome = [h \in Handlers |-> NoOutcome]
  /\ reply = [h \in Handlers |-> NoReply]
  /\ held = {}
  /\ revoked = {}
  /\ distrusted = {}
  /\ now = 0
  /\ minted = {}
  /\ blocked = [h \in Handlers |-> FALSE]
  /\ triedAt = [h \in Handlers |-> 0]

\* A client sends a request, with a token it was given earlier, one that does
\* not verify, or none.
Arrive(h) ==
  /\ pc[h] = "idle"
  /\ \E r \in Inbound, t \in held \cup {NoToken, BadToken} :
       /\ in' = [in EXCEPT ![h] = r]
       /\ tok' = [tok EXCEPT ![h] = t]
       /\ blocked' = [blocked EXCEPT ![h] = CAEPEnabled /\ r.subject \in revoked]
  /\ pc' = [pc EXCEPT ![h] = "l0"]
  /\ reply' = [reply EXCEPT ![h] = NoReply]
  /\ UNCHANGED <<resp, outcome, held, revoked, distrusted, now, minted, triedAt>>

\* Check returns out without having called the PDP.
Return(h, out) ==
  /\ pc' = [pc EXCEPT ![h] = "enforce"]
  /\ outcome' = [outcome EXCEPT ![h] = out]
  /\ UNCHANGED <<in, tok, reply, held, revoked, distrusted, now, minted, blocked>>

Goto(h, label) ==
  /\ pc' = [pc EXCEPT ![h] = label]
  /\ UNCHANGED <<in, tok, outcome, reply, held, revoked, distrusted, now, minted,
                 blocked>>

\* Defect: the attestor only looks for revoked ids.
AttestedUnlessRevoked(id) == id \notin distrusted

\* The attestor accepts a SPIFFE id that was not revoked; it may also fail.
Attested(id) == id \in SpiffeIDs /\ id \notin distrusted

CheckL0(h) ==
  /\ pc[h] = "l0"
  /\ IF Profile = ProfileEastWest
     THEN \/ /\ peerIdentity(in[h]) = ""
             /\ Return(h, Deny("DropL0", "l0_no_peer_svid"))
          \/ /\ peerIdentity(in[h]) # ""
             /\ Return(h, Deny("DropL0", "l0_peer_not_attested"))
          \/ /\ peerIdentity(in[h]) # "" /\ Attested(peerIdentity(in[h]))
             /\ Goto(h, "l1")
     ELSE Goto(h, "l1")
  /\ UNCHANGED <<resp, triedAt>>

\* Defect: a request that presents a token skips the revocation check.
CheckL1TokenFirst(h) ==
  /\ pc[h] = "l1"
  /\ IF Matches(in[h]) = {}
     THEN Return(h, Deny("DenyRoute", "l1_route_not_permitted"))
     ELSE Goto(h, IF tok[h] = NoToken THEN "revocation" ELSE "l2")
  /\ UNCHANGED <<resp, triedAt>>

CheckL1(h) ==
  /\ pc[h] = "l1"
  /\ IF Matches(in[h]) = {}
     THEN Return(h, Deny("DenyRoute", "l1_route_not_permitted"))
     ELSE Goto(h, "revocation")
  /\ UNCHANGED <<resp, triedAt>>

\* Defect: the test for an empty subject is inverted.
IsRevokedInverted(subject) == CAEPEnabled /\ subject = "" /\ subject \in revoked

IsRevoked(subject) == CAEPEnabled /\ subject # "" /\ subject \in revoked

CheckRevocation(h) ==
  /\ pc[h] = "revocation"
  /\ IF IsRevoked(in[h].subject)
     THEN Return(h, Deny("DenyForbidden", "session_revoked"))
     ELSE Goto(h, "l2")
  /\ UNCHANGED <<resp, triedAt>>

\* Build the AuthZEN request, try the presented token, else call the PDP.
CheckL2(h) ==
  LET req == buildRequest(in[h]) IN
  /\ pc[h] = "l2"
  /\ triedAt' = [triedAt EXCEPT ![h] = now]
  /\ IF BuildFails(in[h])
     THEN Return(h, Deny("DenyForbidden", "l2_request_build_failed"))
     ELSE IF tryDecisionToken(tok[h], req, now - Skew)
     THEN Return(h, Outcome("Allow", "decision_token_reuse", "", tok[h]))
     ELSE Goto(h, "calling")
  /\ UNCHANGED resp

\* What an evaluation puts on the record.
Minted(req, response, t) ==
  IF response.decision THEN {[tok |-> response.tok, req |-> req, at |-> t]} ELSE {}

Record(issued) ==
  /\ minted' = minted \cup issued
  /\ Cardinality(minted') <= MaxMinted

\* The PDP evaluates the request it received.  An engine that fails gives the
\* PEP an error, as CallFails does.
PDPEvaluates(h) ==
  LET req    == Wire(buildRequest(in[h]))
      answer == Evaluate(req, now)
  IN  /\ pc[h] = "calling" /\ resp[h] = NoResponse
      /\ resp' = [resp EXCEPT ![h] = answer]
      /\ Record(Minted(req, answer, now))
      /\ UNCHANGED <<pc, in, tok, outcome, reply, held, revoked, distrusted, now,
                     blocked, triedAt>>

\* The response arrives.  A 400, 500 or gRPC status is an error to the client.
CallReturns(h) ==
  /\ pc[h] = "calling" /\ resp[h] # NoResponse
  /\ Return(h, IF resp[h].err = "error"
               THEN Deny("DenyForbidden", "l2_pdp_unavailable")
               ELSE classify(resp[h]))
  /\ resp' = [resp EXCEPT ![h] = NoResponse]
  /\ UNCHANGED triedAt

\* Defect: the client has no timeout.
CallFailsAnswered(h) ==
  /\ pc[h] = "calling" /\ resp[h] # NoResponse
  /\ Return(h, Deny("DenyForbidden", "l2_pdp_unavailable"))
  /\ resp' = [resp EXCEPT ![h] = NoResponse]
  /\ UNCHANGED triedAt

\* The call times out or the connection breaks, whether or not the PDP has
\* answered; a token minted for the lost response reaches nobody.
CallFails(h) ==
  /\ pc[h] = "calling"
  /\ Return(h, Deny("DenyForbidden", "l2_pdp_unavailable"))
  /\ resp' = [resp EXCEPT ![h] = NoResponse]
  /\ UNCHANGED triedAt

\* Defect: the request's token is echoed, whatever Check found.
EchoedPresented(h) == {tok[h]} \ {NoToken}

\* The tokens the answer hands to the client.
Echoed(h) == IF outcome[h].kind = "Allow" THEN {outcome[h].tok} ELSE {}

\* The middleware: an allowed request is forwarded and its token echoed.
Respond(h) ==
  /\ pc[h] = "enforce"
  /\ IF outcome[h].kind = "Allow"
     THEN \E up \in Upstream : reply' = [reply EXCEPT ![h] = Rewrite(up)]
     ELSE reply' = [reply EXCEPT ![h] = DenyReply(outcome[h])]
  /\ held' = held \cup Echoed(h)
  /\ pc' = [pc EXCEPT ![h] = "idle"]
  /\ in' = [in EXCEPT ![h] = NoInbound]
  /\ tok' = [tok EXCEPT ![h] = NoToken]
  /\ outcome' = [outcome EXCEPT ![h] = NoOutcome]
  /\ blocked' = [blocked EXCEPT ![h] = FALSE]
  /\ triedAt' = [triedAt EXCEPT ![h] = 0]
  /\ UNCHANGED <<resp, revoked, distrusted, now, minted>>

-----------------------------------------------------------------------------
(* What happens around the handlers.                                       *)

\* The receiver verified a SET and applies it to the cache.
Revoke(s) ==
  /\ CAEPEnabled
  /\ revoked' = revoked \cup {s}
  /\ UNCHANGED <<handlerVars, held, distrusted, now, minted, blocked>>

Restore(s) ==
  /\ CAEPEnabled
  /\ revoked' = revoked \ {s}
  /\ blocked' = [h \in Handlers |-> blocked[h] /\ in[h].subject # s]
  /\ UNCHANGED <<handlerVars, held, distrusted, now, minted>>

DistrustSVID(id) ==
  /\ distrusted' = distrusted \cup {id}
  /\ UNCHANGED <<handlerVars, held, revoked, now, minted, blocked>>

\* Another PEP of the trust domain gets a decision and hands its token on.
ForeignDecision(req) ==
  LET answer == Evaluate(req, now) IN
  /\ Record(Minted(req, answer, now))
  /\ held' = held \cup {m.tok : m \in Minted(req, answer, now)}
  /\ UNCHANGED <<handlerVars, revoked, distrusted, now, blocked>>

Tick ==
  /\ now < MaxTime
  /\ now' = now + 1
  /\ UNCHANGED <<handlerVars, held, revoked, distrusted, minted, blocked>>

\* The process is restarted: the cache is empty, every connection is gone.
Restart ==
  /\ pc' = [h \in Handlers |-> "idle"]
  /\ in' = [h \in Handlers |-> NoInbound]
  /\ tok' = [h \in Handlers |-> NoToken]
  /\ resp' = [h \in Handlers |-> NoResponse]
  /\ outcome' = [h \in Handlers |-> NoOutcome]
  /\ reply' = [h \in Handlers |-> NoReply]
  /\ revoked' = {}
  /\ blocked' = [h \in Handlers |-> FALSE]
  /\ triedAt' = [h \in Handlers |-> 0]
  /\ UNCHANGED <<held, distrusted, now, minted>>

Next ==
  \/ \E h \in Handlers :
       \/ Arrive(h) \/ CheckL0(h) \/ CheckL1(h) \/ CheckRevocation(h) \/ CheckL2(h)
       \/ PDPEvaluates(h) \/ CallReturns(h) \/ CallFails(h) \/ Respond(h)
  \/ \E s \in EventSubjects : Revoke(s) \/ Restore(s)
  \/ \E id \in Revocable : DistrustSVID(id)
  \/ \E req \in ForeignRequests : ForeignDecision(req)
  \/ Tick
  \/ Restart

Spec == Init /\ [][Next]_vars

-----------------------------------------------------------------------------
(* Properties.                                                             *)

Labels == {"idle", "l0", "l1", "revocation", "l2", "calling", "enforce"}

MintedTokens == {m.tok : m \in minted}

OverHandlers(f) == f = [h \in Handlers |-> f[h]]

\* Type invariant.  Tokens in hands, in requests and in outcomes were issued by
\* the PDP or do not verify.
TypeOK ==
  /\ pc \in [Handlers -> Labels]
  /\ in \in [Handlers -> Inbound \cup {NoInbound}]
  /\ tok \in [Handlers -> MintedTokens \cup {NoToken, BadToken}]
  /\ OverHandlers(resp) /\ OverHandlers(outcome) /\ OverHandlers(reply)
  /\ held \subseteq MintedTokens
  /\ revoked \subseteq EventSubjects
  /\ distrusted \subseteq Revocable
  /\ now \in 0 .. MaxTime
  /\ blocked \in [Handlers -> BOOLEAN]
  /\ triedAt \in [Handlers -> 0 .. MaxTime]
  /\ \A m \in minted : m.at \in 0 .. MaxTime
  /\ \A h \in Handlers : /\ outcome[h].kind \in Kinds
                         /\ outcome[h].tok \in MintedTokens \cup {NoToken}
                         /\ resp[h].tok \in MintedTokens \cup {NoToken}

\* The request a decision was taken for is this one, up to the caller's context:
\* same subject, action, resource and properties, and no more assurance.
SameTuple(granted, req) ==
  /\ granted.subject.id = req.subject.id
  /\ granted.action = req.action
  /\ granted.resource.type = req.resource.type
  /\ granted.resource.id = req.resource.id
  /\ granted.resource.props.kv = req.resource.props.kv
  /\ AALRank(granted.subject.aal) <= AALRank(req.subject.aal)

\* Every request the PEP allows (Check returns Allow, fresh or by token reuse)
\* passed L0 and L1, and carries a token the PDP minted on a positive decision
\* about the same subject, action, resource and properties.
AllowJustified ==
  \A h \in Handlers : outcome[h].kind = "Allow" =>
    /\ Profile = ProfileEastWest => peerIdentity(in[h]) \in SpiffeIDs
    /\ Matches(in[h]) # {}
    /\ \E m \in minted : /\ m.tok = outcome[h].tok
                         /\ Eval(m.req).allow
                         /\ SameTuple(m.req, buildRequest(in[h]))

\* A reused decision is never older than the token's TTL plus the lag of the
\* PEP's clock, although Issue and Verify truncate to whole seconds.
TokenFresh ==
  \A h \in Handlers : outcome[h].reason = "decision_token_reuse" =>
    \E m \in minted : m.tok = outcome[h].tok /\ triedAt[h] < m.at + TTL + Skew

\* A subject whose revocation was applied before its request came, and was not
\* lifted since, is not allowed: neither by the PDP nor by a live token.
RevokedStaysOut ==
  \A h \in Handlers : outcome[h].kind = "Allow" => ~blocked[h]

\* End to end, a high-value settlement that the PEP lets through comes from a
\* subject at AAL3, whatever tokens for cheaper or other requests are around.
HighValueNeedsAAL3 ==
  \A h \in Handlers :
    LET req == buildRequest(in[h]) IN
    Backend = "opa" /\ outcome[h].kind = "Allow" /\ req.action = Settle /\ HighValue(req)
      => req.subject.aal = "AAL3"

\* The PDP is not called for a request that presents an unexpired token minted
\* for the identical request: reuse survives a PDP outage.
ReuseHonoured ==
  \A h \in Handlers : FastPath /\ pc[h] = "calling" =>
    ~ \E m \in minted : /\ m.tok = tok[h]
                        /\ m.req = Wire(buildRequest(in[h]))
                        /\ Verify(m.tok, triedAt[h] - Skew)

\* A step-up requirement is never in vain: the same request at the level asked
\* for is granted.
StepUpRemediable ==
  \A h \in Handlers : outcome[h].kind = "DenyStepUp" =>
    LET req == [buildRequest(in[h]) EXCEPT !.subject.aal = outcome[h].acr]
    IN  Evaluate(Wire(req), now).decision

RightlyChallenged(answer) ==
  answer.stepUp = "" \/ (answer.status = 401) = (Profile = ProfileEdge)

\* Only the edge challenges the user: a step-up requirement, its own or one
\* bubbled up from a deeper PEP, leaves the edge as a 401 and leaves every other
\* PEP as something else.
EdgeOwnsChallenge ==
  \A h \in Handlers : RightlyChallenged(reply[h])

\* On the east-west hop a fresh decision is about the workload that really
\* called: the certificate's identity whenever there is one, and there is one
\* if the PEP requires it.
DelegationRecorded ==
  \A h \in Handlers :
    /\ Profile = ProfileEastWest
    /\ outcome[h].kind = "Allow" /\ outcome[h].reason # "decision_token_reuse"
    => \E m \in minted :
         /\ m.tok = outcome[h].tok
         /\ m.req.subject.act.id \in SpiffeIDs
         /\ IF RequirePeerSVID \/ in[h].cert # ""
            THEN m.req.subject.act.id = in[h].cert
            ELSE m.req.subject.act.id = in[h].hdr

-----------------------------------------------------------------------------
(* The inductive invariant behind the safety properties.                   *)

\* Every token the PDP ever issued stands for a valid request it granted.
GrantOK(m) ==
  /\ m.at \in 0 .. MaxTime
  /\ Validate(m.req)
  /\ Eval(m.req).allow
  /\ m.tok = Issue(m.req, m.at)

\* A response in flight is the PDP's answer to this handler's request, and an
\* allowing one is on record.
ResponseOK(h) ==
  LET req == Wire(buildRequest(in[h])) IN
  \E t \in 0 .. MaxTime :
    /\ resp[h] = Evaluate(req, t)
    /\ resp[h].decision => [tok |-> resp[h].tok, req |-> req, at |-> t] \in minted

Granted(h) ==
  \E m \in minted : /\ m.tok = outcome[h].tok
                    /\ Eval(m.req).allow
                    /\ SameTuple(m.req, buildRequest(in[h]))

ReusedInTime(h) ==
  \E m \in minted : m.tok = outcome[h].tok /\ triedAt[h] < m.at + TTL + Skew

\* What each rung has established when the handler stands above it.
HandlerOK(h) ==
  /\ pc[h] # "enforce" => outcome[h] = NoOutcome
  /\ resp[h] # NoResponse => pc[h] = "calling" /\ ResponseOK(h)
  /\ \/ pc[h] \in {"l1", "revocation", "l2", "calling"}
     \/ outcome[h].kind = "Allow"
     => (Profile = ProfileEastWest => peerIdentity(in[h]) \in SpiffeIDs)
  /\ \/ pc[h] \in {"revocation", "l2", "calling"}
     \/ outcome[h].kind = "Allow"
     => Matches(in[h]) # {}
  /\ blocked[h] /\ pc[h] \in {"l0", "l1", "revocation"} =>
       CAEPEnabled /\ in[h].subject \in revoked
  /\ blocked[h] /\ (pc[h] \in {"l2", "calling"} \/ outcome[h].kind = "Allow") =>
       in[h].subject = ""
  /\ outcome[h].kind = "Allow" => Granted(h)
  /\ outcome[h].reason = "decision_token_reuse" => ReusedInTime(h)

\* The ladder's invariant: the history of tokens is sound and every handler has
\* exactly the guarantees of the rungs it has climbed.
IInv ==
  /\ TypeOK
  /\ \A m \in minted : GrantOK(m)
  /\ \A h \in Handlers : HandlerOK(h)

-----------------------------------------------------------------------------
(* A statement of the repository that the code does not meet.              *)

\* "external partner systems; must identify the partner" (profiles.rego).
PartnerIdentified ==
  \A h \in Handlers : Profile = ProfilePartner /\ outcome[h].kind = "Allow" =>
    in[h].partner # ""

=============================================================================
