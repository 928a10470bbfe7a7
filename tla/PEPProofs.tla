----------------------------- MODULE PEPProofs -----------------------------
(***************************************************************************)
(* Proofs about PEP, for every number of handlers, every route table, set  *)
(* of requests, policy data, TTL, clock resolution and clock lag.          *)
(***************************************************************************)
EXTENDS PEP, TLAPS

-----------------------------------------------------------------------------
(* Arithmetic of the clock.                                                *)

\* Truncation to whole seconds never makes a token outlive its TTL: if one time
\* falls in an earlier second than another, it is earlier.
LEMMA EarlierSecond ==
  ASSUME NEW a \in Int, NEW b \in Int, NEW k \in Nat \ {0},
         a \div k < b \div k
  PROVE  a < b
<1>1. a \div k \in Int /\ b \div k \in Int /\ a % k \in 0 .. (k - 1) /\ b % k \in 0 .. (k - 1)
  BY SMT
<1>2. a = k * (a \div k) + (a % k) /\ b = k * (b \div k) + (b % k)
  BY SMT
<1>3. SUFFICES ASSUME b <= a PROVE FALSE
  BY SMT
<1>4. (a \div k) + 1 <= b \div k
  BY <1>1
<1>5. k * ((a \div k) + 1) <= k * (b \div k)
  BY <1>1, <1>4, SMT
<1>6. k * (a \div k) + k <= k * (b \div k)
  BY <1>1, <1>5, SMT
<1>7. QED
  BY <1>1, <1>2, <1>3, <1>6, SMT

\* Levels are ranked by numbers.
LEMMA RankType ==
  ASSUME NEW level
  PROVE  AALRank(level) \in 0 .. 3
BY DEF AALRank

-----------------------------------------------------------------------------
(* Tokens.                                                                 *)

\* A token that verifies was not made up.
LEMMA VerifiedIsSigned ==
  ASSUME NEW raw, NEW t, Verify(raw, t)
  PROVE  raw # NoToken /\ raw # BadToken
<1>1. ~NoToken.signed /\ ~BadToken.signed
  BY DEF NoToken, BadToken, Unsigned
<1>2. raw.signed
  BY DEF Verify
<1>3. QED
  BY <1>1, <1>2, Zenon

\* The comparison of claims in tryDecisionToken determines the granted tuple.
LEMMA CoversSameTuple ==
  ASSUME NEW granted, NEW req, NEW t, Covers(Issue(granted, t), req)
  PROVE  SameTuple(granted, req)
<1>1. /\ granted.subject.id = req.subject.id
      /\ granted.action = req.action
      /\ granted.resource.type = req.resource.type
      /\ granted.resource.id = req.resource.id
      /\ granted.resource.props = req.resource.props
      /\ AALRank(req.subject.aal) >= AALRank(granted.subject.aal)
  BY DEF Covers, Issue, ResourceRef, ResourceDigest
<1>2. QED
  BY <1>1, RankType DEF SameTuple

\* Verify accepts an issued token only before its TTL has passed.
LEMMA VerifyBeforeExpiry ==
  ASSUME NEW req, NEW at \in Nat, NEW t \in Int, Verify(Issue(req, at), t)
  PROVE  t < at + TTL
<1>1. TTL \in Nat /\ TicksPerSecond \in Nat \ {0}
  BY TokenAssumption
<1>2. t \div TicksPerSecond < (at + TTL) \div TicksPerSecond
  BY DEF Verify, Issue, Unix
<1>3. at + TTL \in Int
  BY <1>1
<1>4. QED
  BY <1>1, <1>2, <1>3, EarlierSecond

-----------------------------------------------------------------------------
(* Requests on the wire.                                                   *)

\* Neither transport changes what a decision token binds.
LEMMA WireSameTuple ==
  ASSUME NEW r
  PROVE  SameTuple(Wire(buildRequest(r)), buildRequest(r))
<1> DEFINE req == buildRequest(r)
           S   == DOMAIN r.body.kv \cap matchRoute(r).props
<1>1. req.resource.props = [nil |-> FALSE, kv |-> [k \in S |-> r.body.kv[k]]]
  BY DEF buildRequest, resourceProps, GoMap
<1>2. /\ Wire(req).subject = req.subject
      /\ Wire(req).action = req.action
      /\ Wire(req).resource.type = req.resource.type
      /\ Wire(req).resource.id = req.resource.id
  BY DEF Wire, buildRequest
<1>3. Wire(req).resource.props =
        IF Transport = "http" THEN OverHTTP(req.resource.props)
                              ELSE OverGRPC(req.resource.props)
  BY DEF Wire, buildRequest
<1>4. Wire(req).resource.props.kv = req.resource.props.kv
  <2>1. CASE S = {}
    <3>1. req.resource.props.kv = [k \in {} |-> Absent]
      BY <1>1, <2>1
    <3>2. /\ OverHTTP(req.resource.props).kv = [k \in {} |-> Absent]
          /\ OverGRPC(req.resource.props).kv = [k \in {} |-> Absent]
      <4>1. DOMAIN req.resource.props.kv = {}
        BY <3>1
      <4>2. QED
        BY <4>1 DEF OverHTTP, OverGRPC, NilMap, EmptyMap
    <3>3. QED
      BY <1>3, <3>1, <3>2
  <2>2. CASE S # {}
    BY <1>1, <1>3, <2>2 DEF OverHTTP, OverGRPC
  <2>3. QED
    BY <2>1, <2>2
<1>5. QED
  BY <1>2, <1>4, RankType DEF SameTuple

\* A valid request names its subject.
LEMMA ValidSubject ==
  ASSUME NEW granted, NEW r, Validate(granted), SameTuple(granted, buildRequest(r))
  PROVE  r.subject # ""
<1>1. granted.subject.id # ""
  <2>1. "subject_id" \in DOMAIN Broken(granted)
    BY DEF Broken
  <2>2. ~Broken(granted)["subject_id"]
    BY <2>1 DEF Validate, Issues
  <2>3. QED
    BY <2>2 DEF Broken
<1>2. QED
  BY <1>1 DEF SameTuple, buildRequest

-----------------------------------------------------------------------------
(* Decisions and outcomes.                                                 *)

\* No engine answers with the reason code of the fast path.
LEMMA EvalReason ==
  ASSUME NEW req
  PROVE  Eval(req).reason # "decision_token_reuse"
BY DEF Eval, Decision, RelationDecision, acct_verdict, Verdict

\* What the PDP's answer says: it is no longer pending, a positive decision
\* comes with a token for a valid request that the engine allows.
LEMMA EvaluateFacts ==
  ASSUME NEW req, NEW t
  PROVE  /\ Evaluate(req, t) # NoResponse
         /\ Evaluate(req, t).decision =>
              /\ Validate(req) /\ Eval(req).allow
              /\ Evaluate(req, t).tok = Issue(req, t)
              /\ Evaluate(req, t).err # "error"
         /\ ~Evaluate(req, t).decision => Evaluate(req, t).tok = NoToken
         /\ Evaluate(req, t).reason # "decision_token_reuse"
<1>1. CASE ~Validate(req)
  <2>1. Evaluate(req, t) = ErrorResponse
    BY <1>1 DEF Evaluate
  <2>2. /\ ErrorResponse.err = "error" /\ ErrorResponse.reason = ""
        /\ ErrorResponse.tok = NoToken /\ NoResponse.err = "pending"
    BY DEF ErrorResponse, NoResponse, Response
  <2>3. ~ErrorResponse.decision
    BY DEF ErrorResponse, Response
  <2>4. QED
    BY <2>1, <2>2, <2>3
<1>2. CASE Validate(req)
  <2>1. Evaluate(req, t) = assemble(req, Eval(req), t)
    BY <1>2 DEF Evaluate
  <2> DEFINE a == assemble(req, Eval(req), t)
  <2>2. /\ a.err = "nil" /\ a.reason = Eval(req).reason
        /\ a.decision = Eval(req).allow
        /\ a.tok = IF Eval(req).allow THEN Issue(req, t) ELSE NoToken
    BY DEF assemble, Response
  <2>3. NoResponse.err = "pending"
    BY DEF NoResponse, Response
  <2> HIDE DEF a
  <2>4. a # NoResponse /\ a.reason # "decision_token_reuse" /\ a.err # "error"
    BY <2>2, <2>3, EvalReason
  <2>5. a.decision => Eval(req).allow /\ a.tok = Issue(req, t)
    BY <2>2, Zenon
  <2>6. ~a.decision => a.tok = NoToken
    BY <2>2, Zenon
  <2>7. QED
    BY <2>1, <2>4, <2>5, <2>6, <1>2 DEF a
<1>3. QED
  BY <1>1, <1>2

\* classify allows exactly on a positive decision, with that decision's token.
LEMMA ClassifyFacts ==
  ASSUME NEW response, response.reason # "decision_token_reuse"
  PROVE  /\ response.decision =>
              /\ classify(response).kind = "Allow"
              /\ classify(response).tok = response.tok
         /\ ~response.decision =>
              /\ classify(response).kind \in {"DenyStepUp", "DenyForbidden"}
              /\ classify(response).tok = NoToken
         /\ classify(response).reason # "decision_token_reuse"
BY DEF classify, Outcome, Deny

-----------------------------------------------------------------------------
(* Invariance.                                                             *)

\* A handler keeps its guarantees while others move: the history only grows,
\* and the cache does not forget a subject that blocks it.
LEMMA HandlerFrame ==
  ASSUME NEW h, HandlerOK(h),
         pc'[h] = pc[h], in'[h] = in[h], resp'[h] = resp[h],
         outcome'[h] = outcome[h], triedAt'[h] = triedAt[h],
         minted \subseteq minted',
         blocked'[h] => blocked[h],
         blocked'[h] /\ in[h].subject \in revoked => in[h].subject \in revoked'
  PROVE  HandlerOK(h)'
<1>1. resp[h] # NoResponse => ResponseOK(h)'
  BY DEF HandlerOK, ResponseOK
<1>2. outcome[h].kind = "Allow" => Granted(h)'
  BY DEF HandlerOK, Granted
<1>3. outcome[h].reason = "decision_token_reuse" => ReusedInTime(h)'
  BY DEF HandlerOK, ReusedInTime
<1>4. QED
  BY <1>1, <1>2, <1>3 DEF HandlerOK

\* The initial state satisfies the invariant.
LEMMA InitIInv == Init => IInv
<1> SUFFICES ASSUME Init PROVE IInv
  OBVIOUS
<1>1. TypeOK
  <2>1. \A h \in Handlers : outcome[h].kind = "None" /\ outcome[h].tok = NoToken
    BY DEF Init, NoOutcome, Deny, Outcome
  <2>2. \A h \in Handlers : resp[h].tok = NoToken
    BY DEF Init, NoResponse, Response
  <2>3. OverHandlers(resp) /\ OverHandlers(outcome) /\ OverHandlers(reply)
    BY DEF Init, OverHandlers
  <2>4. pc \in [Handlers -> Labels] /\ blocked \in [Handlers -> BOOLEAN]
    BY DEF Init, Labels
  <2>5. QED
    BY <2>1, <2>2, <2>3, <2>4, PEPAssumption DEF Init, TypeOK, MintedTokens, Kinds
<1>2. \A m \in minted : GrantOK(m)
  BY DEF Init
<1>3. \A h \in Handlers : HandlerOK(h)
  BY DEF Init, HandlerOK, NoOutcome, Deny, Outcome
<1>4. QED
  BY <1>1, <1>2, <1>3 DEF IInv

\* Check returning out preserves the invariant if out is backed as it must be.
LEMMA ReturnStep ==
  ASSUME IInv, NEW g \in Handlers, NEW out,
         Return(g, out),
         pc[g] # "enforce",
         \/ resp' = resp /\ resp[g] = NoResponse
         \/ resp' = [resp EXCEPT ![g] = NoResponse],
         triedAt' \in [Handlers -> 0 .. MaxTime],
         \A h \in Handlers \ {g} : triedAt'[h] = triedAt[h],
         out.kind \in Kinds,
         out.tok \in MintedTokens \cup {NoToken},
         out.kind = "Allow" =>
           /\ Profile = ProfileEastWest => peerIdentity(in[g]) \in SpiffeIDs
           /\ Matches(in[g]) # {}
           /\ blocked[g] => in[g].subject = ""
           /\ \E m \in minted : /\ m.tok = out.tok
                                /\ Eval(m.req).allow
                                /\ SameTuple(m.req, buildRequest(in[g])),
         out.reason = "decision_token_reuse" =>
           \E m \in minted : m.tok = out.tok /\ triedAt'[g] < m.at + TTL + Skew
  PROVE  IInv'
<1>1. TypeOK
  BY DEF IInv
<1>2. /\ pc' = [pc EXCEPT ![g] = "enforce"]
      /\ outcome' = [outcome EXCEPT ![g] = out]
      /\ UNCHANGED <<in, tok, reply, held, revoked, distrusted, now, minted, blocked>>
  BY DEF Return
<1>3. /\ resp'[g] = NoResponse
      /\ \A h \in Handlers \ {g} : resp'[h] = resp[h]
      /\ OverHandlers(resp)'
  BY <1>1 DEF TypeOK, OverHandlers
<1>4. /\ outcome'[g] = out
      /\ \A h \in Handlers \ {g} : outcome'[h] = outcome[h]
      /\ OverHandlers(outcome)'
  BY <1>1, <1>2 DEF TypeOK, OverHandlers
<1>5. /\ pc'[g] = "enforce"
      /\ \A h \in Handlers \ {g} : pc'[h] = pc[h]
      /\ pc' \in [Handlers -> Labels]
  BY <1>1, <1>2 DEF TypeOK, Labels
<1>6. TypeOK'
  <2>1. NoResponse.tok = NoToken
    BY DEF NoResponse, Response
  <2>2. MintedTokens' = MintedTokens
    BY <1>2 DEF MintedTokens
  <2>3. \A h \in Handlers : /\ outcome'[h].kind \in Kinds
                            /\ outcome'[h].tok \in MintedTokens \cup {NoToken}
                            /\ resp'[h].tok \in MintedTokens \cup {NoToken}
    BY <1>1, <1>3, <1>4, <2>1 DEF TypeOK
  <2>4. OverHandlers(reply)'
    BY <1>1, <1>2 DEF TypeOK, OverHandlers
  <2>5. QED
    BY <1>1, <1>2, <1>3, <1>4, <1>5, <2>2, <2>3, <2>4 DEF TypeOK
<1>7. \A m \in minted' : GrantOK(m)
  BY <1>2 DEF IInv
<1>8. ASSUME NEW h \in Handlers PROVE HandlerOK(h)'
  <2>1. CASE h # g
    <3>1. HandlerOK(h)
      BY DEF IInv
    <3>2. QED
      BY <3>1, <2>1, <1>2, <1>3, <1>4, <1>5, HandlerFrame
  <2>2. CASE h = g
    <3>1. out.kind = "Allow" => Granted(g)'
      BY <1>2, <1>4 DEF Granted
    <3>2. out.reason = "decision_token_reuse" => ReusedInTime(g)'
      BY <1>2, <1>4 DEF ReusedInTime
    <3>3. QED
      BY <2>2, <3>1, <3>2, <1>2, <1>3, <1>4, <1>5 DEF HandlerOK
  <2>3. QED
    BY <2>1, <2>2
<1>9. QED
  BY <1>6, <1>7, <1>8 DEF IInv, GrantOK

\* Climbing one rung preserves the invariant if the rung was passed.
LEMMA GotoStep ==
  ASSUME IInv, NEW g \in Handlers, NEW label \in {"l1", "revocation", "l2", "calling"},
         Goto(g, label), resp' = resp,
         pc[g] \in {"l0", "l1", "revocation", "l2"},
         triedAt' \in [Handlers -> 0 .. MaxTime],
         \A h \in Handlers \ {g} : triedAt'[h] = triedAt[h],
         Profile = ProfileEastWest => peerIdentity(in[g]) \in SpiffeIDs,
         label # "l1" => Matches(in[g]) # {},
         blocked[g] /\ label \in {"l1", "revocation"} =>
           CAEPEnabled /\ in[g].subject \in revoked,
         blocked[g] /\ label \in {"l2", "calling"} => in[g].subject = ""
  PROVE  IInv'
<1>1. TypeOK
  BY DEF IInv
<1>2. /\ pc' = [pc EXCEPT ![g] = label]
      /\ UNCHANGED <<in, tok, outcome, reply, held, revoked, distrusted, now, minted, blocked>>
  BY DEF Goto
<1>3. /\ pc'[g] = label
      /\ \A h \in Handlers \ {g} : pc'[h] = pc[h]
      /\ pc' \in [Handlers -> Labels]
  BY <1>1, <1>2 DEF TypeOK, Labels
<1>4. TypeOK'
  BY <1>1, <1>2, <1>3 DEF TypeOK, MintedTokens, OverHandlers
<1>5. \A m \in minted' : GrantOK(m)
  BY <1>2 DEF IInv
<1>6. ASSUME NEW h \in Handlers PROVE HandlerOK(h)'
  <2>0. HandlerOK(h)
    BY DEF IInv
  <2>1. CASE h # g
    BY <2>0, <2>1, <1>2, <1>3, HandlerFrame
  <2>2. CASE h = g
    <3>1. outcome[g] = NoOutcome /\ resp[g] = NoResponse
      BY <2>0, <2>2 DEF HandlerOK
    <3>2. NoOutcome.kind = "None" /\ NoOutcome.reason = ""
      BY DEF NoOutcome, Deny, Outcome
    <3>3. QED
      BY <2>2, <3>1, <3>2, <1>2, <1>3 DEF HandlerOK
  <2>3. QED
    BY <2>1, <2>2
<1>7. QED
  BY <1>4, <1>5, <1>6 DEF IInv, GrantOK

-----------------------------------------------------------------------------
(* The steps of one handler.                                               *)

\* A request arrives with any issued token: blocked is set only if its subject is in the cache.
LEMMA AdmitStep ==
  ASSUME IInv, NEW g \in Handlers, NEW r \in Inbound,
         NEW t \in MintedTokens \cup {NoToken, BadToken},
         /\ in' = [in EXCEPT ![g] = r]
         /\ tok' = [tok EXCEPT ![g] = t]
         /\ blocked' = [blocked EXCEPT ![g] = CAEPEnabled /\ r.subject \in revoked],
         /\ pc[g] = "idle"
         /\ pc' = [pc EXCEPT ![g] = "l0"]
         /\ reply' = [reply EXCEPT ![g] = NoReply]
         /\ UNCHANGED <<resp, outcome, held, revoked, distrusted, now, minted, triedAt>>
  PROVE  IInv'
<1>1. TypeOK /\ HandlerOK(g)
  BY DEF IInv
<1>2. /\ in' = [in EXCEPT ![g] = r]
      /\ tok' = [tok EXCEPT ![g] = t]
      /\ blocked' = [blocked EXCEPT ![g] = CAEPEnabled /\ r.subject \in revoked]
  OBVIOUS
<1>3. /\ pc[g] = "idle"
      /\ pc' = [pc EXCEPT ![g] = "l0"]
      /\ reply' = [reply EXCEPT ![g] = NoReply]
      /\ UNCHANGED <<resp, outcome, held, revoked, distrusted, now, minted, triedAt>>
  OBVIOUS
<1>4. /\ pc'[g] = "l0" /\ in'[g] = r
      /\ \A h \in Handlers \ {g} : pc'[h] = pc[h] /\ in'[h] = in[h]
      /\ pc' \in [Handlers -> Labels]
      /\ in' \in [Handlers -> Inbound \cup {NoInbound}]
  BY <1>1, <1>2, <1>3 DEF TypeOK, Labels
<1>5. /\ blocked'[g] => CAEPEnabled /\ r.subject \in revoked
      /\ \A h \in Handlers \ {g} : blocked'[h] = blocked[h]
      /\ blocked' \in [Handlers -> BOOLEAN]
  BY <1>1, <1>2 DEF TypeOK
<1>6. TypeOK'
  <2>1. tok' \in [Handlers -> MintedTokens \cup {NoToken, BadToken}]
    BY <1>1, <1>2 DEF TypeOK
  <2>2. OverHandlers(reply)'
    BY <1>1, <1>3 DEF TypeOK, OverHandlers
  <2>3. QED
    BY <1>1, <1>3, <1>4, <1>5, <2>1, <2>2 DEF TypeOK, MintedTokens, OverHandlers
<1>7. \A m \in minted' : GrantOK(m)
  BY <1>3 DEF IInv
<1>8. ASSUME NEW h \in Handlers PROVE HandlerOK(h)'
  <2>0. HandlerOK(h)
    BY DEF IInv
  <2>1. CASE h # g
    BY <2>0, <2>1, <1>3, <1>4, <1>5, HandlerFrame
  <2>2. CASE h = g
    <3>1. outcome[g] = NoOutcome /\ resp[g] = NoResponse
      BY <1>1, <1>3 DEF HandlerOK
    <3>2. NoOutcome.kind = "None" /\ NoOutcome.reason = ""
      BY DEF NoOutcome, Deny, Outcome
    <3>3. QED
      BY <2>2, <3>1, <3>2, <1>3, <1>4, <1>5 DEF HandlerOK
  <2>3. QED
    BY <2>1, <2>2
<1>9. QED
  BY <1>6, <1>7, <1>8 DEF IInv, GrantOK

\* A client's request comes with a token it was given.
LEMMA ArriveStep ==
  ASSUME IInv, NEW g \in Handlers, Arrive(g)
  PROVE  IInv'
<1>1. held \subseteq MintedTokens
  BY DEF IInv, TypeOK
<1>2. PICK r \in Inbound, t \in held \cup {NoToken, BadToken} :
        /\ in' = [in EXCEPT ![g] = r]
        /\ tok' = [tok EXCEPT ![g] = t]
        /\ blocked' = [blocked EXCEPT ![g] = CAEPEnabled /\ r.subject \in revoked]
  BY DEF Arrive
<1>3. t \in MintedTokens \cup {NoToken, BadToken}
  BY <1>1
<1>4. QED
  BY <1>2, <1>3, AdmitStep DEF Arrive

\* The L0 rung: in the east-west profile only an attested caller passes it.
LEMMA CheckL0Step ==
  ASSUME IInv, NEW g \in Handlers, CheckL0(g)
  PROVE  IInv'
<1>1. TypeOK /\ HandlerOK(g)
  BY DEF IInv
<1>2. pc[g] = "l0" /\ resp' = resp /\ triedAt' = triedAt /\ resp[g] = NoResponse
  BY <1>1 DEF CheckL0, HandlerOK
<1>3. triedAt \in [Handlers -> 0 .. MaxTime]
  BY <1>1 DEF TypeOK
<1>4. CASE \E reason \in {"l0_no_peer_svid", "l0_peer_not_attested"} :
             Return(g, Deny("DropL0", reason))
  <2>1. PICK reason \in {"l0_no_peer_svid", "l0_peer_not_attested"} :
          Return(g, Deny("DropL0", reason))
    BY <1>4
  <2>2. LET out == Deny("DropL0", reason) IN
          out.kind = "DropL0" /\ out.tok = NoToken /\ out.reason # "decision_token_reuse"
    BY DEF Deny, Outcome
  <2>3. QED
    BY <1>2, <1>3, <2>1, <2>2, ReturnStep DEF Kinds
<1>5. CASE Goto(g, "l1") /\ (Profile = ProfileEastWest => peerIdentity(in[g]) \in SpiffeIDs)
  BY <1>1, <1>2, <1>3, <1>5, GotoStep DEF HandlerOK
<1>6. QED
  BY <1>4, <1>5 DEF CheckL0, Attested

\* The L1 rung: only a request on the route table passes it.
LEMMA CheckL1Step ==
  ASSUME IInv, NEW g \in Handlers, CheckL1(g)
  PROVE  IInv'
<1>1. TypeOK /\ HandlerOK(g)
  BY DEF IInv
<1>2. pc[g] = "l1" /\ resp' = resp /\ triedAt' = triedAt /\ resp[g] = NoResponse
  BY <1>1 DEF CheckL1, HandlerOK
<1>3. triedAt \in [Handlers -> 0 .. MaxTime]
  BY <1>1 DEF TypeOK
<1>4. CASE Return(g, Deny("DenyRoute", "l1_route_not_permitted"))
  <2>1. LET out == Deny("DenyRoute", "l1_route_not_permitted") IN
          out.kind = "DenyRoute" /\ out.tok = NoToken /\ out.reason # "decision_token_reuse"
    BY DEF Deny, Outcome
  <2>2. QED
    BY <1>2, <1>3, <1>4, <2>1, ReturnStep DEF Kinds
<1>5. CASE Goto(g, "revocation") /\ Matches(in[g]) # {}
  BY <1>1, <1>2, <1>3, <1>5, GotoStep DEF HandlerOK
<1>6. QED
  BY <1>4, <1>5 DEF CheckL1

\* The revocation check: a blocked request that passes it has no subject.
LEMMA CheckRevocationStep ==
  ASSUME IInv, NEW g \in Handlers, CheckRevocation(g)
  PROVE  IInv'
<1>1. TypeOK /\ HandlerOK(g)
  BY DEF IInv
<1>2. pc[g] = "revocation" /\ resp' = resp /\ triedAt' = triedAt /\ resp[g] = NoResponse
  BY <1>1 DEF CheckRevocation, HandlerOK
<1>3. triedAt \in [Handlers -> 0 .. MaxTime]
  BY <1>1 DEF TypeOK
<1>4. CASE Return(g, Deny("DenyForbidden", "session_revoked"))
  <2>1. LET out == Deny("DenyForbidden", "session_revoked") IN
          out.kind = "DenyForbidden" /\ out.tok = NoToken /\ out.reason # "decision_token_reuse"
    BY DEF Deny, Outcome
  <2>2. QED
    BY <1>2, <1>3, <1>4, <2>1, ReturnStep DEF Kinds
<1>5. CASE Goto(g, "l2") /\ ~IsRevoked(in[g].subject)
  <2>1. blocked[g] => in[g].subject = ""
    BY <1>1, <1>2, <1>5 DEF HandlerOK, IsRevoked
  <2>2. QED
    BY <1>1, <1>2, <1>3, <1>5, <2>1, GotoStep DEF HandlerOK
<1>6. QED
  BY <1>4, <1>5 DEF CheckRevocation

\* A token that tryDecisionToken accepts was minted for this tuple, at no higher
\* assurance, and is within its lifetime by the PEP's clock.
LEMMA ReuseSound ==
  ASSUME IInv, NEW g \in Handlers,
         tryDecisionToken(tok[g], buildRequest(in[g]), now - Skew)
  PROVE  \E m \in minted : /\ m.tok = tok[g]
                           /\ Eval(m.req).allow
                           /\ SameTuple(m.req, buildRequest(in[g]))
                           /\ now < m.at + TTL + Skew
<1>1. TypeOK
  BY DEF IInv
<1>2. Verify(tok[g], now - Skew) /\ Covers(tok[g], buildRequest(in[g]))
  BY DEF tryDecisionToken
<1>3. tok[g] \in MintedTokens
  BY <1>1, <1>2, VerifiedIsSigned DEF TypeOK
<1>4. PICK m \in minted : m.tok = tok[g]
  BY <1>3 DEF MintedTokens
<1>5. GrantOK(m)
  BY DEF IInv
<1>6. m.tok = Issue(m.req, m.at) /\ Eval(m.req).allow /\ m.at \in 0 .. MaxTime
  BY <1>5 DEF GrantOK
<1>7. SameTuple(m.req, buildRequest(in[g]))
  BY <1>2, <1>4, <1>6, CoversSameTuple
<1>8. now - Skew < m.at + TTL
  <2>1. now \in Int /\ Skew \in Nat /\ m.at \in Nat /\ now - Skew \in Int
    BY <1>1, <1>6, PEPAssumption DEF TypeOK
  <2>2. Verify(Issue(m.req, m.at), now - Skew)
    BY <1>2, <1>4, <1>6
  <2>3. QED
    BY <2>1, <2>2, VerifyBeforeExpiry
<1>9. now < m.at + TTL + Skew
  BY <1>1, <1>6, <1>8, PEPAssumption, TokenAssumption DEF TypeOK
<1>10. QED
  BY <1>4, <1>6, <1>7, <1>9

\* The L2 rung: a token that is accepted was minted for this tuple and is within
\* its lifetime by the PEP's clock.
LEMMA CheckL2Step ==
  ASSUME IInv, NEW g \in Handlers, CheckL2(g)
  PROVE  IInv'
<1> DEFINE req == buildRequest(in[g])
<1>1. TypeOK /\ HandlerOK(g)
  BY DEF IInv
<1>2. /\ pc[g] = "l2" /\ resp' = resp /\ resp[g] = NoResponse
      /\ triedAt' = [triedAt EXCEPT ![g] = now]
  BY <1>1 DEF CheckL2, HandlerOK
<1>3. /\ triedAt' \in [Handlers -> 0 .. MaxTime]
      /\ triedAt'[g] = now
      /\ \A h \in Handlers \ {g} : triedAt'[h] = triedAt[h]
  BY <1>1, <1>2 DEF TypeOK
<1>4. /\ Profile = ProfileEastWest => peerIdentity(in[g]) \in SpiffeIDs
      /\ Matches(in[g]) # {}
      /\ blocked[g] => in[g].subject = ""
  BY <1>1, <1>2 DEF HandlerOK
<1>5. CASE Return(g, Deny("DenyForbidden", "l2_request_build_failed"))
  <2>1. LET out == Deny("DenyForbidden", "l2_request_build_failed") IN
          out.kind = "DenyForbidden" /\ out.tok = NoToken /\ out.reason # "decision_token_reuse"
    BY DEF Deny, Outcome
  <2>2. QED
    BY <1>2, <1>3, <1>5, <2>1, ReturnStep DEF Kinds
<1>6. CASE /\ Return(g, Outcome("Allow", "decision_token_reuse", "", tok[g]))
           /\ tryDecisionToken(tok[g], req, now - Skew)
  <2> DEFINE out == Outcome("Allow", "decision_token_reuse", "", tok[g])
  <2>1. out.kind = "Allow" /\ out.tok = tok[g] /\ out.reason = "decision_token_reuse"
    BY DEF Outcome
  <2>2. PICK m \in minted : /\ m.tok = tok[g]
                            /\ Eval(m.req).allow
                            /\ SameTuple(m.req, req)
                            /\ now < m.at + TTL + Skew
    BY <1>6, ReuseSound
  <2>3. tok[g] \in MintedTokens
    BY <2>2 DEF MintedTokens
  <2>4. out.kind = "Allow" =>
          \E mm \in minted : /\ mm.tok = out.tok
                             /\ Eval(mm.req).allow
                             /\ SameTuple(mm.req, buildRequest(in[g]))
    BY <2>1, <2>2
  <2>5. \E mm \in minted : mm.tok = out.tok /\ triedAt'[g] < mm.at + TTL + Skew
    BY <1>3, <2>1, <2>2
  <2>6. out.kind \in Kinds /\ out.tok \in MintedTokens \cup {NoToken}
    BY <2>1, <2>3 DEF Kinds
  <2> HIDE DEF out
  <2>7. Return(g, out)
    BY <1>6 DEF out
  <2>8. QED
    BY <1>2, <1>3, <1>4, <2>4, <2>5, <2>6, <2>7, ReturnStep
<1>7. CASE Goto(g, "calling")
  BY <1>2, <1>3, <1>4, <1>7, GotoStep
<1>8. QED
  BY <1>5, <1>6, <1>7 DEF CheckL2

\* A failed call returns a denial.
LEMMA CallFailsStep ==
  ASSUME IInv, NEW g \in Handlers, CallFails(g)
  PROVE  IInv'
<1>1. triedAt \in [Handlers -> 0 .. MaxTime] /\ triedAt' = triedAt
  BY DEF IInv, TypeOK, CallFails
<1>2. LET out == Deny("DenyForbidden", "l2_pdp_unavailable") IN
        out.kind = "DenyForbidden" /\ out.tok = NoToken /\ out.reason # "decision_token_reuse"
  BY DEF Deny, Outcome
<1>3. QED
  BY <1>1, <1>2, ReturnStep DEF CallFails, Kinds

\* A response allows only what the PDP granted to this very request.
LEMMA CallReturnsStep ==
  ASSUME IInv, NEW g \in Handlers, CallReturns(g)
  PROVE  IInv'
<1> DEFINE req == Wire(buildRequest(in[g]))
           out == IF resp[g].err = "error"
                  THEN Deny("DenyForbidden", "l2_pdp_unavailable")
                  ELSE classify(resp[g])
<1>1. TypeOK /\ HandlerOK(g)
  BY DEF IInv
<1>2. /\ pc[g] = "calling" /\ resp[g] # NoResponse
      /\ Return(g, out)
      /\ resp' = [resp EXCEPT ![g] = NoResponse]
      /\ triedAt' = triedAt
  BY DEF CallReturns
<1>3. PICK t \in 0 .. MaxTime :
        /\ resp[g] = Evaluate(req, t)
        /\ resp[g].decision => [tok |-> resp[g].tok, req |-> req, at |-> t] \in minted
  BY <1>1, <1>2 DEF HandlerOK, ResponseOK
<1>4. /\ Profile = ProfileEastWest => peerIdentity(in[g]) \in SpiffeIDs
      /\ Matches(in[g]) # {}
      /\ blocked[g] => in[g].subject = ""
  BY <1>1, <1>2 DEF HandlerOK
<1>5. CASE resp[g].decision
  <2>1. /\ Eval(req).allow /\ resp[g].err # "error"
        /\ resp[g].reason # "decision_token_reuse"
    BY <1>3, <1>5, EvaluateFacts
  <2>2. out.kind = "Allow" /\ out.tok = resp[g].tok /\ out.reason # "decision_token_reuse"
    BY <1>5, <2>1, ClassifyFacts
  <2>3. PICK m \in minted : m = [tok |-> resp[g].tok, req |-> req, at |-> t]
    BY <1>3, <1>5
  <2>4. m.tok = out.tok /\ m.req = req
    BY <2>2, <2>3
  <2>5. SameTuple(m.req, buildRequest(in[g]))
    BY <2>4, WireSameTuple
  <2>6. Eval(m.req).allow
    BY <2>1, <2>4
  <2> HIDE DEF out, req
  <2>7. out.kind \in Kinds /\ out.tok \in MintedTokens \cup {NoToken}
    BY <2>2, <2>4 DEF Kinds, MintedTokens
  <2>8. triedAt \in [Handlers -> 0 .. MaxTime]
    BY <1>1 DEF TypeOK
  <2>9. QED
    BY <1>2, <1>4, <2>2, <2>4, <2>5, <2>6, <2>7, <2>8, ReturnStep
<1>6. CASE ~resp[g].decision
  <2>1. resp[g].reason # "decision_token_reuse"
    BY <1>3, EvaluateFacts
  <2>2. /\ out.kind \in {"DenyStepUp", "DenyForbidden"}
        /\ out.tok = NoToken /\ out.reason # "decision_token_reuse"
    <3>1. LET d == Deny("DenyForbidden", "l2_pdp_unavailable") IN
            d.kind = "DenyForbidden" /\ d.tok = NoToken /\ d.reason # "decision_token_reuse"
      BY DEF Deny, Outcome
    <3>2. /\ classify(resp[g]).kind \in {"DenyStepUp", "DenyForbidden"}
          /\ classify(resp[g]).tok = NoToken
          /\ classify(resp[g]).reason # "decision_token_reuse"
      BY <1>6, <2>1, ClassifyFacts
    <3>3. QED
      BY <3>1, <3>2
  <2> HIDE DEF out, req
  <2>3. triedAt \in [Handlers -> 0 .. MaxTime]
    BY <1>1 DEF TypeOK
  <2>4. QED
    BY <1>2, <2>2, <2>3, ReturnStep DEF Kinds
<1>7. QED
  BY <1>5, <1>6

\* The answer hands out only tokens on record; the handler starts afresh.
LEMMA RespondStep ==
  ASSUME IInv, NEW g \in Handlers, Respond(g)
  PROVE  IInv'
<1>1. TypeOK /\ HandlerOK(g)
  BY DEF IInv
<1>2. /\ pc[g] = "enforce"
      /\ pc' = [pc EXCEPT ![g] = "idle"]
      /\ in' = [in EXCEPT ![g] = NoInbound]
      /\ tok' = [tok EXCEPT ![g] = NoToken]
      /\ outcome' = [outcome EXCEPT ![g] = NoOutcome]
      /\ blocked' = [blocked EXCEPT ![g] = FALSE]
      /\ triedAt' = [triedAt EXCEPT ![g] = 0]
      /\ held' = held \cup Echoed(g)
      /\ UNCHANGED <<resp, revoked, distrusted, now, minted>>
  BY DEF Respond
<1>3. PICK answer : reply' = [reply EXCEPT ![g] = answer]
  BY DEF Respond
<1>4. NoOutcome.kind = "None" /\ NoOutcome.tok = NoToken /\ NoOutcome.reason = ""
  BY DEF NoOutcome, Deny, Outcome
<1>5. /\ pc'[g] = "idle" /\ outcome'[g] = NoOutcome
      /\ \A h \in Handlers \ {g} :
           /\ pc'[h] = pc[h] /\ in'[h] = in[h] /\ outcome'[h] = outcome[h]
           /\ triedAt'[h] = triedAt[h]
  BY <1>1, <1>2 DEF TypeOK, OverHandlers
<1>6. ~blocked'[g] /\ \A h \in Handlers \ {g} : blocked'[h] = blocked[h]
  BY <1>1, <1>2 DEF TypeOK
<1>7. TypeOK'
  <2>1. Echoed(g) \subseteq MintedTokens
    BY <1>1 DEF Echoed, HandlerOK, Granted, MintedTokens
  <2>2. held' \subseteq MintedTokens
    BY <1>1, <1>2, <2>1 DEF TypeOK
  <2>3. OverHandlers(reply)' /\ OverHandlers(outcome)' /\ OverHandlers(resp)'
    BY <1>1, <1>2, <1>3 DEF TypeOK, OverHandlers
  <2>4. /\ pc' \in [Handlers -> Labels]
        /\ in' \in [Handlers -> Inbound \cup {NoInbound}]
        /\ tok' \in [Handlers -> MintedTokens \cup {NoToken, BadToken}]
        /\ blocked' \in [Handlers -> BOOLEAN]
        /\ triedAt' \in [Handlers -> 0 .. MaxTime]
    BY <1>1, <1>2, PEPAssumption DEF TypeOK, Labels
  <2>5. \A h \in Handlers : /\ outcome'[h].kind \in Kinds
                            /\ outcome'[h].tok \in MintedTokens \cup {NoToken}
    BY <1>1, <1>4, <1>5 DEF TypeOK, Kinds
  <2>6. MintedTokens' = MintedTokens
    BY <1>2 DEF MintedTokens
  <2>7. QED
    BY <1>1, <1>2, <2>2, <2>3, <2>4, <2>5, <2>6 DEF TypeOK
<1>8. \A m \in minted' : GrantOK(m)
  BY <1>2 DEF IInv
<1>9. ASSUME NEW h \in Handlers PROVE HandlerOK(h)'
  <2>0. HandlerOK(h)
    BY DEF IInv
  <2>1. CASE h # g
    BY <2>0, <2>1, <1>2, <1>5, <1>6, HandlerFrame
  <2>2. CASE h = g
    <3>1. resp'[g] = NoResponse
      BY <1>1, <1>2 DEF HandlerOK
    <3>2. QED
      BY <2>2, <3>1, <1>4, <1>5, <1>6 DEF HandlerOK
  <2>3. QED
    BY <2>1, <2>2
<1>10. QED
  BY <1>7, <1>8, <1>9 DEF IInv, GrantOK

\* What Minted puts on record is a sound grant.
LEMMA MintedSound ==
  ASSUME IInv, NEW req, NEW m \in Minted(req, Evaluate(req, now), now)
  PROVE  GrantOK(m) /\ m.at \in 0 .. MaxTime
<1>1. /\ m = [tok |-> Evaluate(req, now).tok, req |-> req, at |-> now]
      /\ Evaluate(req, now).decision
  BY DEF Minted
<1>2. m.tok = Evaluate(req, now).tok /\ m.req = req /\ m.at = now
  BY <1>1
<1>3. now \in 0 .. MaxTime
  BY DEF IInv, TypeOK
<1>4. /\ Validate(req) /\ Eval(req).allow /\ Evaluate(req, now).tok = Issue(req, now)
  BY <1>1, EvaluateFacts
<1>5. QED
  BY <1>2, <1>3, <1>4 DEF GrantOK

\* The PDP answers: the response pending for g is the PDP's, and on record.
LEMMA PDPEvaluatesStep ==
  ASSUME IInv, NEW g \in Handlers, PDPEvaluates(g)
  PROVE  IInv'
<1> DEFINE req    == Wire(buildRequest(in[g]))
           answer == Evaluate(req, now)
<1>1. TypeOK /\ HandlerOK(g)
  BY DEF IInv
<1>2. /\ pc[g] = "calling"
      /\ resp' = [resp EXCEPT ![g] = answer]
      /\ minted' = minted \cup Minted(req, answer, now)
      /\ UNCHANGED <<pc, in, tok, outcome, reply, held, revoked, distrusted, now,
                     blocked, triedAt>>
  BY DEF PDPEvaluates, Record
<1>3. /\ resp'[g] = answer
      /\ \A h \in Handlers \ {g} : resp'[h] = resp[h]
      /\ OverHandlers(resp)'
  BY <1>1, <1>2 DEF TypeOK, OverHandlers
<1>4. MintedTokens \subseteq MintedTokens'
  BY <1>2 DEF MintedTokens
<1>5. answer.decision => [tok |-> answer.tok, req |-> req, at |-> now] \in minted'
  BY <1>2 DEF Minted
<1>6. answer.tok \in MintedTokens' \cup {NoToken}
  <2>1. CASE answer.decision
    <3>1. PICK m \in minted' : m = [tok |-> answer.tok, req |-> req, at |-> now]
      BY <1>5, <2>1
    <3>2. m.tok = answer.tok
      BY <3>1
    <3>3. QED
      BY <3>2 DEF MintedTokens
  <2>2. CASE ~answer.decision
    BY <2>2, EvaluateFacts
  <2>3. QED
    BY <2>1, <2>2
<1> HIDE DEF answer
<1>7. \A m \in minted' : GrantOK(m) /\ m.at \in 0 .. MaxTime
  <2>1. \A m \in minted : GrantOK(m) /\ m.at \in 0 .. MaxTime
    BY DEF IInv, GrantOK
  <2>2. \A m \in Minted(req, answer, now) : GrantOK(m) /\ m.at \in 0 .. MaxTime
    BY MintedSound DEF answer
  <2>3. QED
    BY <1>2, <2>1, <2>2
<1>8. TypeOK'
  <2>1. \A h \in Handlers : resp'[h].tok \in MintedTokens' \cup {NoToken}
    BY <1>1, <1>3, <1>4, <1>6 DEF TypeOK
  <2>2. OverHandlers(outcome)' /\ OverHandlers(reply)'
    BY <1>1, <1>2 DEF TypeOK, OverHandlers
  <2>3. QED
    BY <1>1, <1>2, <1>3, <1>4, <1>7, <2>1, <2>2 DEF TypeOK
<1>9. ASSUME NEW h \in Handlers PROVE HandlerOK(h)'
  <2>0. HandlerOK(h) /\ minted \subseteq minted'
    BY <1>2 DEF IInv
  <2>1. CASE h # g
    BY <2>0, <2>1, <1>2, <1>3, HandlerFrame
  <2>2. CASE h = g
    <3>1. ResponseOK(g)'
      <4>1. now \in 0 .. MaxTime
        BY <1>1 DEF TypeOK
      <4>2. resp'[g] = Evaluate(Wire(buildRequest(in'[g])), now)
        BY <1>2, <1>3 DEF answer
      <4>3. resp'[g].decision =>
              [tok |-> resp'[g].tok, req |-> Wire(buildRequest(in'[g])), at |-> now] \in minted'
        BY <1>2, <1>3, <1>5
      <4>4. QED
        BY <4>1, <4>2, <4>3 DEF ResponseOK
    <3>2. Granted(g) => Granted(g)'
      BY <1>2 DEF Granted
    <3>3. ReusedInTime(g) => ReusedInTime(g)'
      BY <1>2 DEF ReusedInTime
    <3>4. QED
      BY <2>0, <2>2, <3>1, <3>2, <3>3, <1>2, <1>3 DEF HandlerOK
  <2>3. QED
    BY <2>1, <2>2
<1>10. QED
  BY <1>7, <1>8, <1>9 DEF IInv, GrantOK

-----------------------------------------------------------------------------
(* The steps around the handlers.                                          *)

\* Events at the cache and at the attestor.
LEMMA EventStep ==
  ASSUME IInv,
         \/ \E s \in EventSubjects : Revoke(s) \/ Restore(s)
         \/ \E id \in Revocable : DistrustSVID(id)
  PROVE  IInv'
<1>1. TypeOK
  BY DEF IInv
<1>2. UNCHANGED <<pc, in, tok, resp, outcome, reply, triedAt, held, now, minted>>
  BY DEF Revoke, Restore, DistrustSVID, handlerVars
<1>3. revoked' \subseteq EventSubjects /\ distrusted' \subseteq Revocable
  BY <1>1 DEF TypeOK, Revoke, Restore, DistrustSVID
<1>4. \A h \in Handlers : /\ blocked'[h] => blocked[h]
                          /\ blocked'[h] /\ in[h].subject \in revoked => in[h].subject \in revoked'
  <2>1. CASE \E s \in EventSubjects : Revoke(s)
    BY <2>1 DEF Revoke
  <2>2. CASE \E s \in EventSubjects : Restore(s)
    BY <2>2 DEF Restore
  <2>3. CASE \E id \in Revocable : DistrustSVID(id)
    BY <2>3 DEF DistrustSVID
  <2>4. QED
    BY <2>1, <2>2, <2>3
<1>5. blocked' \in [Handlers -> BOOLEAN]
  <2>1. CASE blocked' = blocked
    BY <1>1, <2>1 DEF TypeOK
  <2>2. CASE \E s \in EventSubjects :
               blocked' = [h \in Handlers |-> blocked[h] /\ in[h].subject # s]
    BY <2>2
  <2>3. QED
    BY <2>1, <2>2 DEF Revoke, Restore, DistrustSVID
<1>6. TypeOK'
  BY <1>1, <1>2, <1>3, <1>5 DEF TypeOK, MintedTokens, OverHandlers
<1>7. \A m \in minted' : GrantOK(m)
  BY <1>2 DEF IInv
<1>8. ASSUME NEW h \in Handlers PROVE HandlerOK(h)'
  <2>1. HandlerOK(h)
    BY DEF IInv
  <2>2. QED
    BY <2>1, <1>2, <1>4, HandlerFrame
<1>9. QED
  BY <1>6, <1>7, <1>8 DEF IInv, GrantOK

\* Time passes, other PEPs' grants go on record and their tokens reach clients: the
\* handlers keep their guarantees.
LEMMA SurroundingsStep ==
  ASSUME IInv, UNCHANGED handlerVars, UNCHANGED <<revoked, distrusted, blocked>>,
         now' \in 0 .. MaxTime, minted \subseteq minted',
         \A m \in minted' : GrantOK(m),
         held' \subseteq MintedTokens'
  PROVE  IInv'
<1>1. TypeOK
  BY DEF IInv
<1>2. UNCHANGED <<pc, in, tok, resp, outcome, reply, triedAt, revoked, distrusted, blocked>>
  BY DEF handlerVars
<1>4. \A m \in minted' : GrantOK(m) /\ m.at \in 0 .. MaxTime
  BY DEF GrantOK
<1>5. MintedTokens \subseteq MintedTokens'
  BY DEF MintedTokens
<1>6. TypeOK'
  <2>1. OverHandlers(outcome)' /\ OverHandlers(reply)' /\ OverHandlers(resp)'
    BY <1>1, <1>2 DEF TypeOK, OverHandlers
  <2>2. QED
    BY <1>1, <1>2, <1>4, <1>5, <2>1 DEF TypeOK
<1>7. ASSUME NEW h \in Handlers PROVE HandlerOK(h)'
  <2>1. HandlerOK(h)
    BY DEF IInv
  <2>2. QED
    BY <2>1, <1>2, HandlerFrame
<1>8. QED
  BY <1>4, <1>6, <1>7 DEF IInv, GrantOK

\* A decision for another PEP adds a sound grant to the record.
LEMMA ForeignDecisionStep ==
  ASSUME IInv, NEW req \in ForeignRequests, ForeignDecision(req)
  PROVE  IInv'
<1> DEFINE issued == Minted(req, Evaluate(req, now), now)
<1>1. /\ minted' = minted \cup issued
      /\ held' = held \cup {m.tok : m \in issued}
      /\ UNCHANGED <<handlerVars, revoked, distrusted, now, blocked>>
  BY DEF ForeignDecision, Record
<1>2. \A m \in issued : GrantOK(m)
  BY MintedSound
<1> HIDE DEF issued
<1>3. now' \in 0 .. MaxTime /\ held' \subseteq MintedTokens'
  BY <1>1 DEF IInv, TypeOK, MintedTokens
<1>4. QED
  BY <1>1, <1>2, <1>3, SurroundingsStep DEF IInv

\* Time passes.
LEMMA TickStep ==
  ASSUME IInv, Tick
  PROVE  IInv'
<1>1. TypeOK /\ now < MaxTime /\ now' = now + 1
  BY DEF IInv, Tick
<1>2. now' \in 0 .. MaxTime /\ held' \subseteq MintedTokens'
  BY <1>1, PEPAssumption DEF Tick, TypeOK, MintedTokens
<1>3. QED
  BY <1>2, SurroundingsStep DEF IInv, Tick

\* A restart forgets the requests and the cache, not the tokens in clients' hands.
LEMMA RestartStep ==
  ASSUME IInv, Restart
  PROVE  IInv'
<1>1. TypeOK
  BY DEF IInv
<1>2. NoOutcome.kind = "None" /\ NoOutcome.tok = NoToken /\ NoOutcome.reason = ""
  BY DEF NoOutcome, Deny, Outcome
<1>3. NoResponse.tok = NoToken
  BY DEF NoResponse, Response
<1>4. TypeOK'
  <2>1. \A h \in Handlers : /\ outcome'[h].kind \in Kinds
                            /\ outcome'[h].tok = NoToken
                            /\ resp'[h].tok = NoToken
    BY <1>2, <1>3 DEF Restart, Kinds
  <2>2. OverHandlers(resp)' /\ OverHandlers(outcome)' /\ OverHandlers(reply)'
    BY DEF Restart, OverHandlers
  <2>3. pc' \in [Handlers -> Labels] /\ blocked' \in [Handlers -> BOOLEAN]
    BY DEF Restart, Labels
  <2>4. triedAt' \in [Handlers -> 0 .. MaxTime]
    BY PEPAssumption DEF Restart
  <2>5. QED
    BY <1>1, <2>1, <2>2, <2>3, <2>4 DEF Restart, TypeOK, MintedTokens
<1>5. \A h \in Handlers : HandlerOK(h)'
  BY <1>2 DEF Restart, HandlerOK
<1>6. minted' = minted
  BY DEF Restart
<1>7. QED
  BY <1>4, <1>5, <1>6 DEF IInv, GrantOK

-----------------------------------------------------------------------------
(* The theorems.                                                           *)

\* Every step keeps the ladder's invariant.
LEMMA NextIInv == IInv /\ [Next]_vars => IInv'
<1> SUFFICES ASSUME IInv, [Next]_vars PROVE IInv'
  OBVIOUS
<1>1. ASSUME NEW h \in Handlers,
             \/ Arrive(h) \/ CheckL0(h) \/ CheckL1(h) \/ CheckRevocation(h) \/ CheckL2(h)
             \/ PDPEvaluates(h) \/ CallReturns(h) \/ CallFails(h) \/ Respond(h)
      PROVE  IInv'
  BY <1>1, ArriveStep, CheckL0Step, CheckL1Step, CheckRevocationStep, CheckL2Step,
     PDPEvaluatesStep, CallReturnsStep, CallFailsStep, RespondStep
<1>2. CASE \/ \E s \in EventSubjects : Revoke(s) \/ Restore(s)
           \/ \E id \in Revocable : DistrustSVID(id)
  BY <1>2, EventStep
<1>3. CASE \E req \in ForeignRequests : ForeignDecision(req)
  BY <1>3, ForeignDecisionStep
<1>4. CASE Tick
  BY <1>4, TickStep
<1>5. CASE Restart
  BY <1>5, RestartStep
<1>6. CASE UNCHANGED vars
  <2>1. UNCHANGED <<pc, in, tok, resp, outcome, reply, held, revoked, distrusted, now,
                    minted, blocked, triedAt>>
    BY <1>6 DEF vars
  <2>2. TypeOK'
    BY <2>1 DEF IInv, TypeOK, MintedTokens, OverHandlers
  <2>3. ASSUME NEW h \in Handlers PROVE HandlerOK(h)'
    <3>1. HandlerOK(h)
      BY DEF IInv
    <3>2. QED
      BY <2>1, <3>1, HandlerFrame
  <2>4. QED
    BY <2>1, <2>2, <2>3 DEF IInv, GrantOK
<1>7. QED
  BY <1>1, <1>2, <1>3, <1>4, <1>5, <1>6 DEF Next

\* The ladder's invariant (what each rung of Check has established, and that
\* every token ever issued stands for a valid, granted request) always holds.
THEOREM LadderInvariant == Spec => []IInv
<1>1. Init => IInv
  BY InitIInv
<1>2. IInv /\ [Next]_vars => IInv'
  BY NextIInv
<1>3. QED
  BY <1>1, <1>2, PTL DEF Spec

\* Type correctness; in particular no token reaches a client, a request or an
\* outcome of Check that the PDP has not issued, unless it does not verify.
THEOREM TypeCorrect == Spec => []TypeOK
<1>1. IInv => TypeOK
  BY DEF IInv
<1>2. QED
  BY <1>1, LadderInvariant, PTL

\* Every Allow of Check passed L0 and L1 and rests on a positive decision of the
\* PDP about the same subject, action, resource and properties, at no higher
\* assurance: whatever tokens clients replay, on whichever transport.
THEOREM EveryAllowJustified == Spec => []AllowJustified
<1>1. IInv => AllowJustified
  BY DEF IInv, HandlerOK, Granted, AllowJustified
<1>2. QED
  BY <1>1, LadderInvariant, PTL

\* A reused decision is younger than TTL plus the lag between the clocks, for
\* every TTL and every resolution of the clock.
THEOREM ReusedTokensFresh == Spec => []TokenFresh
<1>1. IInv => TokenFresh
  BY DEF IInv, HandlerOK, ReusedInTime, TokenFresh
<1>2. QED
  BY <1>1, LadderInvariant, PTL

\* A subject revoked before its request came, and not restored since, is never
\* allowed: neither by the PDP nor by a live token.
THEOREM RevokedNeverAllowed == Spec => []RevokedStaysOut
<1>1. IInv => RevokedStaysOut
  <2> SUFFICES ASSUME IInv, NEW h \in Handlers, outcome[h].kind = "Allow"
               PROVE  ~blocked[h]
    BY DEF RevokedStaysOut
  <2>1. HandlerOK(h)
    BY DEF IInv
  <2>2. PICK m \in minted : SameTuple(m.req, buildRequest(in[h]))
    BY <2>1 DEF HandlerOK, Granted
  <2>3. Validate(m.req)
    BY DEF IInv, GrantOK
  <2>4. in[h].subject # ""
    BY <2>2, <2>3, ValidSubject
  <2>5. QED
    BY <2>1, <2>4 DEF HandlerOK
<1>2. QED
  BY <1>1, LadderInvariant, PTL

\* The policy grants a high-value settlement only at AAL3.
LEMMA HighValueGrant ==
  ASSUME NEW req, Decision(req).allow, req.action = Settle, HighValue(req)
  PROVE  req.subject.aal = "AAL3"
<1>1. Decision(req) = acct_verdict(req)
  <2>1. ~Verdict(FALSE, <<audit>>, "request_invalid").allow
    BY DEF Verdict
  <2>2. ~Verdict(FALSE, <<audit>>, "unknown_domain").allow
    BY DEF Verdict
  <2>3. QED
    BY <2>1, <2>2, Zenon DEF Decision
<1>2. acct_verdict(req).allow
  BY <1>1, Zenon
<1>3. aal_at_least(req.subject.aal, "AAL3")
  <2> SUFFICES ASSUME ~aal_at_least(req.subject.aal, "AAL3")
               PROVE  ~acct_verdict(req).allow
    BY <1>2
  <2>1. ~Verdict(FALSE, <<>>, "acct_denied").allow
    BY DEF Verdict
  <2>2. ~Verdict(FALSE, <<step_up("AAL3"), audit>>, "step_up_required").allow
    BY DEF Verdict
  <2>3. QED
    BY <2>1, <2>2, Zenon DEF acct_verdict
<1>4. QED
  BY <1>3 DEF aal_at_least, AALRank

\* An outcome the invariant admits obeys the rule for high-value settlements.
LEMMA HighValueJustified == IInv => HighValueNeedsAAL3
<1> SUFFICES ASSUME IInv, NEW h \in Handlers, Backend = "opa",
                    outcome[h].kind = "Allow",
                    buildRequest(in[h]).action = Settle,
                    HighValue(buildRequest(in[h]))
             PROVE  buildRequest(in[h]).subject.aal = "AAL3"
  BY DEF HighValueNeedsAAL3
<1> DEFINE req == buildRequest(in[h])
<1>1. PICK m \in minted : Eval(m.req).allow /\ SameTuple(m.req, req)
  BY DEF IInv, HandlerOK, Granted
<1>2. Decision(m.req).allow
  BY <1>1 DEF Eval
<1> HIDE DEF req
<1>3. m.req.action = Settle
  BY <1>1 DEF SameTuple, req
<1>4. HighValue(m.req)
  BY <1>1 DEF SameTuple, HighValue, Get, req
<1>5. m.req.subject.aal = "AAL3"
  BY <1>2, <1>3, <1>4, HighValueGrant
<1>6. AALRank(req.subject.aal) >= 3
  BY <1>1, <1>5, RankType DEF SameTuple, AALRank
<1>7. QED
  BY <1>6 DEF AALRank, req

\* End to end, whatever tokens are replayed, the PEP lets a high-value settlement
\* through only for a subject at AAL3.
THEOREM HighValueSecure == Spec => []HighValueNeedsAAL3
BY HighValueJustified, LadderInvariant, PTL

\* An upstream answer that carries a requirement is a deeper PEP's 403.
LEMMA UpstreamAnswers ==
  ASSUME NEW up \in Upstream
  PROVE  up.stepUp = "" \/ up = [status |-> 403, stepUp |-> "AAL3"]
<1>1. \/ up = [status |-> 200, stepUp |-> ""] \/ up = [status |-> 403, stepUp |-> "AAL3"]
      \/ up = [status |-> 403, stepUp |-> ""] \/ up = [status |-> 401, stepUp |-> ""]
      \/ up = [status |-> 502, stepUp |-> ""]
  BY DEF Upstream
<1>2. CASE up = [status |-> 200, stepUp |-> ""]
  BY <1>2
<1>3. CASE up = [status |-> 401, stepUp |-> ""]
  BY <1>3
<1>4. CASE up = [status |-> 502, stepUp |-> ""]
  BY <1>4
<1>5. CASE up = [status |-> 403, stepUp |-> ""]
  BY <1>5
<1>6. QED
  BY <1>1, <1>2, <1>3, <1>4, <1>5

\* A step-up requirement leaves the edge as a 401 challenge, and no other PEP
\* ever turns one into a 401, whatever the upstream service answers.
THEOREM OnlyEdgeChallenges == Spec => []EdgeOwnsChallenge
<1>0. RightlyChallenged(NoReply)
  BY DEF RightlyChallenged, NoReply
<1>1. Init => EdgeOwnsChallenge
  BY <1>0 DEF Init, EdgeOwnsChallenge
<1>2. ASSUME IInv, EdgeOwnsChallenge, [Next]_vars PROVE EdgeOwnsChallenge'
  <2>1. OverHandlers(reply)
    BY <1>2 DEF IInv, TypeOK
  <2>2. CASE reply' = reply
    BY <1>2, <2>2 DEF EdgeOwnsChallenge
  <2>3. CASE \E g \in Handlers : Arrive(g)
    <3>1. PICK g \in Handlers : reply' = [reply EXCEPT ![g] = NoReply]
      BY <2>3 DEF Arrive
    <3>2. QED
      BY <1>0, <1>2, <2>1, <3>1 DEF EdgeOwnsChallenge, OverHandlers
  <2>4. CASE \E g \in Handlers : Respond(g)
    <3>1. PICK g \in Handlers : Respond(g)
      BY <2>4
    <3>2. ASSUME NEW up \in Upstream PROVE RightlyChallenged(Rewrite(up))
      <4>1. CASE up.stepUp = ""
        BY <4>1 DEF Rewrite, RightlyChallenged
      <4>2. CASE up = [status |-> 403, stepUp |-> "AAL3"]
        <5>1. Profile = ProfileEdge => Rewrite(up).status = 401
          BY <4>2 DEF Rewrite
        <5>2. Profile # ProfileEdge => Rewrite(up).status # 401
          BY <4>2 DEF Rewrite
        <5>3. QED
          BY <5>1, <5>2, Zenon DEF RightlyChallenged
      <4>3. up.stepUp = "" \/ up = [status |-> 403, stepUp |-> "AAL3"]
        BY UpstreamAnswers
      <4>4. QED
        BY <4>1, <4>2, <4>3
    <3>3. RightlyChallenged(DenyReply(outcome[g]))
      <4>1. CASE outcome[g].kind = "DenyStepUp"
        <5>1. Profile = ProfileEdge => DenyReply(outcome[g]).status = 401
          BY <4>1 DEF DenyReply
        <5>2. Profile # ProfileEdge => DenyReply(outcome[g]).status # 401
          BY <4>1 DEF DenyReply
        <5>3. QED
          BY <5>1, <5>2, Zenon DEF RightlyChallenged
      <4>2. CASE outcome[g].kind # "DenyStepUp"
        BY <4>2 DEF DenyReply, RightlyChallenged
      <4>3. QED
        BY <4>1, <4>2
    <3>4. PICK answer : reply' = [reply EXCEPT ![g] = answer] /\ RightlyChallenged(answer)
      BY <3>1, <3>2, <3>3 DEF Respond
    <3>5. \A h \in Handlers : RightlyChallenged(reply'[h])
      BY <1>2, <2>1, <3>4 DEF EdgeOwnsChallenge, OverHandlers
    <3>6. QED
      BY <3>5 DEF EdgeOwnsChallenge
  <2>5. CASE Restart
    BY <1>0, <2>5 DEF Restart, EdgeOwnsChallenge
  <2>6. QED
    BY <1>2, <2>2, <2>3, <2>4, <2>5
       DEF Next, vars, handlerVars, CheckL0, CheckL1, CheckRevocation, CheckL2,
           PDPEvaluates, CallReturns, CallFails, Return, Goto, Revoke, Restore,
           DistrustSVID, ForeignDecision, Tick
<1>3. QED
  BY <1>1, <1>2, LadderInvariant, PTL DEF Spec

-----------------------------------------------------------------------------
(* Where an outcome comes from.  IInv says what an allow is worth; the      *)
(* properties below also need to know how it came about.                   *)

\* The outcome classifies an answer of the PDP, as opposed to a rung's denial
\* or the reuse of a token.
FromPDP(h) ==
  \/ outcome[h].kind = "DenyStepUp"
  \/ outcome[h].kind = "Allow" /\ outcome[h].reason # "decision_token_reuse"

Decided(h) ==
  \E t \in 0 .. MaxTime :
    LET req    == Wire(buildRequest(in[h]))
        answer == Evaluate(req, t)
    IN  /\ outcome[h] = classify(answer)
        /\ answer.decision => [tok |-> answer.tok, req |-> req, at |-> t] \in minted

\* What a handler knows besides HandlerOK: its request came in, an east-west
\* caller has a name, a token was tried before the PDP is called, and an outcome
\* of the PDP is the PDP's answer to this request.
OriginOK(h) ==
  /\ pc[h] # "idle" => in[h] \in Inbound
  /\ \/ pc[h] \in {"l1", "revocation", "l2", "calling"}
     \/ outcome[h].kind = "Allow"
     => (Profile = ProfileEastWest => peerIdentity(in[h]) # "")
  /\ pc[h] = "calling" =>
       ~tryDecisionToken(tok[h], buildRequest(in[h]), triedAt[h] - Skew)
  /\ FromPDP(h) => Decided(h)

OriginsOK == \A h \in Handlers : OriginOK(h)

\* A rung's denial neither allows nor asks for step-up, nor does a handler that has
\* not decided.
LEMMA DenyFacts ==
  /\ \A kind \in {"DropL0", "DenyRoute", "DenyForbidden"} : \A reason :
       Deny(kind, reason).kind # "Allow" /\ Deny(kind, reason).kind # "DenyStepUp"
  /\ NoOutcome.kind = "None"
BY DEF NoOutcome, Deny, Outcome

\* A handler keeps what it knows while it does not move.
LEMMA OriginFrame ==
  ASSUME NEW h, OriginOK(h),
         pc'[h] = pc[h], in'[h] = in[h], tok'[h] = tok[h],
         outcome'[h] = outcome[h], triedAt'[h] = triedAt[h],
         minted \subseteq minted'
  PROVE  OriginOK(h)'
<1>1. FromPDP(h)' <=> FromPDP(h)
  BY DEF FromPDP
<1>2. Decided(h) => Decided(h)'
  BY DEF Decided
<1>3. QED
  BY <1>1, <1>2 DEF OriginOK

\* So only the handler that moves matters.
LEMMA OriginsFrame ==
  ASSUME OriginsOK, NEW g \in Handlers, OriginOK(g)', minted \subseteq minted',
         \A h \in Handlers \ {g} :
           /\ pc'[h] = pc[h] /\ in'[h] = in[h] /\ tok'[h] = tok[h]
           /\ outcome'[h] = outcome[h] /\ triedAt'[h] = triedAt[h]
  PROVE  OriginsOK'
<1>1. ASSUME NEW h \in Handlers PROVE OriginOK(h)'
  <2>1. CASE h = g
    BY <2>1
  <2>2. CASE h # g
    BY <2>2, OriginFrame DEF OriginsOK
  <2>3. QED
    BY <2>1, <2>2
<1>2. QED
  BY <1>1 DEF OriginsOK

\* Check returns out: backed by the PDP, by a named caller, or a plain denial.
LEMMA ReturnOrigin ==
  ASSUME IInv, OriginsOK, NEW g \in Handlers, NEW out, Return(g, out),
         pc[g] # "idle",
         \A h \in Handlers \ {g} : triedAt'[h] = triedAt[h],
         out.kind = "Allow" => (Profile = ProfileEastWest => peerIdentity(in[g]) # ""),
         \/ out.kind = "DenyStepUp"
         \/ out.kind = "Allow" /\ out.reason # "decision_token_reuse"
         => \E t \in 0 .. MaxTime :
              LET req    == Wire(buildRequest(in[g]))
                  answer == Evaluate(req, t)
              IN  /\ out = classify(answer)
                  /\ answer.decision => [tok |-> answer.tok, req |-> req, at |-> t] \in minted
  PROVE  OriginsOK'
<1>1. /\ pc \in [Handlers -> Labels] /\ OverHandlers(outcome)
  BY DEF IInv, TypeOK
<1>2. /\ pc' = [pc EXCEPT ![g] = "enforce"]
      /\ outcome' = [outcome EXCEPT ![g] = out]
      /\ UNCHANGED <<in, tok, minted>>
  BY DEF Return
<1>3. /\ pc'[g] = "enforce" /\ outcome'[g] = out
      /\ \A h \in Handlers \ {g} : pc'[h] = pc[h] /\ outcome'[h] = outcome[h]
  BY <1>1, <1>2 DEF OverHandlers
<1>4. FromPDP(g)' => Decided(g)'
  BY <1>2, <1>3 DEF FromPDP, Decided
<1>5. OriginOK(g)'
  BY <1>2, <1>3, <1>4 DEF OriginOK, OriginsOK
<1>6. QED
  BY <1>2, <1>3, <1>5, OriginsFrame

\* A handler climbs: its caller has a name, and its token was tried.
LEMMA GotoOrigin ==
  ASSUME IInv, OriginsOK, NEW g \in Handlers,
         NEW label \in {"l1", "revocation", "l2", "calling"}, Goto(g, label),
         pc[g] \in {"l0", "l1", "revocation", "l2"},
         \A h \in Handlers \ {g} : triedAt'[h] = triedAt[h],
         Profile = ProfileEastWest => peerIdentity(in[g]) # "",
         label = "calling" =>
           ~tryDecisionToken(tok[g], buildRequest(in[g]), triedAt'[g] - Skew)
  PROVE  OriginsOK'
<1>1. pc \in [Handlers -> Labels] /\ outcome[g] = NoOutcome
  BY DEF IInv, TypeOK, HandlerOK
<1>2. /\ pc' = [pc EXCEPT ![g] = label]
      /\ UNCHANGED <<in, tok, outcome, minted>>
  BY DEF Goto
<1>3. pc'[g] = label /\ \A h \in Handlers \ {g} : pc'[h] = pc[h]
  BY <1>1, <1>2
<1>4. ~FromPDP(g)'
  BY <1>1, <1>2, DenyFacts DEF FromPDP
<1>5. OriginOK(g)'
  BY <1>2, <1>3, <1>4 DEF OriginOK, OriginsOK
<1>6. QED
  BY <1>2, <1>3, <1>5, OriginsFrame

\* The L2 rung either tried the token at this moment or did not get that far.
LEMMA CheckL2Origin ==
  ASSUME IInv, OriginsOK, NEW g \in Handlers, CheckL2(g)
  PROVE  OriginsOK'
<1> DEFINE req == buildRequest(in[g])
<1>1. /\ pc[g] = "l2" /\ triedAt' = [triedAt EXCEPT ![g] = now]
      /\ Profile = ProfileEastWest => peerIdentity(in[g]) # ""
  BY DEF CheckL2, OriginsOK, OriginOK
<1>2. triedAt'[g] = now /\ \A h \in Handlers \ {g} : triedAt'[h] = triedAt[h]
  BY <1>1 DEF IInv, TypeOK
<1>3. CASE Return(g, Deny("DenyForbidden", "l2_request_build_failed"))
  BY <1>1, <1>2, <1>3, DenyFacts, ReturnOrigin
<1>4. CASE Return(g, Outcome("Allow", "decision_token_reuse", "", tok[g]))
  <2> DEFINE out == Outcome("Allow", "decision_token_reuse", "", tok[g])
  <2>1. out.kind = "Allow" /\ out.reason = "decision_token_reuse"
    BY DEF Outcome
  <2>2. Return(g, out)
    BY <1>4
  <2> HIDE DEF out
  <2>3. QED
    BY <1>1, <1>2, <2>1, <2>2, ReturnOrigin
<1>5. CASE Goto(g, "calling") /\ ~tryDecisionToken(tok[g], req, now - Skew)
  BY <1>1, <1>2, <1>5, GotoOrigin
<1>6. QED
  BY <1>3, <1>4, <1>5 DEF CheckL2

\* A response that allows, or asks for step-up, is the PDP's to this request.
LEMMA CallReturnsOrigin ==
  ASSUME IInv, OriginsOK, NEW g \in Handlers, CallReturns(g)
  PROVE  OriginsOK'
<1>1. /\ pc[g] = "calling" /\ resp[g] # NoResponse /\ triedAt' = triedAt
      /\ Profile = ProfileEastWest => peerIdentity(in[g]) # ""
  BY DEF CallReturns, OriginsOK, OriginOK
<1>2. CASE Return(g, Deny("DenyForbidden", "l2_pdp_unavailable"))
  BY <1>1, <1>2, DenyFacts, ReturnOrigin
<1>3. CASE Return(g, classify(resp[g]))
  <2>1. \E t \in 0 .. MaxTime :
          LET req    == Wire(buildRequest(in[g]))
              answer == Evaluate(req, t)
          IN  /\ resp[g] = answer
              /\ answer.decision => [tok |-> answer.tok, req |-> req, at |-> t] \in minted
    BY <1>1 DEF IInv, HandlerOK, ResponseOK
  <2>2. \E t \in 0 .. MaxTime :
          LET req    == Wire(buildRequest(in[g]))
              answer == Evaluate(req, t)
          IN  /\ classify(resp[g]) = classify(answer)
              /\ answer.decision => [tok |-> answer.tok, req |-> req, at |-> t] \in minted
    BY <2>1, Zenon
  <2>3. QED
    BY <1>1, <1>3, <2>2, ReturnOrigin
<1>4. QED
  BY <1>2, <1>3 DEF CallReturns

\* A request that has just come has no outcome yet.
LEMMA ArriveOrigin ==
  ASSUME IInv, OriginsOK, NEW g \in Handlers, Arrive(g)
  PROVE  OriginsOK'
<1>1. /\ pc \in [Handlers -> Labels]
      /\ in \in [Handlers -> Inbound \cup {NoInbound}]
      /\ tok \in [Handlers -> MintedTokens \cup {NoToken, BadToken}]
      /\ outcome[g] = NoOutcome
  BY DEF IInv, TypeOK, HandlerOK, Arrive
<1>2. PICK r \in Inbound, t \in held \cup {NoToken, BadToken} :
        in' = [in EXCEPT ![g] = r] /\ tok' = [tok EXCEPT ![g] = t]
  BY DEF Arrive
<1>3. pc' = [pc EXCEPT ![g] = "l0"] /\ UNCHANGED <<outcome, minted, triedAt>>
  BY DEF Arrive
<1>4. /\ pc'[g] = "l0" /\ in'[g] = r /\ outcome'[g].kind = "None"
      /\ \A h \in Handlers \ {g} : pc'[h] = pc[h] /\ in'[h] = in[h] /\ tok'[h] = tok[h]
  BY <1>1, <1>2, <1>3, DenyFacts
<1>5. OriginOK(g)'
  BY <1>4 DEF OriginOK, FromPDP
<1>6. QED
  BY <1>3, <1>4, <1>5, OriginsFrame

\* A handler that has answered has no outcome any more.
LEMMA RespondOrigin ==
  ASSUME IInv, OriginsOK, NEW g \in Handlers, Respond(g)
  PROVE  OriginsOK'
<1>1. /\ pc \in [Handlers -> Labels] /\ OverHandlers(outcome)
      /\ in \in [Handlers -> Inbound \cup {NoInbound}]
      /\ tok \in [Handlers -> MintedTokens \cup {NoToken, BadToken}]
      /\ triedAt \in [Handlers -> 0 .. MaxTime]
  BY DEF IInv, TypeOK
<1>2. /\ pc' = [pc EXCEPT ![g] = "idle"]
      /\ in' = [in EXCEPT ![g] = NoInbound]
      /\ tok' = [tok EXCEPT ![g] = NoToken]
      /\ outcome' = [outcome EXCEPT ![g] = NoOutcome]
      /\ triedAt' = [triedAt EXCEPT ![g] = 0]
      /\ minted' = minted
  BY DEF Respond
<1>3. /\ pc'[g] = "idle" /\ outcome'[g] = NoOutcome
      /\ \A h \in Handlers \ {g} :
           /\ pc'[h] = pc[h] /\ in'[h] = in[h] /\ tok'[h] = tok[h]
           /\ outcome'[h] = outcome[h] /\ triedAt'[h] = triedAt[h]
  BY <1>1, <1>2 DEF OverHandlers
<1>4. outcome'[g].kind = "None"
  BY <1>3, DenyFacts
<1>5. OriginOK(g)'
  BY <1>3, <1>4 DEF OriginOK, FromPDP
<1>6. QED
  BY <1>2, <1>3, <1>5, OriginsFrame

\* Every step keeps the origins.
LEMMA OriginsStep == IInv /\ OriginsOK /\ [Next]_vars => OriginsOK'
<1> SUFFICES ASSUME IInv, OriginsOK, [Next]_vars PROVE OriginsOK'
  OBVIOUS
<1>1. ASSUME NEW g \in Handlers, CheckL0(g) PROVE OriginsOK'
  <2>1. CASE \E reason : Return(g, Deny("DropL0", reason))
    BY <1>1, <2>1, DenyFacts, ReturnOrigin DEF CheckL0
  <2>2. CASE Goto(g, "l1") /\ (Profile = ProfileEastWest => peerIdentity(in[g]) # "")
    BY <1>1, <2>2, GotoOrigin DEF CheckL0
  <2>3. QED
    BY <1>1, <2>1, <2>2 DEF CheckL0
<1>2. ASSUME NEW g \in Handlers, CheckL1(g) PROVE OriginsOK'
  <2>1. /\ pc[g] = "l1" /\ triedAt' = triedAt
        /\ Profile = ProfileEastWest => peerIdentity(in[g]) # ""
    BY <1>2 DEF CheckL1, OriginsOK, OriginOK
  <2>2. CASE Return(g, Deny("DenyRoute", "l1_route_not_permitted"))
    BY <2>1, <2>2, DenyFacts, ReturnOrigin
  <2>3. CASE Goto(g, "revocation")
    BY <2>1, <2>3, GotoOrigin
  <2>4. QED
    BY <1>2, <2>2, <2>3 DEF CheckL1
<1>3. ASSUME NEW g \in Handlers, CheckRevocation(g) PROVE OriginsOK'
  <2>1. /\ pc[g] = "revocation" /\ triedAt' = triedAt
        /\ Profile = ProfileEastWest => peerIdentity(in[g]) # ""
    BY <1>3 DEF CheckRevocation, OriginsOK, OriginOK
  <2>2. CASE Return(g, Deny("DenyForbidden", "session_revoked"))
    BY <2>1, <2>2, DenyFacts, ReturnOrigin
  <2>3. CASE Goto(g, "l2")
    BY <2>1, <2>3, GotoOrigin
  <2>4. QED
    BY <1>3, <2>2, <2>3 DEF CheckRevocation
<1>4. ASSUME NEW g \in Handlers, CallFails(g) PROVE OriginsOK'
  BY <1>4, DenyFacts, ReturnOrigin DEF CallFails
<1>5. CASE UNCHANGED <<pc, in, tok, outcome, triedAt>> /\ minted \subseteq minted'
  <2>1. ASSUME NEW h \in Handlers PROVE OriginOK(h)'
    BY <1>5, OriginFrame DEF OriginsOK
  <2>2. QED
    BY <2>1 DEF OriginsOK
<1>6. CASE Restart
  <2>1. ASSUME NEW h \in Handlers PROVE OriginOK(h)'
    <3>1. pc'[h] = "idle" /\ outcome'[h].kind = "None"
      BY <1>6, DenyFacts DEF Restart
    <3>2. QED
      BY <3>1 DEF OriginOK, FromPDP
  <2>2. QED
    BY <2>1 DEF OriginsOK
<1>7. ASSUME NEW g \in Handlers, PDPEvaluates(g) PROVE OriginsOK'
  BY <1>5, <1>7 DEF PDPEvaluates, Record
<1>8. CASE \/ \E s \in EventSubjects : Revoke(s) \/ Restore(s)
           \/ \E id \in Revocable : DistrustSVID(id)
           \/ \E req \in ForeignRequests : ForeignDecision(req)
           \/ Tick \/ UNCHANGED vars
  BY <1>5, <1>8
     DEF Revoke, Restore, DistrustSVID, ForeignDecision, Record, Tick, vars, handlerVars
<1>9. QED
  BY <1>1, <1>2, <1>3, <1>4, <1>6, <1>7, <1>8,
     ArriveOrigin, CheckL2Origin, CallReturnsOrigin, RespondOrigin DEF Next

\* Every outcome comes from a rung's denial, an accepted token, or the PDP's
\* answer to the very request in hand.
THEOREM OutcomeOrigins == Spec => []OriginsOK
<1>1. Init => OriginsOK
  <2> SUFFICES ASSUME Init, NEW h \in Handlers PROVE OriginOK(h)
    BY DEF OriginsOK
  <2>1. pc[h] = "idle" /\ outcome[h].kind = "None"
    BY DenyFacts DEF Init
  <2>2. QED
    BY <2>1 DEF OriginOK, FromPDP
<1>2. QED
  BY <1>1, OriginsStep, LadderInvariant, PTL DEF Spec

-----------------------------------------------------------------------------
(* Delegation.                                                             *)

\* A fresh allow of the east-west hop rests on a decision about the workload that
\* really called: the certificate's whenever there is one.
THEOREM DelegationAlwaysRecorded == Spec => []DelegationRecorded
<1>1. IInv /\ OriginsOK => DelegationRecorded
  <2> SUFFICES ASSUME IInv, OriginsOK, NEW h \in Handlers, Profile = ProfileEastWest,
                      outcome[h].kind = "Allow",
                      outcome[h].reason # "decision_token_reuse"
               PROVE  \E m \in minted :
                        /\ m.tok = outcome[h].tok
                        /\ m.req.subject.act.id \in SpiffeIDs
                        /\ IF RequirePeerSVID \/ in[h].cert # ""
                           THEN m.req.subject.act.id = in[h].cert
                           ELSE m.req.subject.act.id = in[h].hdr
    BY DEF DelegationRecorded
  <2> DEFINE req == Wire(buildRequest(in[h]))
  <2>1. peerIdentity(in[h]) \in SpiffeIDs /\ peerIdentity(in[h]) # ""
    BY DEF IInv, HandlerOK, OriginsOK, OriginOK
  <2>2. PICK t \in 0 .. MaxTime :
          /\ outcome[h] = classify(Evaluate(req, t))
          /\ Evaluate(req, t).decision =>
               [tok |-> Evaluate(req, t).tok, req |-> req, at |-> t] \in minted
    BY DEF OriginsOK, OriginOK, FromPDP, Decided
  <2>3. Evaluate(req, t).decision /\ outcome[h].tok = Evaluate(req, t).tok
    BY <2>2, EvaluateFacts, ClassifyFacts
  <2>4. PICK m \in minted : m = [tok |-> Evaluate(req, t).tok, req |-> req, at |-> t]
    BY <2>2, <2>3
  <2>5. m.tok = outcome[h].tok /\ m.req = req
    BY <2>3, <2>4
  <2>6. req.subject.act = [type |-> "workload", id |-> peerIdentity(in[h])]
    BY <2>1 DEF Wire, buildRequest
  <2>7. m.req.subject.act.id = peerIdentity(in[h])
    BY <2>5, <2>6
  <2>8. IF RequirePeerSVID \/ in[h].cert # ""
        THEN peerIdentity(in[h]) = in[h].cert
        ELSE peerIdentity(in[h]) = in[h].hdr
    BY <2>1 DEF peerIdentity
  <2>9. QED
    BY <2>1, <2>5, <2>7, <2>8
<1>2. QED
  BY <1>1, LadderInvariant, OutcomeOrigins, PTL

-----------------------------------------------------------------------------
(* Step-up.                                                                *)

\* Requests that differ in the level of assurance only.
SameButLevel(p, q) ==
  /\ p.subject.type = q.subject.type
  /\ p.subject.id = q.subject.id
  /\ p.subject.act = q.subject.act
  /\ p.action = q.action
  /\ p.resource = q.resource
  /\ p.context = q.context

\* The transport does not look at the level.
LEMMA WireLevel ==
  ASSUME NEW r, NEW level
  PROVE  LET req    == Wire(buildRequest(r))
             raised == Wire([buildRequest(r) EXCEPT !.subject.aal = level])
         IN  SameButLevel(req, raised) /\ raised.subject.aal = level
<1> DEFINE built  == buildRequest(r)
           higher == [built EXCEPT !.subject.aal = level]
<1>1. PICK id, aal, act, action, resource, context :
        built = [subject |-> [type |-> "user", id |-> id, aal |-> aal, act |-> act],
                 action |-> action, resource |-> resource, context |-> context]
  BY DEF buildRequest
<1> HIDE DEF built
<1>2. higher = [subject |-> [type |-> "user", id |-> id, aal |-> level, act |-> act],
                action |-> action, resource |-> resource, context |-> context]
  BY <1>1
<1> HIDE DEF higher
<1> DEFINE sent == [resource EXCEPT !.props = IF Transport = "http" THEN OverHTTP(@)
                                                                 ELSE OverGRPC(@)]
<1>3. /\ Wire(built) = [subject |-> [type |-> "user", id |-> id, aal |-> aal, act |-> act],
                       action |-> action, resource |-> sent, context |-> context]
      /\ Wire(higher) = [subject |-> [type |-> "user", id |-> id, aal |-> level, act |-> act],
                         action |-> action, resource |-> sent, context |-> context]
  BY <1>1, <1>2 DEF Wire
<1> HIDE DEF sent
<1>4. SameButLevel(Wire(built), Wire(higher)) /\ Wire(higher).subject.aal = level
  BY <1>3 DEF SameButLevel
<1>5. QED
  BY <1>4 DEF built, higher

\* Neither the front door nor the gates look at the level.
LEMMA ValidatorsIgnoreLevel ==
  ASSUME NEW p, NEW q, SameButLevel(p, q)
  PROVE  /\ Validate(p) <=> Validate(q)
         /\ Violated(p) <=> Violated(q)
<1>1. Broken(p) = Broken(q)
  BY DEF Broken, SameButLevel
<1>2. Validate(p) <=> Validate(q)
  BY <1>1 DEF Validate, Issues
<1>3. schema_violations(p) = schema_violations(q)
  BY DEF schema_violations, SameButLevel
<1>4. missing_required_violations(p) = missing_required_violations(q)
  BY DEF missing_required_violations, SameButLevel
<1>5. profile_violations(p) = profile_violations(q)
  BY DEF profile_violations, SameButLevel
<1>6. QED
  BY <1>2, <1>3, <1>4, <1>5 DEF Violated

\* The only step-up obligation there is asks for AAL3.
LEMMA StepUpObligations ==
  /\ StepUps(<<>>) = {} /\ StepUps(<<audit>>) = {}
  /\ StepUps(<<step_up("AAL3"), audit>>) = {1}
  /\ <<step_up("AAL3"), audit>>[1].required_acr = "AAL3"
BY DEF StepUps, audit, step_up

\* A challenge names AAL3, and comes from the rule for high-value settlements.
LEMMA ChallengeFacts ==
  ASSUME NEW req, NEW t, classify(Evaluate(req, t)).kind = "DenyStepUp"
  PROVE  /\ classify(Evaluate(req, t)).acr = "AAL3"
         /\ Validate(req) /\ Backend = "opa"
         /\ ~Violated(req) /\ req.resource.type.domain \in Domains
         /\ req.action = Settle /\ Get(req.resource.props, "amount") # Absent
         /\ HighValue(req)
<1> DEFINE answer == Evaluate(req, t)
           steps  == StepUps(answer.obligations)
<1>1. ~answer.decision /\ steps # {}
  BY DEF classify, Outcome, Deny
<1>2. Validate(req) /\ answer.obligations = Eval(req).obligations
  <2>1. ErrorResponse.obligations = <<>>
    BY DEF ErrorResponse, Response
  <2>2. Validate(req)
    BY <1>1, <2>1, StepUpObligations DEF Evaluate
  <2>3. assemble(req, Eval(req), t).obligations = Eval(req).obligations
    BY DEF assemble, Response
  <2>4. QED
    BY <2>2, <2>3 DEF Evaluate
<1>3. Backend = "opa"
  <2>1. RelationDecision(req).obligations = <<>>
    BY DEF RelationDecision, Verdict
  <2>2. QED
    BY <1>1, <1>2, <2>1, StepUpObligations DEF Eval
<1>4. steps = StepUps(Decision(req).obligations)
  BY <1>2, <1>3 DEF Eval
<1>5. /\ ~Violated(req) /\ req.resource.type.domain \in Domains
      /\ steps = StepUps(acct_verdict(req).obligations)
  <2>1. /\ Verdict(FALSE, <<audit>>, "request_invalid").obligations = <<audit>>
        /\ Verdict(FALSE, <<audit>>, "unknown_domain").obligations = <<audit>>
    BY DEF Verdict
  <2>2. QED
    BY <1>1, <1>4, <2>1, StepUpObligations DEF Decision
<1>6. /\ req.action = Settle /\ Get(req.resource.props, "amount") # Absent
      /\ HighValue(req)
      /\ acct_verdict(req).obligations = <<step_up("AAL3"), audit>>
  <2>1. /\ Verdict(FALSE, <<>>, "acct_denied").obligations = <<>>
        /\ Verdict(TRUE, <<audit>>, "acct_settle_ok").obligations = <<audit>>
        /\ Verdict(TRUE, <<audit>>, "acct_settle_standard").obligations = <<audit>>
        /\ Verdict(FALSE, <<step_up("AAL3"), audit>>, "step_up_required").obligations
             = <<step_up("AAL3"), audit>>
    BY DEF Verdict
  <2>2. QED
    BY <1>1, <1>5, <2>1, StepUpObligations, Zenon DEF acct_verdict
<1>7. classify(answer).acr = "AAL3"
  <2>1. answer.obligations = <<step_up("AAL3"), audit>>
    <3>1. Decision(req) = acct_verdict(req)
      BY <1>5, Zenon DEF Decision
    <3>2. QED
      BY <1>2, <1>3, <1>6, <3>1, Zenon DEF Eval
  <2>2. (CHOOSE i \in steps : \A j \in steps : i <= j) = 1
    BY <2>1, StepUpObligations
  <2>3. QED
    BY <1>1, <2>1, <2>2, StepUpObligations DEF classify, Outcome
<1>8. QED
  BY <1>2, <1>3, <1>5, <1>6, <1>7

\* A subject that follows a step-up requirement gets through: the same request at
\* the level asked for is granted, at whatever time it comes again.
THEOREM StepUpAlwaysRemediable == Spec => []StepUpRemediable
<1>1. IInv /\ OriginsOK => StepUpRemediable
  <2> SUFFICES ASSUME OriginsOK, NEW h \in Handlers, outcome[h].kind = "DenyStepUp"
               PROVE  Evaluate(Wire([buildRequest(in[h]) EXCEPT
                                       !.subject.aal = outcome[h].acr]), now).decision
    BY DEF StepUpRemediable
  <2> DEFINE req    == Wire(buildRequest(in[h]))
             raised == Wire([buildRequest(in[h]) EXCEPT !.subject.aal = outcome[h].acr])
  <2>1. PICK t \in 0 .. MaxTime : outcome[h] = classify(Evaluate(req, t))
    BY DEF OriginsOK, OriginOK, FromPDP, Decided
  <2>2. SameButLevel(req, raised) /\ raised.subject.aal = outcome[h].acr
    BY WireLevel
  <2> HIDE DEF req, raised
  <2>3. /\ outcome[h].acr = "AAL3" /\ Validate(req) /\ Backend = "opa"
        /\ ~Violated(req) /\ req.resource.type.domain \in Domains
        /\ req.action = Settle /\ Get(req.resource.props, "amount") # Absent
        /\ HighValue(req)
    BY <2>1, ChallengeFacts
  <2>4. Validate(raised) /\ ~Violated(raised)
    BY <2>2, <2>3, ValidatorsIgnoreLevel
  <2>5. acct_verdict(raised) = Verdict(TRUE, <<audit>>, "acct_settle_ok")
    <3>1. HighValue(raised) /\ raised.action = Settle
          /\ Get(raised.resource.props, "amount") # Absent
      BY <2>2, <2>3 DEF SameButLevel, HighValue
    <3>2. aal_at_least(raised.subject.aal, "AAL3")
      BY <2>2, <2>3 DEF aal_at_least, AALRank
    <3>3. QED
      BY <3>1, <3>2, Zenon DEF acct_verdict
  <2>6. Decision(raised).allow
    <3>1. raised.resource.type.domain \in Domains
      BY <2>2, <2>3 DEF SameButLevel
    <3>2. Decision(raised) = Verdict(TRUE, <<audit>>, "acct_settle_ok")
      BY <2>4, <2>5, <3>1, Zenon DEF Decision
    <3>3. QED
      BY <3>2 DEF Verdict
  <2>7. Evaluate(raised, now) = assemble(raised, Decision(raised), now)
    BY <2>3, <2>4 DEF Evaluate, Eval
  <2>8. Evaluate(raised, now).decision = Decision(raised).allow
    BY <2>7 DEF assemble, Response
  <2>9. QED
    BY <2>6, <2>8 DEF raised
<1>2. QED
  BY <1>1, LadderInvariant, OutcomeOrigins, PTL

-----------------------------------------------------------------------------
(* Reuse.                                                                  *)

\* Every request lifts something from its body.
LiftsSomething == \A r \in Inbound : DOMAIN resourceProps(r).kv # {}

\* gRPC, or HTTP with properties, gives the PDP the very request that was built.
LEMMA WireFaithful ==
  ASSUME Transport = "grpc" \/ LiftsSomething, NEW r \in Inbound
  PROVE  Wire(buildRequest(r)) = buildRequest(r)
<1> DEFINE props == buildRequest(r).resource.props
           S     == DOMAIN r.body.kv \cap matchRoute(r).props
<1>1. props = [nil |-> FALSE, kv |-> [k \in S |-> r.body.kv[k]]] /\ props = resourceProps(r)
  BY DEF buildRequest, resourceProps, GoMap
<1>2. IF Transport = "http" THEN OverHTTP(props) = props ELSE OverGRPC(props) = props
  <2>1. CASE Transport = "http"
    BY <1>1, <2>1 DEF OverHTTP, LiftsSomething
  <2>2. CASE Transport # "http" /\ S = {}
    <3>1. props = EmptyMap
      BY <1>1, <2>2 DEF EmptyMap
    <3>2. QED
      BY <2>2, <3>1 DEF OverGRPC
  <2>3. CASE Transport # "http" /\ S # {}
    BY <1>1, <2>3 DEF OverGRPC
  <2>4. QED
    BY <2>1, <2>2, <2>3
<1>3. Wire(buildRequest(r)) = [buildRequest(r) EXCEPT !.resource.props = props]
  BY <1>2 DEF Wire
<1>4. PICK subject, action, type, id, context :
        buildRequest(r) = [subject |-> subject, action |-> action,
                           resource |-> [type |-> type, id |-> id, props |-> props],
                           context |-> context]
  BY DEF buildRequest
<1>5. QED
  BY <1>3, <1>4

\* The comparison of claims accepts the tuple the token was issued for.
LEMMA CoversOwnTuple ==
  ASSUME NEW req, NEW t
  PROVE  Covers(Issue(req, t), req)
BY RankType DEF Covers, Issue

\* The PDP is not called for a request whose token was minted for it and has not
\* expired - over gRPC always, over HTTP if the route table lifts something from
\* every request (the run pep_empty_props shows what happens if it does not).
THEOREM ReuseAlwaysHonoured ==
  ASSUME Transport = "grpc" \/ LiftsSomething
  PROVE  Spec => []ReuseHonoured
<1>1. IInv /\ OriginsOK => ReuseHonoured
  <2> SUFFICES ASSUME IInv, OriginsOK, NEW h \in Handlers, FastPath, pc[h] = "calling",
                      NEW m \in minted, m.tok = tok[h],
                      m.req = Wire(buildRequest(in[h])),
                      Verify(m.tok, triedAt[h] - Skew)
               PROVE  FALSE
    BY DEF ReuseHonoured
  <2> DEFINE req == buildRequest(in[h])
  <2>1. in[h] \in Inbound /\ ~tryDecisionToken(tok[h], req, triedAt[h] - Skew)
    BY DEF OriginsOK, OriginOK
  <2>2. m.req = req
    BY <2>1, WireFaithful
  <2>3. m.tok = Issue(m.req, m.at)
    BY DEF IInv, GrantOK
  <2>4. Covers(tok[h], req)
    BY <2>2, <2>3, CoversOwnTuple
  <2>5. tok[h] # NoToken
    BY VerifiedIsSigned
  <2>6. QED
    BY <2>1, <2>4, <2>5 DEF tryDecisionToken
<1>2. QED
  BY <1>1, LadderInvariant, OutcomeOrigins, PTL

-----------------------------------------------------------------------------
(* What Check comes to for one payment: the facts a chain of PEPs is proved *)
(* from (ChainProofs).                                                     *)

\* The first route that matches is the one matchRoute finds.
LEMMA FirstMatch ==
  ASSUME NEW r, NEW i \in DOMAIN Routes, DOMAIN Routes \subseteq Nat, Routes[i].key = r.key,
         \A j \in DOMAIN Routes : Routes[j].key = r.key => i <= j
  PROVE  Matches(r) # {} /\ matchRoute(r) = Routes[i]
<1>1. i \in Matches(r) /\ \A j \in Matches(r) : i <= j
  BY DEF Matches
<1>2. \A k \in Matches(r) : k \in Nat /\ ((\A j \in Matches(r) : k <= j) => k = i)
  <2>1. ASSUME NEW k \in Matches(r), \A j \in Matches(r) : k <= j PROVE k = i
    <3>1. k \in Nat /\ i \in Nat /\ k <= i /\ i <= k
      BY <1>1, <2>1 DEF Matches
    <3>2. QED
      BY <3>1
  <2>2. QED
    BY <2>1 DEF Matches
<1>3. (CHOOSE k \in Matches(r) : \A j \in Matches(r) : k <= j) = i
  BY <1>1, <1>2
<1>4. QED
  BY <1>1, <1>3 DEF matchRoute

\* The route of a payment lifts the amount the client sends.
LiftsAmount(r) ==
  matchRoute(r).action = Settle /\ "amount" \in DOMAIN r.body.kv \cap matchRoute(r).props

\* What the PDP decodes of a payment.
LEMMA PaymentOnTheWire ==
  ASSUME NEW r, LiftsAmount(r)
  PROVE  LET S   == DOMAIN r.body.kv \cap matchRoute(r).props
             req == Wire(buildRequest(r))
         IN  /\ req = buildRequest(r)
             /\ req.action = Settle
             /\ req.subject.aal = r.aal /\ req.subject.id = r.subject
             /\ req.subject.type = "user"
             /\ req.resource.type = matchRoute(r).type
             /\ req.resource.props.kv = [k \in S |-> r.body.kv[k]]
             /\ Get(req.resource.props, "amount") = r.body.kv["amount"]
<1> DEFINE S     == DOMAIN r.body.kv \cap matchRoute(r).props
           props == [nil |-> FALSE, kv |-> [k \in S |-> r.body.kv[k]]]
<1>1. buildRequest(r).resource.props = props
  BY DEF buildRequest, resourceProps, GoMap
<1>2. S # {} /\ "amount" \in S /\ matchRoute(r).action = Settle
  BY DEF LiftsAmount
<1>3. OverHTTP(props) = props /\ OverGRPC(props) = props
  BY <1>2 DEF OverHTTP, OverGRPC
<1>4. Wire(buildRequest(r)) = [buildRequest(r) EXCEPT !.resource.props = props]
  BY <1>1, <1>3 DEF Wire
<1>5. PICK act, id, context :
        buildRequest(r) = [subject |-> [type |-> "user", id |-> r.subject, aal |-> r.aal,
                                        act |-> act],
                           action |-> matchRoute(r).action,
                           resource |-> [type |-> matchRoute(r).type, id |-> id,
                                         props |-> props],
                           context |-> context]
  BY DEF buildRequest, resourceProps, GoMap
<1>6. Get(props, "amount") = r.body.kv["amount"] /\ props.kv = [k \in S |-> r.body.kv[k]]
  BY <1>2 DEF Get
<1> HIDE DEF props
<1>7. Wire(buildRequest(r)) = buildRequest(r)
  BY <1>4, <1>5
<1> DEFINE req == buildRequest(r)
<1>8. /\ req.action = matchRoute(r).action
      /\ req.subject.aal = r.aal /\ req.subject.id = r.subject /\ req.subject.type = "user"
      /\ req.resource.type = matchRoute(r).type
      /\ req.resource.props = props
  BY <1>5
<1> HIDE DEF req
<1>9. QED
  BY <1>2, <1>6, <1>7, <1>8 DEF req

\* A payment whose amount is high is of high value to the policy.
LEMMA HighAmount ==
  ASSUME NEW r, LiftsAmount(r), r.body.kv["amount"] = "high"
  PROVE  HighValue(buildRequest(r))
<1>1. RegoOrder("high") = 5 /\ RegoOrder("limit") = 4
  BY DEF RegoOrder
<1>2. Get(buildRequest(r).resource.props, "amount") = "high"
  BY PaymentOnTheWire
<1>3. RegoOrder(Get(buildRequest(r).resource.props, "amount")) > RegoOrder("limit")
  BY <1>1, <1>2
<1>4. QED
  BY <1>3 DEF HighValue

\* A payment that every gate of the front door and of the policy lets through:
\* what is left to decide is whether the level is enough for the amount.
PassesGates(r) ==
  /\ LiftsAmount(r)
  /\ r.subject \notin {"", "false", Absent}
  /\ r.aal \in {"AAL2", "AAL3"}
  /\ r.body.kv["amount"] # Absent
  /\ isColonPair(matchRoute(r).type)
  /\ matchRoute(r).type.domain = Settle.domain /\ Settle.domain \in Domains
  /\ \A attr \in required_attributes_for(Settle) :
       /\ attr \in DOMAIN r.body.kv \cap matchRoute(r).props
       /\ ~Not(r.body.kv[attr])
  /\ Profile # ProfilePartner
  /\ Profile = ProfileEastWest => peerIdentity(r) \in SpiffeIDs \ {""}

\* Such a payment violates nothing.
LEMMA GatesPassed ==
  ASSUME NEW r, PassesGates(r), Profile \in Profiles
  PROVE  LET req == Wire(buildRequest(r)) IN
         Validate(req) /\ ~Violated(req) /\ Decision(req) = acct_verdict(req)
<1> DEFINE req == Wire(buildRequest(r))
           S   == DOMAIN r.body.kv \cap matchRoute(r).props
<1>1. /\ req = buildRequest(r)
      /\ req.action = Settle
      /\ req.subject.id = r.subject /\ req.subject.type = "user"
      /\ req.resource.type = matchRoute(r).type
      /\ req.resource.props.kv = [k \in S |-> r.body.kv[k]]
  BY PaymentOnTheWire DEF PassesGates
<1>2. /\ req.context.profile = Profile
      /\ Profile = ProfileEdge => req.context.source_ip = "ip"
      /\ Profile = ProfileEastWest =>
           req.subject.act.type = "workload" /\ req.subject.act.id = peerIdentity(r)
  <2>1. Profile = ProfileEastWest => peerIdentity(r) # ""
    BY DEF PassesGates
  <2> DEFINE built == buildRequest(r)
  <2>2. /\ built.context.profile = Profile
        /\ Profile = ProfileEdge => built.context.source_ip = "ip"
    BY DEF buildRequest
  <2>3. Profile = ProfileEastWest =>
          built.subject.act = [type |-> "workload", id |-> peerIdentity(r)]
    BY <2>1 DEF buildRequest
  <2> HIDE DEF built
  <2>4. QED
    BY <1>1, <2>2, <2>3 DEF built
<1>3. isColonPair(Settle) /\ isColonPair(req.resource.type)
      /\ Settle.domain = req.resource.type.domain /\ Settle.domain \in Domains
  BY <1>1 DEF PassesGates, isColonPair, Settle, Name
<1> HIDE DEF req
<1>4. Validate(req)
  <2>1. /\ req.subject.type \in SubjectTypes /\ req.subject.id # ""
        /\ isColonPair(req.action) /\ req.action.domain = req.resource.type.domain
        /\ req.context.profile \in Profiles
    BY <1>1, <1>2, <1>3 DEF SubjectTypes, PassesGates
  <2>2. Broken(req) = [subject_type |-> FALSE, subject_id |-> FALSE, action_name |-> FALSE,
                       resource_type |-> FALSE, domain_mismatch |-> FALSE,
                       authz_profile |-> FALSE]
    BY <1>3, <2>1, Zenon DEF Broken
  <2>3. \A i \in DOMAIN Broken(req) : ~Broken(req)[i]
    BY <2>2
  <2>4. QED
    BY <2>3 DEF Validate, Issues
<1>5. schema_violations(req) = {}
  <2>1. ~Not(req.subject.id)
    BY <1>1 DEF PassesGates, Not
  <2>2. /\ ~(req.subject.type \notin {"user", "workload"})
        /\ ~ ~isColonPair(req.action) /\ ~ ~isColonPair(req.resource.type)
        /\ ~(/\ isColonPair(req.action) /\ isColonPair(req.resource.type)
             /\ req.action.domain # req.resource.type.domain)
    BY <1>1, <1>3
  <2> DEFINE broken == [subject_type    |-> req.subject.type \notin {"user", "workload"},
                        subject_id      |-> Not(req.subject.id),
                        action_name     |-> ~isColonPair(req.action),
                        resource_type   |-> ~isColonPair(req.resource.type),
                        domain_mismatch |-> /\ isColonPair(req.action)
                                            /\ isColonPair(req.resource.type)
                                            /\ req.action.domain # req.resource.type.domain]
  <2>3. schema_violations(req) = {v \in DOMAIN broken : broken[v]}
    BY Zenon DEF schema_violations
  <2>4. /\ DOMAIN broken = {"subject_type", "subject_id", "action_name", "resource_type",
                            "domain_mismatch"}
        /\ ~broken["subject_type"] /\ ~broken["subject_id"] /\ ~broken["action_name"]
        /\ ~broken["resource_type"] /\ ~broken["domain_mismatch"]
    BY <2>1, <2>2
  <2> HIDE DEF broken
  <2>5. QED
    BY <2>3, <2>4
<1>6. missing_required_violations(req) = {}
  <2>1. ASSUME NEW attr \in required_attributes_for(Settle)
        PROVE  ~Not(Get(req.resource.props, attr))
    <3>1. attr \in S /\ ~Not(r.body.kv[attr])
      BY DEF PassesGates
    <3>2. Get(req.resource.props, attr) = r.body.kv[attr]
      BY <1>1, <3>1 DEF Get
    <3>3. QED
      BY <3>1, <3>2
  <2>2. QED
    BY <1>1, <2>1 DEF missing_required_violations
<1>7. profile_violations(req) = {}
  <2>1. Profile = ProfileEastWest => req.subject.act # NoAct /\ valid_workload_act(req.subject.act)
    <3>1. NoAct.type = Absent /\ "workload" # Absent
      BY DEF NoAct, Absent
    <3>2. QED
      BY <1>2, <3>1 DEF PassesGates, valid_workload_act
  <2>2. ~Not("ip") /\ Profile # ProfilePartner
    BY DEF PassesGates, Not, Absent
  <2>3. /\ ~(req.context.profile = ProfileEdge /\ Not(req.context.source_ip))
        /\ ~(req.context.profile = ProfileEastWest /\ req.subject.act = NoAct)
        /\ ~(/\ req.context.profile = ProfileEastWest /\ req.subject.act # NoAct
             /\ ~valid_workload_act(req.subject.act))
        /\ req.context.profile # ProfilePartner
    BY <1>2, <2>1, <2>2
  <2> DEFINE broken == [source_ip |-> FALSE, act |-> FALSE, act_kind |-> FALSE,
                        partner_id |-> FALSE]
  <2>4. profile_violations(req) = {v \in DOMAIN broken : broken[v]}
    BY <2>3, Zenon DEF profile_violations
  <2>5. QED
    BY <2>4
<1>8. ~Violated(req)
  BY <1>5, <1>6, <1>7 DEF Violated
<1>9. Decision(req) = acct_verdict(req)
  BY <1>1, <1>3, <1>8, Zenon DEF Decision
<1>10. QED
  BY <1>4, <1>8, <1>9 DEF req

\* What classify makes of the domain's verdicts.
LEMMA ClassifyVerdicts ==
  ASSUME NEW reason
  PROVE  /\ \A tok1 : classify(Response("nil", TRUE, <<audit>>, reason, tok1)).kind = "Allow"
         /\ classify(Response("nil", FALSE, <<step_up("AAL3"), audit>>, reason, NoToken)).kind
              = "DenyStepUp"
BY StepUpObligations DEF classify, Outcome, Response

\* The PDP grants such a payment, or asks a user below AAL3 to step up.
LEMMA PaymentDecided ==
  ASSUME NEW r, NEW t, PassesGates(r), Profile \in Profiles, Backend = "opa"
  PROVE  LET answer == Evaluate(Wire(buildRequest(r)), t) IN
         /\ answer.err # "error"
         /\ \/ classify(answer).kind = "Allow"
            \/ classify(answer).kind = "DenyStepUp" /\ r.aal = "AAL2"
<1> DEFINE req     == Wire(buildRequest(r))
           verdict == acct_verdict(req)
<1>1. Evaluate(req, t) = Response("nil", verdict.allow, verdict.obligations, verdict.reason,
                                  IF verdict.allow THEN Issue(req, t) ELSE NoToken)
  <2>1. Validate(req) /\ Eval(req) = verdict
    BY GatesPassed DEF Eval
  <2>2. QED
    BY <2>1, Zenon DEF Evaluate, assemble
<1>2. /\ req.action = Settle /\ Get(req.resource.props, "amount") # Absent
      /\ req.subject.aal = r.aal /\ r.aal \in {"AAL2", "AAL3"}
  BY PaymentOnTheWire DEF PassesGates
<1> HIDE DEF req
<1>3. /\ aal_at_least("AAL3", "AAL3") /\ aal_at_least("AAL3", "AAL2")
      /\ aal_at_least("AAL2", "AAL2")
  BY DEF aal_at_least, AALRank
<1>4. \/ \E reason : verdict = Verdict(TRUE, <<audit>>, reason)
      \/ /\ verdict = Verdict(FALSE, <<step_up("AAL3"), audit>>, "step_up_required")
         /\ r.aal = "AAL2"
  <2>1. CASE HighValue(req)
    <3>1. CASE r.aal = "AAL3"
      BY <1>2, <1>3, <2>1, <3>1, Zenon DEF acct_verdict
    <3>2. CASE r.aal = "AAL2"
      BY <1>2, <1>3, <2>1, <3>2, Zenon DEF acct_verdict
    <3>3. QED
      BY <1>2, <3>1, <3>2
  <2>2. CASE ~HighValue(req)
    <3>1. aal_at_least(req.subject.aal, "AAL2")
      BY <1>2, <1>3
    <3>2. QED
      BY <1>2, <2>2, <3>1, Zenon DEF acct_verdict
  <2>3. QED
    BY <2>1, <2>2
<1> HIDE DEF verdict
<1>5. Evaluate(req, t).err = "nil"
  BY <1>1 DEF Response
<1>6. CASE \E reason : verdict = Verdict(TRUE, <<audit>>, reason)
  <2>1. PICK reason : verdict = Verdict(TRUE, <<audit>>, reason)
    BY <1>6
  <2>2. verdict.allow = TRUE /\ verdict.obligations = <<audit>> /\ verdict.reason = reason
    BY <2>1 DEF Verdict
  <2>3. Evaluate(req, t) = Response("nil", TRUE, <<audit>>, reason, Issue(req, t))
    BY <1>1, <2>2, Zenon
  <2>4. classify(Evaluate(req, t)).kind = "Allow"
    BY <2>3, ClassifyVerdicts, Zenon
  <2>5. QED
    BY <1>5, <2>4 DEF req
<1>7. CASE verdict = Verdict(FALSE, <<step_up("AAL3"), audit>>, "step_up_required")
           /\ r.aal = "AAL2"
  <2>1. /\ verdict.allow = FALSE /\ verdict.obligations = <<step_up("AAL3"), audit>>
        /\ verdict.reason = "step_up_required"
    BY <1>7 DEF Verdict
  <2>2. Evaluate(req, t) =
          Response("nil", FALSE, <<step_up("AAL3"), audit>>, "step_up_required", NoToken)
    BY <1>1, <2>1, Zenon
  <2>3. classify(Evaluate(req, t)).kind = "DenyStepUp"
    BY <2>2, ClassifyVerdicts, Zenon
  <2>4. QED
    BY <1>5, <1>7, <2>3 DEF req
<1>8. QED
  BY <1>4, <1>6, <1>7

\* What a challenge asks for, and how a rung leaves its handler: nothing answers
\* the client or changes the request before Check returns.
LEMMA ChecksMove ==
  ASSUME IInv, NEW g \in Handlers,
         \/ CheckL0(g) \/ CheckL1(g) \/ CheckRevocation(g) \/ CheckL2(g)
         \/ PDPEvaluates(g) \/ CallReturns(g) \/ CallFails(g)
  PROVE  /\ pc[g] \notin {"idle", "enforce"} /\ pc'[g] # "idle"
         /\ in' = in /\ reply' = reply
         /\ outcome'[g].kind = "DenyStepUp" => outcome'[g].acr = "AAL3"
<1>1. /\ pc \in [Handlers -> Labels] /\ OverHandlers(outcome) /\ HandlerOK(g)
  BY DEF IInv, TypeOK
<1>2. /\ pc[g] \notin {"idle", "enforce"} /\ outcome[g] = NoOutcome
  BY <1>1 DEF CheckL0, CheckL1, CheckRevocation, CheckL2, PDPEvaluates, CallReturns,
              CallFails, HandlerOK
<1>3. CASE \E label \in {"l1", "revocation", "l2", "calling"} : Goto(g, label)
  BY <1>1, <1>2, <1>3, DenyFacts DEF Goto, Labels
<1>4. CASE PDPEvaluates(g)
  BY <1>1, <1>2, <1>4, DenyFacts DEF PDPEvaluates
<1>5. ASSUME NEW out, Return(g, out), out.kind = "DenyStepUp" => out.acr = "AAL3"
      PROVE  /\ pc'[g] = "enforce" /\ in' = in /\ reply' = reply
             /\ outcome'[g].kind = "DenyStepUp" => outcome'[g].acr = "AAL3"
  BY <1>1, <1>5 DEF Return, OverHandlers
<1>6. CASE \E kind \in {"DropL0", "DenyRoute", "DenyForbidden"} : \E reason :
             Return(g, Deny(kind, reason))
  BY <1>2, <1>5, <1>6, DenyFacts
<1>7. CASE \E reason, token : Return(g, Outcome("Allow", reason, "", token))
  <2>1. \A reason, token : Outcome("Allow", reason, "", token).kind = "Allow"
    BY DEF Outcome
  <2>2. QED
    BY <1>2, <1>5, <1>7, <2>1
<1>8. CASE resp[g] # NoResponse /\ Return(g, classify(resp[g]))
  <2>1. PICK t \in 0 .. MaxTime : resp[g] = Evaluate(Wire(buildRequest(in[g])), t)
    BY <1>1, <1>8 DEF HandlerOK, ResponseOK
  <2>2. classify(resp[g]).kind = "DenyStepUp" => classify(resp[g]).acr = "AAL3"
    BY <2>1, ChallengeFacts
  <2>3. QED
    BY <1>2, <1>5, <1>8, <2>2
<1>9. QED
  BY <1>3, <1>4, <1>6, <1>7, <1>8
     DEF CheckL0, CheckL1, CheckRevocation, CheckL2, CallReturns, CallFails

\* Short of a call that fails, Check lets such a payment through or challenges a
\* user below AAL3.
LEMMA PaymentChecked ==
  ASSUME IInv, NEW g \in Handlers, Backend = "opa",
         PassesGates(in[g]), in[g].body.ok, Matches(in[g]) # {}, ~CAEPEnabled,
         \/ CheckL0(g) \/ CheckL1(g) \/ CheckRevocation(g) \/ CheckL2(g)
         \/ PDPEvaluates(g) \/ CallReturns(g),
         Profile = ProfileEastWest /\ pc[g] = "l0" => pc'[g] = "l1"
  PROVE  pc'[g] = "enforce" =>
           \/ outcome'[g].kind = "Allow"
           \/ outcome'[g].kind = "DenyStepUp" /\ in[g].aal = "AAL2"
<1>1. /\ pc \in [Handlers -> Labels] /\ OverHandlers(outcome) /\ HandlerOK(g)
  BY DEF IInv, TypeOK
<1>2. \A out : Return(g, out) => outcome'[g] = out /\ pc'[g] = "enforce"
  BY <1>1 DEF Return, OverHandlers
<1>3. \A label \in {"l1", "revocation", "l2", "calling"} :
        Goto(g, label) => pc'[g] # "enforce"
  BY <1>1 DEF Goto
<1>4. CASE CheckL0(g)
  BY <1>1, <1>2, <1>3, <1>4 DEF CheckL0
<1>5. CASE CheckL1(g) \/ CheckRevocation(g)
  BY <1>3, <1>5 DEF CheckL1, CheckRevocation, IsRevoked
<1>6. CASE CheckL2(g)
  <2>1. \A reason, token : Outcome("Allow", reason, "", token).kind = "Allow"
    BY DEF Outcome
  <2>2. QED
    BY <1>2, <1>3, <1>6, <2>1 DEF CheckL2, BuildFails
<1>7. CASE PDPEvaluates(g)
  BY <1>7 DEF PDPEvaluates
<1>8. CASE CallReturns(g)
  <2>1. PICK t \in 0 .. MaxTime : resp[g] = Evaluate(Wire(buildRequest(in[g])), t)
    BY <1>1, <1>8 DEF CallReturns, HandlerOK, ResponseOK
  <2>2. /\ resp[g].err # "error"
        /\ \/ classify(resp[g]).kind = "Allow"
           \/ classify(resp[g]).kind = "DenyStepUp" /\ in[g].aal = "AAL2"
    BY <2>1, PaymentDecided, PEPAssumption
  <2>3. QED
    BY <1>2, <1>8, <2>2 DEF CallReturns
<1>9. QED
  BY <1>4, <1>5, <1>6, <1>7, <1>8

\* A call that fails is a refusal without a challenge.
LEMMA FailureDenies ==
  ASSUME IInv, NEW g \in Handlers, CallFails(g)
  PROVE  outcome'[g].kind = "DenyForbidden"
<1> DEFINE out == Deny("DenyForbidden", "l2_pdp_unavailable")
<1>1. OverHandlers(outcome) /\ Return(g, out)
  BY DEF IInv, TypeOK, CallFails
<1>2. out.kind = "DenyForbidden"
  BY DEF Deny, Outcome
<1> HIDE DEF out
<1>3. outcome'[g] = out
  BY <1>1 DEF Return, OverHandlers
<1>4. QED
  BY <1>2, <1>3

\* What the client is told: the upstream's answer, or the refusal; the handler is
\* idle again.
LEMMA RespondMoves ==
  ASSUME IInv, NEW g \in Handlers, Respond(g)
  PROVE  /\ pc[g] = "enforce" /\ pc'[g] = "idle"
         /\ outcome'[g].kind = "None"
         /\ outcome[g].kind = "Allow" => \E up \in Upstream : reply'[g] = Rewrite(up)
         /\ outcome[g].kind # "Allow" => reply'[g] = DenyReply(outcome[g])
<1>1. /\ pc \in [Handlers -> Labels] /\ OverHandlers(outcome) /\ OverHandlers(reply)
  BY DEF IInv, TypeOK
<1>2. pc[g] = "enforce" /\ pc'[g] = "idle" /\ outcome'[g].kind = "None"
  BY <1>1, DenyFacts DEF Respond, OverHandlers
<1>3. QED
  BY <1>1, <1>2 DEF Respond, OverHandlers

\* Tokens are never taken off the record.
LEMMA RecordGrows == [Next]_vars => minted \subseteq minted'
BY DEF Next, vars, Arrive, CheckL0, CheckL1, CheckRevocation, CheckL2, PDPEvaluates, CallReturns,
       CallFails, Respond, Return, Goto, Record, Revoke, Restore, DistrustSVID,
       ForeignDecision, Tick, Restart

=============================================================================
