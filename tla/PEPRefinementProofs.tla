------------------------- MODULE PEPRefinementProofs -------------------------
(***************************************************************************)
(* PEP implements Enforcement, for every value of the constants: every     *)
(* step of a handler, of the cache, of the PDP and of the clock maps to a  *)
(* step of the abstract enforcement point, or to none.                     *)
(***************************************************************************)
EXTENDS PEPRefinement, PEPProofs

-----------------------------------------------------------------------------
(* Without a cache nothing is ever revoked.                                *)

NoCacheNoRevocation == ~CAEPEnabled => revoked = {}

\* SETs reach a PEP only through its cache.
LEMMA RevokedNeedsCache == Spec => []NoCacheNoRevocation
<1>1. Init => NoCacheNoRevocation
  BY DEF Init, NoCacheNoRevocation
<1>2. NoCacheNoRevocation /\ [Next]_vars => NoCacheNoRevocation'
  BY DEF NoCacheNoRevocation, Next, vars, handlerVars, Arrive, CheckL0, CheckL1,
         CheckRevocation, CheckL2, PDPEvaluates, CallReturns, CallFails, Respond,
         Return, Goto, Revoke, Restore, DistrustSVID, ForeignDecision, Tick, Restart
<1>3. QED
  BY <1>1, <1>2, PTL DEF Spec

-----------------------------------------------------------------------------
(* The mapping, step by step.                                              *)

\* The move of one handler moves its stage only.
LEMMA StageMove ==
  ASSUME NEW g \in Handlers, NEW s, StageOf(g)' = s,
         \A h \in Handlers \ {g} :
           pc'[h] = pc[h] /\ outcome'[h] = outcome[h] /\ resp'[h] = resp[h]
  PROVE  stageBar' = [stageBar EXCEPT ![g] = s]
<1>1. \A h \in Handlers \ {g} : StageOf(h)' = StageOf(h)
  BY DEF StageOf
<1>2. QED
  BY <1>1 DEF stageBar

\* Nor does it move if it stays where it was.
LEMMA StageStay ==
  ASSUME NEW g \in Handlers, stageBar' = [stageBar EXCEPT ![g] = StageOf(g)]
  PROVE  stageBar' = stageBar
BY DEF stageBar

\* What the abstract variables see of a handler.
LEMMA BarOf ==
  ASSUME NEW g \in Handlers
  PROVE  stageBar[g] = StageOf(g) /\ askedBar[g] = AskOf(in[g])
BY DEF stageBar, askedBar

\* Below the enforcement the stage follows from the label; no response is pending
\* before the PDP is called.
LEMMA StageFacts ==
  ASSUME IInv, NEW g \in Handlers
  PROVE  /\ pc[g] = "idle" => StageOf(g) = "idle"
         /\ pc[g] \in {"l0", "l1", "revocation"} => StageOf(g) = "asked"
         /\ pc[g] = "l2" => StageOf(g) = "cleared"
         /\ pc[g] = "calling" =>
              StageOf(g) = IF resp[g].decision THEN "relying" ELSE "cleared"
         /\ pc[g] = "enforce" => StageOf(g) \in {"allowed", "denied"}
         /\ pc[g] # "calling" => resp[g] = NoResponse
<1>1. pc[g] # "calling" => resp[g] = NoResponse
  BY DEF IInv, HandlerOK
<1>2. ~NoResponse.decision
  BY DEF NoResponse, Response
<1>3. QED
  BY <1>1, <1>2 DEF StageOf

\* A decision for this tuple at no higher level covers the request while it lives.
LEMMA GrantCovers ==
  ASSUME NEW g \in Handlers, NEW m, NEW given, GrantOf(m) \in given,
         Matches(in[g]) # {}, SameTuple(m.req, buildRequest(in[g])),
         now < m.at + TTL + Skew, m.at \in Nat, now \in Nat
  PROVE  Abstract!Covered(askedBar[g], given)
<1> DEFINE req == buildRequest(in[g])
           a   == askedBar[g]
           gr  == GrantOf(m)
<1>1. a = [tuple |-> Tuple(req), level |-> AALRank(in[g].aal), subject |-> in[g].subject]
  BY BarOf DEF AskOf
<1>2. req.subject.aal = in[g].aal
  BY DEF buildRequest
<1>3. gr.tuple = a.tuple
  <2>1. Tuple(m.req) = Tuple(req)
    BY DEF SameTuple, Tuple
  <2>2. QED
    BY <1>1, <2>1 DEF GrantOf
<1>4. gr.level <= a.level /\ gr.at = m.at
  BY <1>1, <1>2 DEF SameTuple, GrantOf
<1>5. now < gr.at + (TTL + Skew)
  BY <1>4, PEPAssumption, TokenAssumption
<1> HIDE DEF a, gr
<1>6. gr \in given
  BY DEF gr
<1>7. QED
  BY <1>3, <1>4, <1>5, <1>6 DEF a, Abstract!Covered

-----------------------------------------------------------------------------
(* The steps of one handler.                                               *)

\* A request comes.
LEMMA ArriveRefines ==
  ASSUME IInv, NEW g \in Handlers, Arrive(g)
  PROVE  Abstract!Ask(g)
<1>1. pc \in [Handlers -> Labels] /\ in \in [Handlers -> Inbound \cup {NoInbound}]
  BY DEF IInv, TypeOK
<1>2. PICK r \in Inbound : in' = [in EXCEPT ![g] = r]
  BY DEF Arrive
<1>3. /\ pc[g] = "idle" /\ pc' = [pc EXCEPT ![g] = "l0"]
      /\ UNCHANGED <<resp, outcome, revoked, now, minted>>
  BY DEF Arrive
<1>4. stageBar' = [stageBar EXCEPT ![g] = "asked"]
  <2>1. StageOf(g)' = "asked"
    BY <1>1, <1>3 DEF StageOf
  <2>2. QED
    BY <1>1, <1>3, <2>1, StageMove
<1>5. askedBar' = [askedBar EXCEPT ![g] = AskOf(r)]
  BY <1>1, <1>2 DEF askedBar
<1>6. AskOf(r) \in AllAsks
  BY DEF AllAsks
<1>7. stageBar[g] = "idle"
  BY <1>3, BarOf, StageFacts
<1>8. UNCHANGED <<grantsBar, barredBar, now>>
  BY <1>3 DEF grantsBar, barredBar
<1>9. QED
  BY <1>4, <1>5, <1>6, <1>7, <1>8 DEF Abstract!Ask

\* Check returning out decides the request.
LEMMA ReturnDecides ==
  ASSUME IInv, NEW g \in Handlers, NEW out, Return(g, out),
         \/ resp' = resp
         \/ resp' = [resp EXCEPT ![g] = NoResponse]
  PROVE  /\ stageBar' = [stageBar EXCEPT ![g] = IF out.kind = "Allow" THEN "allowed" ELSE "denied"]
         /\ UNCHANGED <<askedBar, grantsBar, barredBar, now>>
<1>1. /\ pc \in [Handlers -> Labels] /\ OverHandlers(outcome) /\ OverHandlers(resp)
  BY DEF IInv, TypeOK
<1>2. /\ pc' = [pc EXCEPT ![g] = "enforce"]
      /\ outcome' = [outcome EXCEPT ![g] = out]
      /\ UNCHANGED <<in, revoked, now, minted>>
  BY DEF Return
<1>3. /\ pc'[g] = "enforce" /\ outcome'[g] = out
      /\ \A h \in Handlers \ {g} :
           pc'[h] = pc[h] /\ outcome'[h] = outcome[h] /\ resp'[h] = resp[h]
  BY <1>1, <1>2 DEF OverHandlers
<1>4. StageOf(g)' = IF out.kind = "Allow" THEN "allowed" ELSE "denied"
  BY <1>3 DEF StageOf
<1>5. QED
  BY <1>2, <1>3, <1>4, StageMove DEF askedBar, grantsBar, barredBar

\* A denial may come at any rung.
LEMMA DenialRefines ==
  ASSUME IInv, NEW g \in Handlers, NEW out, Return(g, out), out.kind # "Allow",
         \/ resp' = resp
         \/ resp' = [resp EXCEPT ![g] = NoResponse],
         pc[g] \in {"l0", "l1", "revocation", "l2", "calling"}
  PROVE  Abstract!Deny(g)
<1>1. stageBar[g] \in {"asked", "cleared", "relying"}
  BY BarOf, StageFacts
<1>2. /\ stageBar' = [stageBar EXCEPT ![g] = "denied"]
      /\ UNCHANGED <<askedBar, grantsBar, barredBar, now>>
  BY ReturnDecides
<1>3. QED
  BY <1>1, <1>2 DEF Abstract!Deny

\* Climbing a rung.
LEMMA GotoMoves ==
  ASSUME IInv, NEW g \in Handlers, NEW label \in {"l1", "revocation", "l2", "calling"},
         Goto(g, label), resp' = resp,
         pc[g] \in {"l0", "l1", "revocation", "l2"}
  PROVE  /\ stageBar' = [stageBar EXCEPT ![g] =
                           IF label \in {"l1", "revocation"} THEN "asked" ELSE "cleared"]
         /\ UNCHANGED <<askedBar, grantsBar, barredBar, now>>
<1>1. pc \in [Handlers -> Labels] /\ resp[g] = NoResponse
  BY StageFacts DEF IInv, TypeOK
<1>2. /\ pc' = [pc EXCEPT ![g] = label]
      /\ UNCHANGED <<in, outcome, revoked, now, minted>>
  BY DEF Goto
<1>3. pc'[g] = label /\ \A h \in Handlers \ {g} : pc'[h] = pc[h]
  BY <1>1, <1>2
<1>4. ~resp'[g].decision
  <2>1. ~NoResponse.decision
    BY DEF NoResponse, Response
  <2>2. QED
    BY <1>1, <2>1
<1>5. StageOf(g)' = IF label \in {"l1", "revocation"} THEN "asked" ELSE "cleared"
  BY <1>3, <1>4 DEF StageOf
<1>6. QED
  BY <1>2, <1>3, <1>5, StageMove DEF askedBar, grantsBar, barredBar

\* The revocation check is the moment at which the subject is not barred.
LEMMA CheckRevocationRefines ==
  ASSUME IInv, NoCacheNoRevocation, NEW g \in Handlers, CheckRevocation(g)
  PROVE  Abstract!Clear(g) \/ Abstract!Deny(g)
<1>1. pc[g] = "revocation" /\ resp' = resp
  BY DEF CheckRevocation
<1>2. CASE Return(g, Deny("DenyForbidden", "session_revoked"))
  BY <1>1, <1>2, DenyFacts, DenialRefines
<1>3. CASE ~IsRevoked(in[g].subject) /\ Goto(g, "l2")
  <2>1. askedBar[g].subject = in[g].subject
    <3>1. AskOf(in[g]).subject = in[g].subject
      <4>1. CASE Matches(in[g]) = {}
        BY <4>1 DEF AskOf
      <4>2. CASE Matches(in[g]) # {}
        BY <4>2 DEF AskOf
      <4>3. QED
        BY <4>1, <4>2
    <3>2. QED
      BY <3>1, BarOf
  <2>2. in[g].subject \notin barredBar
    BY <1>3 DEF IsRevoked, NoCacheNoRevocation, barredBar
  <2>3. stageBar[g] = "asked"
    BY <1>1, BarOf, StageFacts
  <2>4. /\ stageBar' = [stageBar EXCEPT ![g] = "cleared"]
        /\ UNCHANGED <<askedBar, grantsBar, barredBar, now>>
    BY <1>1, <1>3, GotoMoves
  <2>5. QED
    BY <2>1, <2>2, <2>3, <2>4 DEF Abstract!Clear
<1>4. QED
  BY <1>2, <1>3 DEF CheckRevocation

\* The lower rungs deny or are invisible.
LEMMA LowerRungRefines ==
  ASSUME IInv, NEW g \in Handlers, CheckL0(g) \/ CheckL1(g)
  PROVE  Abstract!Deny(g) \/ UNCHANGED Abstract!vars
<1>1. pc[g] \in {"l0", "l1"} /\ resp' = resp
  BY DEF CheckL0, CheckL1
<1>2. CASE \E kind \in {"DropL0", "DenyRoute", "DenyForbidden"} : \E reason :
             Return(g, Deny(kind, reason))
  BY <1>1, <1>2, DenyFacts, DenialRefines
<1>3. CASE \E label \in {"l1", "revocation"} : Goto(g, label)
  <2>1. /\ stageBar' = [stageBar EXCEPT ![g] = "asked"]
        /\ UNCHANGED <<askedBar, grantsBar, barredBar, now>>
    BY <1>1, <1>3, GotoMoves
  <2>2. StageOf(g) = "asked"
    BY <1>1, StageFacts
  <2>3. stageBar' = stageBar
    BY <2>1, <2>2, StageStay
  <2>4. QED
    BY <2>1, <2>3 DEF Abstract!vars
<1>4. QED
  BY <1>2, <1>3 DEF CheckL0, CheckL1

\* The reuse of a token is an allow that a living grant covers at this moment.
LEMMA CheckL2Refines ==
  ASSUME IInv, NEW g \in Handlers, CheckL2(g)
  PROVE  Abstract!Allow(g) \/ Abstract!Deny(g) \/ UNCHANGED Abstract!vars
<1>1. pc[g] = "l2" /\ resp' = resp /\ StageOf(g) = "cleared" /\ Matches(in[g]) # {}
  BY StageFacts DEF CheckL2, IInv, HandlerOK
<1>2. CASE Return(g, Deny("DenyForbidden", "l2_request_build_failed"))
  BY <1>1, <1>2, DenyFacts, DenialRefines
<1>3. CASE /\ Return(g, Outcome("Allow", "decision_token_reuse", "", tok[g]))
           /\ tryDecisionToken(tok[g], buildRequest(in[g]), now - Skew)
  <2>1. PICK m \in minted : /\ SameTuple(m.req, buildRequest(in[g]))
                            /\ now < m.at + TTL + Skew
    BY <1>3, ReuseSound
  <2>2. m.at \in Nat /\ now \in Nat
    BY DEF IInv, TypeOK
  <2>3. GrantOf(m) \in grantsBar
    BY DEF grantsBar
  <2>4. Abstract!Covered(askedBar[g], grantsBar)
    BY <1>1, <2>1, <2>2, <2>3, GrantCovers
  <2> DEFINE out == Outcome("Allow", "decision_token_reuse", "", tok[g])
  <2>5. out.kind = "Allow" /\ Return(g, out)
    BY <1>3 DEF Outcome
  <2> HIDE DEF out
  <2>6. /\ stageBar' = [stageBar EXCEPT ![g] = "allowed"]
        /\ UNCHANGED <<askedBar, grantsBar, barredBar, now>>
    BY <1>1, <2>5, ReturnDecides
  <2>7. stageBar[g] = "cleared"
    BY <1>1, BarOf
  <2>8. QED
    BY <2>4, <2>6, <2>7 DEF Abstract!Allow
<1>4. CASE Goto(g, "calling")
  <2>1. /\ stageBar' = [stageBar EXCEPT ![g] = "cleared"]
        /\ UNCHANGED <<askedBar, grantsBar, barredBar, now>>
    BY <1>1, <1>4, GotoMoves
  <2>2. stageBar' = stageBar
    BY <1>1, <2>1, StageStay
  <2>3. QED
    BY <2>1, <2>2 DEF Abstract!vars
<1>5. QED
  BY <1>2, <1>3, <1>4 DEF CheckL2

-----------------------------------------------------------------------------
(* The PDP.                                                                *)

\* What an evaluation puts on record is at most one grant, as of now.
LEMMA MintedGranting ==
  ASSUME NEW req,
         minted' = minted \cup Minted(req, Evaluate(req, now), now)
  PROVE  Abstract!Granting
<1> DEFINE answer == Evaluate(req, now)
           m == [tok |-> answer.tok, req |-> req, at |-> now]
<1>1. CASE answer.decision
  <2>1. minted' = minted \cup {m}
    BY <1>1 DEF Minted
  <2> HIDE DEF m
  <2>2. grantsBar' = grantsBar \cup {GrantOf(m)}
    BY <2>1 DEF grantsBar
  <2>3. GrantOf(m).at = now
    BY DEF GrantOf, m
  <2>4. QED
    BY <2>2, <2>3 DEF Abstract!Granting
<1>2. CASE ~answer.decision
  BY <1>2 DEF Minted, grantsBar, Abstract!Granting
<1>3. QED
  BY <1>1, <1>2

\* The PDP's positive answer is the grant the request then relies on.
LEMMA PDPEvaluatesRefines ==
  ASSUME IInv, NEW g \in Handlers, PDPEvaluates(g)
  PROVE  Abstract!Rely(g) \/ UNCHANGED Abstract!vars
<1> DEFINE req    == Wire(buildRequest(in[g]))
           answer == Evaluate(req, now)
<1>1. /\ pc[g] = "calling" /\ resp[g] = NoResponse
      /\ resp' = [resp EXCEPT ![g] = answer]
      /\ minted' = minted \cup Minted(req, answer, now)
      /\ UNCHANGED <<pc, in, outcome, revoked, now>>
  BY DEF PDPEvaluates, Record
<1>2. OverHandlers(resp) /\ Matches(in[g]) # {} /\ now \in Nat
  <2>1. TypeOK /\ HandlerOK(g)
    BY DEF IInv
  <2>2. Matches(in[g]) # {}
    BY <1>1, <2>1 DEF HandlerOK
  <2>3. QED
    BY <2>1, <2>2 DEF TypeOK
<1>3. resp'[g] = answer /\ \A h \in Handlers \ {g} : resp'[h] = resp[h]
  BY <1>1, <1>2 DEF OverHandlers
<1>4. Abstract!Granting
  BY <1>1, MintedGranting
<1>5. stageBar[g] = "cleared" /\ StageOf(g) = "cleared"
  <2>1. ~NoResponse.decision
    BY DEF NoResponse, Response
  <2>2. QED
    BY <1>1, <2>1, BarOf, StageFacts
<1>6. UNCHANGED <<askedBar, barredBar, now>>
  BY <1>1 DEF askedBar, barredBar
<1>7. CASE answer.decision
  <2> DEFINE m == [tok |-> answer.tok, req |-> req, at |-> now]
  <2>1. m \in minted' /\ m.req = req /\ m.at = now
    BY <1>1, <1>7 DEF Minted
  <2> HIDE DEF m
  <2>2. GrantOf(m) \in grantsBar'
    BY <2>1 DEF grantsBar
  <2>3. SameTuple(m.req, buildRequest(in[g]))
    BY <2>1, WireSameTuple
  <2>4. now < m.at + TTL + Skew
    BY <1>2, <2>1, PEPAssumption, TokenAssumption
  <2>5. Abstract!Covered(askedBar[g], grantsBar')
    BY <1>2, <2>1, <2>2, <2>3, <2>4, GrantCovers
  <2>6. StageOf(g)' = "relying"
    <3>1. pc'[g] = "calling" /\ resp'[g].decision
      BY <1>1, <1>3, <1>7
    <3>2. QED
      BY <3>1 DEF StageOf
  <2>7. stageBar' = [stageBar EXCEPT ![g] = "relying"]
    BY <1>1, <1>3, <2>6, StageMove
  <2>8. QED
    BY <1>4, <1>5, <1>6, <2>5, <2>7 DEF Abstract!Rely
<1>8. CASE ~answer.decision
  <2>1. pc'[g] = "calling" /\ ~resp'[g].decision
    BY <1>1, <1>3, <1>8
  <2>2. StageOf(g)' = "cleared"
    BY <2>1 DEF StageOf
  <2>3. stageBar' = [stageBar EXCEPT ![g] = StageOf(g)]
    BY <1>1, <1>3, <1>5, <2>2, StageMove
  <2>4. stageBar' = stageBar
    BY <2>3, StageStay
  <2>5. grantsBar' = grantsBar
    BY <1>1, <1>8 DEF grantsBar, Minted
  <2>6. QED
    BY <1>6, <2>4, <2>5 DEF Abstract!vars
<1>9. QED
  BY <1>7, <1>8

\* The answer arrives: an allow only for a request that relies on a grant.
LEMMA CallReturnsRefines ==
  ASSUME IInv, NEW g \in Handlers, CallReturns(g)
  PROVE  Abstract!Allow(g) \/ Abstract!Deny(g)
<1>1. /\ pc[g] = "calling" /\ resp[g] # NoResponse
      /\ resp' = [resp EXCEPT ![g] = NoResponse]
  BY DEF CallReturns
<1>2. PICK t : resp[g] = Evaluate(Wire(buildRequest(in[g])), t)
  BY <1>1 DEF IInv, HandlerOK, ResponseOK
<1>3. resp[g].reason # "decision_token_reuse"
  BY <1>2, EvaluateFacts
<1>4. CASE Return(g, Deny("DenyForbidden", "l2_pdp_unavailable"))
  BY <1>1, <1>4, DenyFacts, DenialRefines
<1>5. CASE Return(g, classify(resp[g])) /\ resp[g].decision
  <2>1. classify(resp[g]).kind = "Allow"
    BY <1>3, <1>5, ClassifyFacts
  <2>2. /\ stageBar' = [stageBar EXCEPT ![g] = "allowed"]
        /\ UNCHANGED <<askedBar, grantsBar, barredBar, now>>
    BY <1>1, <1>5, <2>1, ReturnDecides
  <2>3. stageBar[g] = "relying"
    BY <1>1, <1>5, BarOf, StageFacts
  <2>4. QED
    BY <2>2, <2>3 DEF Abstract!Allow
<1>6. CASE Return(g, classify(resp[g])) /\ ~resp[g].decision
  <2>1. classify(resp[g]).kind # "Allow"
    BY <1>3, <1>6, ClassifyFacts
  <2>2. QED
    BY <1>1, <1>6, <2>1, DenialRefines
<1>7. QED
  BY <1>4, <1>5, <1>6 DEF CallReturns

\* The middleware answers.
LEMMA RespondRefines ==
  ASSUME IInv, NEW g \in Handlers, Respond(g)
  PROVE  Abstract!Finish(g)
<1>1. /\ pc \in [Handlers -> Labels] /\ OverHandlers(outcome)
      /\ in \in [Handlers -> Inbound \cup {NoInbound}]
  BY DEF IInv, TypeOK
<1>2. /\ pc[g] = "enforce"
      /\ pc' = [pc EXCEPT ![g] = "idle"]
      /\ in' = [in EXCEPT ![g] = NoInbound]
      /\ outcome' = [outcome EXCEPT ![g] = NoOutcome]
      /\ UNCHANGED <<resp, revoked, now, minted>>
  BY DEF Respond
<1>3. /\ pc'[g] = "idle"
      /\ \A h \in Handlers \ {g} : pc'[h] = pc[h] /\ outcome'[h] = outcome[h]
  BY <1>1, <1>2 DEF OverHandlers
<1>4. StageOf(g)' = "idle"
  BY <1>3 DEF StageOf
<1>5. stageBar' = [stageBar EXCEPT ![g] = "idle"]
  BY <1>2, <1>3, <1>4, StageMove
<1>6. askedBar' = [askedBar EXCEPT ![g] = NothingAsked]
  BY <1>1, <1>2 DEF askedBar, NothingAsked
<1>7. stageBar[g] \in {"allowed", "denied"}
  BY <1>2, BarOf, StageFacts
<1>8. QED
  BY <1>2, <1>5, <1>6, <1>7 DEF Abstract!Finish, grantsBar, barredBar

-----------------------------------------------------------------------------
(* The steps around the handlers.                                          *)

\* A SET bars or readmits its subject; one without a subject changes nothing.
LEMMA EventRefines ==
  ASSUME \/ \E s \in EventSubjects : Revoke(s) \/ Restore(s)
         \/ \E id \in Revocable : DistrustSVID(id)
  PROVE  \/ \E s \in barredBar \cup barredBar' : Abstract!Bar(s)
         \/ UNCHANGED Abstract!vars
<1>1. UNCHANGED <<pc, in, resp, outcome, now, minted>>
  BY DEF Revoke, Restore, DistrustSVID, handlerVars
<1>2. UNCHANGED <<stageBar, askedBar, grantsBar, now>>
  BY <1>1 DEF stageBar, StageOf, askedBar, grantsBar
<1>3. CASE \E id \in Revocable : DistrustSVID(id)
  BY <1>2, <1>3 DEF DistrustSVID, barredBar, Abstract!vars
<1>4. ASSUME NEW s \in EventSubjects, Revoke(s) \/ Restore(s)
      PROVE  \/ Abstract!Bar(s) /\ s \in barredBar \cup barredBar'
             \/ UNCHANGED Abstract!vars
  <2>1. \/ revoked' = revoked \cup {s}
        \/ revoked' = revoked \ {s}
    BY <1>4 DEF Revoke, Restore
  <2>2. CASE barredBar' = barredBar
    BY <1>2, <2>2 DEF Abstract!vars
  <2>3. CASE barredBar' # barredBar
    <3>1. s # "" /\ s \in barredBar \cup barredBar'
      BY <2>1, <2>3 DEF barredBar
    <3>2. barredBar' \in {barredBar \cup {s}, barredBar \ {s}}
      BY <2>1, <3>1 DEF barredBar
    <3>3. QED
      BY <1>2, <3>1, <3>2 DEF Abstract!Bar
  <2>4. QED
    BY <2>2, <2>3
<1>5. QED
  BY <1>3, <1>4

\* A decision for another PEP is a grant nobody here relies on yet.
LEMMA ForeignDecisionRefines ==
  ASSUME NEW req \in ForeignRequests, ForeignDecision(req)
  PROVE  Abstract!Grant
<1>1. /\ minted' = minted \cup Minted(req, Evaluate(req, now), now)
      /\ UNCHANGED <<pc, in, resp, outcome, revoked, now>>
  BY DEF ForeignDecision, Record, handlerVars
<1>2. UNCHANGED <<stageBar, askedBar, barredBar, now>>
  BY <1>1 DEF stageBar, StageOf, askedBar, barredBar
<1>3. QED
  BY <1>1, <1>2, MintedGranting DEF Abstract!Grant

\* Time passes.
LEMMA TickRefines ==
  ASSUME Tick
  PROVE  Abstract!Tick
BY DEF Tick, handlerVars, Abstract!Tick, stageBar, StageOf, askedBar, grantsBar, barredBar

\* A restart forgets everything but the tokens already handed out.
LEMMA RestartRefines ==
  ASSUME Restart
  PROVE  Abstract!Reset
<1>1. stageBar' = [h \in Handlers |-> "idle"]
  BY DEF Restart, stageBar, StageOf
<1>2. askedBar' = [h \in Handlers |-> NothingAsked]
  BY DEF Restart, askedBar, NothingAsked
<1>3. barredBar' = {} /\ UNCHANGED <<grantsBar, now>>
  BY DEF Restart, barredBar, grantsBar
<1>4. QED
  BY <1>1, <1>2, <1>3 DEF Abstract!Reset

-----------------------------------------------------------------------------
(* The refinement.                                                         *)

\* Initially nothing is asked, granted or barred.
LEMMA InitRefines == Init => Abstract!Init
BY DEF Init, Abstract!Init, stageBar, StageOf, askedBar, NothingAsked, grantsBar, barredBar

\* Every step of PEP is a step of Enforcement, or none.
LEMMA NextRefines ==
  IInv /\ NoCacheNoRevocation /\ [Next]_vars => [Abstract!Next]_(Abstract!vars)
<1> SUFFICES ASSUME IInv, NoCacheNoRevocation, [Next]_vars
             PROVE  Abstract!Next \/ UNCHANGED Abstract!vars
  OBVIOUS
<1>1. ASSUME NEW g \in Handlers,
             \/ Arrive(g) \/ CheckL0(g) \/ CheckL1(g) \/ CheckRevocation(g) \/ CheckL2(g)
             \/ PDPEvaluates(g) \/ CallReturns(g) \/ CallFails(g) \/ Respond(g)
      PROVE  Abstract!Next \/ UNCHANGED Abstract!vars
  <2>1. CASE CallFails(g)
    <3>1. Abstract!Deny(g)
      BY <2>1, DenyFacts, DenialRefines DEF CallFails
    <3>2. QED
      BY <3>1 DEF Abstract!Next
  <2>2. CASE ~CallFails(g)
    BY <1>1, <2>2, ArriveRefines, LowerRungRefines, CheckRevocationRefines, CheckL2Refines,
       PDPEvaluatesRefines, CallReturnsRefines, RespondRefines DEF Abstract!Next
  <2>3. QED
    BY <2>1, <2>2
<1>2. CASE \/ \E s \in EventSubjects : Revoke(s) \/ Restore(s)
           \/ \E id \in Revocable : DistrustSVID(id)
  BY <1>2, EventRefines DEF Abstract!Next
<1>3. CASE \E req \in ForeignRequests : ForeignDecision(req)
  BY <1>3, ForeignDecisionRefines DEF Abstract!Next
<1>4. CASE Tick
  BY <1>4, TickRefines DEF Abstract!Next
<1>5. CASE Restart
  BY <1>5, RestartRefines DEF Abstract!Next
<1>6. CASE UNCHANGED vars
  BY <1>6 DEF vars, Abstract!vars, stageBar, StageOf, askedBar, grantsBar, barredBar
<1>7. QED
  BY <1>1, <1>2, <1>3, <1>4, <1>5, <1>6 DEF Next

\* Check and Middleware implement the enforcement point of Enforcement: every
\* allow follows a moment at which the subject was not revoked and, after it, one
\* at which a living decision covered the request.
THEOREM PEPImplementsEnforcement == Spec => ImplementsEnforcement
BY InitRefines, NextRefines, LadderInvariant, RevokedNeedsCache, PTL
   DEF Spec, ImplementsEnforcement, Abstract!Spec
=============================================================================
