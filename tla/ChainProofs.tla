----------------------------- MODULE ChainProofs -----------------------------
(***************************************************************************)
(* Proofs about Chain, for every set of payments, route table, policy      *)
(* data, TTL, clock resolution and bound.  Each PEP keeps the invariant    *)
(* PEPProofs has shown of one PEP, whatever the other does, since both get *)
(* their tokens from one PDP; what is added here is how an attempt of the  *)
(* user ties the two handlers together.                                    *)
(***************************************************************************)
EXTENDS Chain, TLAPS

-----------------------------------------------------------------------------
(* Two PEPs and one PDP.                                                   *)

\* Both PEPs have configurations parseConfig admits.
LEMMA Configured == Edge!PEPAssumption /\ Inner!PEPAssumption
<1>1. ProfileEdge \in Edge!Profiles
  BY DEF ProfileEdge, Edge!Profiles, Edge!ProfileEdge
<1>2. ProfileEastWest \in Inner!Profiles
  BY DEF ProfileEastWest, Inner!Profiles, Inner!ProfileEastWest
<1>3. QED
  BY <1>1, <1>2, ChainAssumption DEF Edge!PEPAssumption, Inner!PEPAssumption

\* The two PEPs talk to one PDP: what one knows of a token's grant, the other
\* knows.  (The instances of its operators are the same operators.)
LEMMA SameGrants ==
  ASSUME NEW m
  PROVE  Edge!GrantOK(m) <=> Inner!GrantOK(m)
<1> USE DEF Edge!Absent, Inner!Absent, Edge!NoAct, Inner!NoAct,
            Edge!isColonPair, Inner!isColonPair, Edge!Get, Inner!Get,
            Edge!Not, Inner!Not, Edge!AALRank, Inner!AALRank,
            Edge!Verdict, Inner!Verdict, Edge!Name, Inner!Name,
            Edge!ProfileEdge, Inner!ProfileEdge,
            Edge!ProfileEastWest, Inner!ProfileEastWest,
            Edge!ProfilePartner, Inner!ProfilePartner
<1>1. \A req : Edge!Validate(req) <=> Inner!Validate(req)
  BY Zenon DEF Edge!Validate, Inner!Validate, Edge!Issues, Inner!Issues,
               Edge!Broken, Inner!Broken, Edge!SubjectTypes, Inner!SubjectTypes,
               Edge!Profiles, Inner!Profiles
<1>2. \A req : Edge!Violated(req) <=> Inner!Violated(req)
  <2>1. \A req : /\ Edge!schema_violations(req) = Inner!schema_violations(req)
                 /\ Edge!missing_required_violations(req) = Inner!missing_required_violations(req)
                 /\ Edge!profile_violations(req) = Inner!profile_violations(req)
    BY Zenon DEF Edge!schema_violations, Inner!schema_violations,
                 Edge!missing_required_violations, Inner!missing_required_violations,
                 Edge!required_attributes_for, Inner!required_attributes_for,
                 Edge!profile_violations, Inner!profile_violations,
                 Edge!valid_workload_act, Inner!valid_workload_act
  <2>2. QED
    BY <2>1, Zenon DEF Edge!Violated, Inner!Violated
<1>3. \A req : Edge!acct_verdict(req) = Inner!acct_verdict(req)
  BY Zenon DEF Edge!acct_verdict, Inner!acct_verdict, Edge!Settle, Inner!Settle,
               Edge!HighValue, Inner!HighValue, Edge!RegoOrder, Inner!RegoOrder,
               Edge!aal_at_least, Inner!aal_at_least, Edge!audit, Inner!audit,
               Edge!step_up, Inner!step_up
<1>4. \A req : Edge!Decision(req) = Inner!Decision(req)
  BY <1>2, <1>3, Zenon DEF Edge!Decision, Inner!Decision, Edge!audit, Inner!audit
<1>5. \A req : Edge!RelationDecision(req) = Inner!RelationDecision(req)
  BY Zenon DEF Edge!RelationDecision, Inner!RelationDecision, Edge!Mapped, Inner!Mapped,
               Edge!check, Inner!check, Edge!relationFor, Inner!relationFor,
               Edge!objectFor, Inner!objectFor
<1>6. \A req : Edge!Eval(req) = Inner!Eval(req)
  BY <1>4, <1>5, Zenon DEF Edge!Eval, Inner!Eval
<1>7. \A req, t : Edge!Issue(req, t) = Inner!Issue(req, t)
  BY Zenon DEF Edge!Issue, Inner!Issue, Edge!ResourceRef, Inner!ResourceRef,
               Edge!ResourceDigest, Inner!ResourceDigest, Edge!Unix, Inner!Unix
<1>8. QED
  BY <1>1, <1>6, <1>7, Zenon DEF Edge!GrantOK, Inner!GrantOK

\* A step of the edge leaves the record as the inner PEP needs it.
LEMMA EdgeStep ==
  ASSUME Edge!IInv, Inner!IInv, [Edge!Next]_(Edge!vars), UNCHANGED iVars
  PROVE  Edge!IInv' /\ Inner!IInv'
<1>1. Edge!IInv'
  BY Edge!NextIInv, Configured, TokenAssumption, PDPAssumption, Zenon
<1>2. minted \subseteq minted'
  BY Edge!RecordGrows, Configured, TokenAssumption, PDPAssumption, Zenon
<1>3. now' \in 0 .. MaxTime /\ held' \subseteq Inner!MintedTokens'
  BY <1>1 DEF Edge!IInv, Edge!TypeOK, Edge!MintedTokens, Inner!MintedTokens
<1>4. \A m \in minted' : Inner!GrantOK(m)
  BY <1>1, SameGrants DEF Edge!IInv
<1>5. UNCHANGED Inner!handlerVars /\ UNCHANGED <<{}, {}, [x \in {h} |-> FALSE]>>
  BY DEF iVars, Inner!handlerVars
<1>6. Inner!IInv'
  BY <1>2, <1>3, <1>4, <1>5, Inner!SurroundingsStep, Configured, TokenAssumption,
     PDPAssumption, Zenon
<1>7. QED
  BY <1>1, <1>6

\* A step of the inner PEP leaves the record as the edge needs it.
LEMMA InnerStep ==
  ASSUME Edge!IInv, Inner!IInv, [Inner!Next]_(Inner!vars), UNCHANGED eVars
  PROVE  Edge!IInv' /\ Inner!IInv'
<1>1. Inner!IInv'
  BY Inner!NextIInv, Configured, TokenAssumption, PDPAssumption, Zenon
<1>2. minted \subseteq minted'
  BY Inner!RecordGrows, Configured, TokenAssumption, PDPAssumption, Zenon
<1>3. now' \in 0 .. MaxTime /\ held' \subseteq Edge!MintedTokens'
  BY <1>1 DEF Inner!IInv, Inner!TypeOK, Inner!MintedTokens, Edge!MintedTokens
<1>4. \A m \in minted' : Edge!GrantOK(m)
  BY <1>1, SameGrants DEF Inner!IInv
<1>5. UNCHANGED Edge!handlerVars /\ UNCHANGED <<{}, {}, [x \in {h} |-> FALSE]>>
  BY DEF eVars, Edge!handlerVars
<1>6. Edge!IInv'
  BY <1>2, <1>3, <1>4, <1>5, Edge!SurroundingsStep, Configured, TokenAssumption,
     PDPAssumption, Zenon
<1>7. QED
  BY <1>1, <1>6

-----------------------------------------------------------------------------
(* The attempt of the user.                                                *)

\* A payment of the user, at its level.
Carries(r, cert, amount) ==
  /\ r.cert = cert /\ r.aal = user.aal /\ r.key = "POST /settle" /\ r.subject = "u1"
  /\ r.body.ok /\ DOMAIN r.body.kv = {"amount", "currency"}
  /\ r.body.kv["amount"] = amount /\ r.body.kv["currency"] = "text"

\* The requests the two handlers serve, field by field.
LEMMA Requests ==
  ASSUME AttemptOK
  PROVE  /\ ePc[h] # "idle" => user.st = "waiting" /\ Carries(eIn[h], "", user.amount)
         /\ iPc[h] # "idle" => hop = "called" /\ Carries(iIn[h], Gateway, user.total)
<1>1. ASSUME NEW r, NEW cert, NEW amount, r = Call(cert, user.aal, amount)
      PROVE  Carries(r, cert, amount)
  BY <1>1 DEF Carries, Call, Payment
<1>2. ePc[h] # "idle" => user.st = "waiting" /\ Carries(eIn[h], "", user.amount)
  BY <1>1, Zenon DEF AttemptOK
<1>3. QED
  BY <1>1, <1>2, Zenon DEF AttemptOK

\* What the user asks for is one of the payments.
LEMMA UserWants ==
  ASSUME AttemptOK, user.st # "idle"
  PROVE  user.aal \in AALs /\ \E w \in Wants : user.amount = w.amount /\ user.total = w.total
BY DEF AttemptOK, UserOK

\* The steps of the two ladders between arrival and answer.
EdgeLadder  == EdgeChecks \/ EdgePDPEvaluates \/ EdgeCallFails
InnerLadder == InnerChecks \/ InnerPDPEvaluates \/ InnerCallFails

\* While the edge checks a request it serves the same one and answers nobody; a
\* challenge it comes to asks for AAL3.
LEMMA EdgeLadderMoves ==
  ASSUME Edge!IInv, EdgeLadder
  PROVE  /\ Edge!Next /\ UNCHANGED <<iVars, user, hop>> /\ faulty' \in {faulty, TRUE}
         /\ ePc[h] \notin {"idle", "enforce"} /\ ePc'[h] # "idle"
         /\ eIn' = eIn /\ eReply' = eReply
         /\ eOutcome'[h].kind = "DenyStepUp" => eOutcome'[h].acr = "AAL3"
<1>1. /\ UNCHANGED <<iVars, user, hop>> /\ faulty' \in {faulty, TRUE}
      /\ \/ Edge!CheckL0(h) \/ Edge!CheckL1(h) \/ Edge!CheckRevocation(h) \/ Edge!CheckL2(h)
         \/ Edge!PDPEvaluates(h) \/ Edge!CallReturns(h) \/ Edge!CallFails(h)
  BY DEF EdgeLadder, EdgeChecks, EdgePDPEvaluates, EdgeCallFails
<1>2. Edge!Next
  BY <1>1, Zenon DEF Edge!Next
<1>3. h \in {h}
  OBVIOUS
<1>4. QED
  BY <1>1, <1>2, <1>3, Edge!ChecksMove, Configured, TokenAssumption, PDPAssumption, Zenon

\* The same of the inner PEP.
LEMMA InnerLadderMoves ==
  ASSUME Inner!IInv, InnerLadder
  PROVE  /\ Inner!Next /\ UNCHANGED <<eVars, user, hop>> /\ faulty' \in {faulty, TRUE}
         /\ iPc[h] \notin {"idle", "enforce"} /\ iPc'[h] # "idle"
         /\ iIn' = iIn /\ iReply' = iReply
         /\ iOutcome'[h].kind = "DenyStepUp" => iOutcome'[h].acr = "AAL3"
<1>1. /\ UNCHANGED <<eVars, user, hop>> /\ faulty' \in {faulty, TRUE}
      /\ \/ Inner!CheckL0(h) \/ Inner!CheckL1(h) \/ Inner!CheckRevocation(h) \/ Inner!CheckL2(h)
         \/ Inner!PDPEvaluates(h) \/ Inner!CallReturns(h) \/ Inner!CallFails(h)
  BY DEF InnerLadder, InnerChecks, InnerPDPEvaluates, InnerCallFails
<1>2. Inner!Next
  BY <1>1, Zenon DEF Inner!Next
<1>3. h \in {h}
  OBVIOUS
<1>4. QED
  BY <1>1, <1>2, <1>3, Inner!ChecksMove, Configured, TokenAssumption, PDPAssumption, Zenon

\* What the edge answers: a challenge of its own, what came back from the middle
\* service with a requirement turned into a challenge, or a refusal.
LEMMA EdgeAnswers ==
  ASSUME Edge!IInv, ChallengesOK, EdgeResponds
  PROVE  /\ Edge!Next /\ UNCHANGED <<iVars, user, faulty>> /\ hop' = "none"
         /\ ePc[h] = "enforce" /\ ePc'[h] = "idle" /\ eOutcome'[h].kind = "None"
         /\ \/ /\ eOutcome[h].kind = "Allow" /\ hop = "answered"
               /\ \/ iReply[h].stepUp = "" /\ eReply'[h] = iReply[h]
                  \/ /\ iReply[h].stepUp = "AAL3"
                     /\ eReply'[h].status = 401 /\ eReply'[h].stepUp = "AAL3"
            \/ eOutcome[h].kind = "DenyStepUp" /\ eReply'[h] = [status |-> 401, stepUp |-> "AAL3"]
            \/ /\ eOutcome[h].kind \notin {"Allow", "DenyStepUp"}
               /\ eReply'[h] = [status |-> 403, stepUp |-> ""]
<1>1. /\ Edge!Respond(h) /\ UNCHANGED <<iVars, user, faulty>> /\ hop' = "none"
      /\ eOutcome[h].kind = "Allow" => hop = "answered" /\ eReply'[h] = Edge!Rewrite(iReply[h])
  BY DEF EdgeResponds
<1>2. Edge!Next /\ h \in {h}
  BY <1>1, Zenon DEF Edge!Next
<1>3. /\ ePc[h] = "enforce" /\ ePc'[h] = "idle" /\ eOutcome'[h].kind = "None"
      /\ eOutcome[h].kind # "Allow" => eReply'[h] = Edge!DenyReply(eOutcome[h])
  BY <1>1, <1>2, Edge!RespondMoves, Configured, TokenAssumption, PDPAssumption, Zenon
<1>4. ProfileEdge = Edge!ProfileEdge
  BY DEF ProfileEdge, Edge!ProfileEdge
<1>5. CASE eOutcome[h].kind = "Allow"
  <2> DEFINE statuses == {0, 200, 403, 502}
             levels   == {"", "AAL3"}
  <2>0. iReply[h] \in [status : statuses, stepUp : levels]
    BY Zenon DEF ChallengesOK
  <2> HIDE DEF statuses, levels
  <2>1. PICK status \in statuses, level \in levels :
          iReply[h] = [status |-> status, stepUp |-> level]
    BY <2>0
  <2>2. CASE level = ""
    <3>0. iReply[h].stepUp = level
      BY <2>1
    <3>1. iReply[h].stepUp = ""
      BY <2>2, <3>0, Zenon
    <3>2. eReply'[h] = iReply[h]
      BY <1>1, <1>5, <3>1, Zenon DEF Edge!Rewrite
    <3>3. QED
      BY <1>1, <1>2, <1>3, <1>5, <3>1, <3>2, Zenon
  <2>3. CASE level = "AAL3"
    <3>1. eReply'[h] = [status |-> 401, stepUp |-> "AAL3"]
      BY <2>1, <1>1, <1>4, <1>5, <2>3 DEF Edge!Rewrite
    <3>2. iReply[h].stepUp = "AAL3"
      BY <2>1, <2>3
    <3>3. QED
      BY <1>1, <1>2, <1>3, <1>5, <3>1, <3>2
  <2>4. QED
    BY <2>1, <2>2, <2>3 DEF levels
<1>6. CASE eOutcome[h].kind = "DenyStepUp"
  <2>0. eOutcome[h].acr = "AAL3"
    BY <1>6, Zenon DEF ChallengesOK
  <2>1. eReply'[h] = [status |-> 401, stepUp |-> "AAL3"]
    BY <1>3, <1>4, <1>6, <2>0 DEF Edge!DenyReply
  <2>2. QED
    BY <1>1, <1>2, <1>3, <1>6, <2>1, Zenon
<1>7. CASE eOutcome[h].kind \notin {"Allow", "DenyStepUp"}
  <2>1. eReply'[h] = [status |-> 403, stepUp |-> ""]
    BY <1>3, <1>7 DEF Edge!DenyReply
  <2>2. QED
    BY <1>1, <1>2, <1>3, <1>7, <2>1, Zenon
<1>8. QED
  BY <1>5, <1>6, <1>7

\* What the inner PEP answers: the final service's answer, its own requirement as
\* a refusal the edge can read, or a refusal.
LEMMA InnerAnswers ==
  ASSUME Inner!IInv, ChallengesOK, InnerResponds
  PROVE  /\ Inner!Next /\ UNCHANGED <<eVars, user>> /\ hop = "called" /\ hop' = "answered"
         /\ faulty' = (faulty \/ iReply'[h].status = 502)
         /\ iPc[h] = "enforce" /\ iPc'[h] = "idle" /\ iOutcome'[h].kind = "None"
         /\ \/ /\ iOutcome[h].kind = "Allow"
               /\ \E status \in {200, 502} : iReply'[h] = [status |-> status, stepUp |-> ""]
            \/ iOutcome[h].kind = "DenyStepUp" /\ iReply'[h] = [status |-> 403, stepUp |-> "AAL3"]
            \/ /\ iOutcome[h].kind \notin {"Allow", "DenyStepUp"}
               /\ iReply'[h] = [status |-> 403, stepUp |-> ""]
<1>1. /\ Inner!Respond(h) /\ UNCHANGED <<eVars, user>> /\ hop = "called" /\ hop' = "answered"
      /\ faulty' = (faulty \/ iReply'[h].status = 502)
      /\ iOutcome[h].kind = "Allow" => iReply'[h].status \in {200, 502}
  BY DEF InnerResponds
<1>2. Inner!Next /\ h \in {h}
  BY <1>1, Zenon DEF Inner!Next
<1>3. /\ iPc[h] = "enforce" /\ iPc'[h] = "idle" /\ iOutcome'[h].kind = "None"
      /\ iOutcome[h].kind = "Allow" => \E up \in Inner!Upstream : iReply'[h] = Inner!Rewrite(up)
      /\ iOutcome[h].kind # "Allow" => iReply'[h] = Inner!DenyReply(iOutcome[h])
  BY <1>1, <1>2, Inner!RespondMoves, Configured, TokenAssumption, PDPAssumption, Zenon
<1>4. ProfileEastWest # Inner!ProfileEdge
  BY DEF ProfileEastWest, Inner!ProfileEdge
<1>5. CASE iOutcome[h].kind = "Allow"
  <2>1. PICK up \in Inner!Upstream : iReply'[h] = up
    BY <1>3, <1>4, <1>5, Zenon DEF Inner!Rewrite
  <2>2. up.status \in {200, 502}
    BY <1>1, <1>5, <2>1, Zenon
  <2>3. \E status \in {200, 502} : up = [status |-> status, stepUp |-> ""]
    <3> DEFINE none == ""
    <3>1. \/ up = [status |-> 200, stepUp |-> none] \/ up = [status |-> 403, stepUp |-> "AAL3"]
          \/ up = [status |-> 403, stepUp |-> none] \/ up = [status |-> 401, stepUp |-> none]
          \/ up = [status |-> 502, stepUp |-> none]
      BY Zenon DEF Inner!Upstream
    <3> HIDE DEF none
    <3>2. \E status \in {200, 502} : up = [status |-> status, stepUp |-> none]
      BY <2>2, <3>1
    <3>3. QED
      BY <3>2 DEF none
  <2>4. QED
    BY <1>1, <1>2, <1>3, <1>5, <2>1, <2>3, Zenon
<1>6. CASE iOutcome[h].kind = "DenyStepUp"
  <2>1. iOutcome[h].acr = "AAL3"
    BY <1>6, Zenon DEF ChallengesOK
  <2>2. iReply'[h] = [status |-> 403, stepUp |-> "AAL3"]
    BY <1>3, <1>4, <1>6, <2>1 DEF Inner!DenyReply
  <2>3. QED
    BY <1>1, <1>2, <1>3, <1>6, <2>2, Zenon
<1>7. CASE iOutcome[h].kind \notin {"Allow", "DenyStepUp"}
  <2>1. iReply'[h] = [status |-> 403, stepUp |-> ""]
    BY <1>3, <1>7, Zenon DEF Inner!DenyReply
  <2>2. QED
    BY <1>1, <1>2, <1>3, <1>7, <2>1, Zenon
<1>8. QED
  BY <1>5, <1>6, <1>7

\* The token that goes on with a request is one the inner PEP may be shown.
LEMMA ForwardStep ==
  ASSUME Edge!IInv, Inner!IInv, AttemptOK, Forward
  PROVE  Edge!IInv' /\ Inner!IInv'
<1> DEFINE r == Call(Gateway, eIn[h].aal, user.total)
<1>1. PICK t \in held \cup {eOutcome[h].tok, NoToken} : iTok' = [iTok EXCEPT ![h] = t]
  BY DEF Forward
<1>2. t \in Inner!MintedTokens \cup {Inner!NoToken, Inner!BadToken}
  <2>1. /\ held \subseteq Edge!MintedTokens
        /\ eOutcome[h].tok \in Edge!MintedTokens \cup {Edge!NoToken}
    BY DEF Edge!IInv, Edge!TypeOK
  <2>2. Edge!NoToken = Inner!NoToken /\ NoToken = Inner!NoToken
    BY Zenon DEF NoToken, Edge!NoToken, Inner!NoToken, Unsigned, Edge!Unsigned, Inner!Unsigned,
       Malformed, Edge!Malformed, Inner!Malformed, ResourceDigest, Edge!ResourceDigest,
       Inner!ResourceDigest, NilMap, Edge!NilMap, Inner!NilMap, Absent, Edge!Absent, Inner!Absent
  <2>3. Edge!MintedTokens = Inner!MintedTokens
    BY DEF Edge!MintedTokens, Inner!MintedTokens
  <2>4. QED
    BY <2>1, <2>2, <2>3
<1>3. r \in InnerInbound
  <2>1. user.st # "idle" /\ eIn[h].aal = user.aal
    <3>1. user.st = "waiting" /\ Carries(eIn[h], "", user.amount)
      BY Requests DEF Forward
    <3>2. QED
      BY <3>1 DEF Carries
  <2>2. PICK w \in Wants : user.aal \in AALs /\ user.total = w.total
    BY <2>1, UserWants
  <2>3. QED
    BY <2>1, <2>2 DEF InnerInbound
<1>4. /\ iPc[h] = "idle" /\ iPc' = [iPc EXCEPT ![h] = "l0"]
      /\ iIn' = [iIn EXCEPT ![h] = r]
      /\ iReply' = [iReply EXCEPT ![h] = Inner!NoReply]
      /\ UNCHANGED <<iResp, iOutcome, iTried, held, now, minted>>
  BY DEF Forward
<1>5. [x \in {h} |-> FALSE]' = [[x \in {h} |-> FALSE] EXCEPT ![h] = FALSE /\ r.subject \in {}]
  OBVIOUS
<1> HIDE DEF r
<1>6. Inner!IInv'
  BY <1>1, <1>2, <1>3, <1>4, <1>5, Inner!AdmitStep, Configured, TokenAssumption,
     PDPAssumption, Zenon
<1>7. Edge!IInv'
  <2>1. UNCHANGED Edge!vars
    BY DEF Forward, eVars, Edge!vars
  <2>2. QED
    BY <2>1, Edge!NextIInv, Configured, TokenAssumption, PDPAssumption, Zenon
<1>8. QED
  BY <1>6, <1>7

-----------------------------------------------------------------------------
(* The invariant of the chain.                                             *)

\* Where the attempt stands is enough to tell which handler is busy.
LEMMA AttemptPlace ==
  ASSUME AttemptOK
  PROVE  /\ user.st # "waiting" => ePc[h] = "idle"
         /\ ePc[h] # "enforce" => hop = "none"
         /\ hop # "called" => iPc[h] = "idle"
         /\ hop # "none" => ePc[h] # "idle"
         /\ hop \in {"none", "called", "answered"} /\ faulty \in BOOLEAN
BY DEF AttemptOK

\* A ladder's step, an answer or a tick leave the attempt to the same user.
LEMMA AttemptFrame ==
  ASSUME AttemptOK, user' = user,
         ePc'[h] # "idle" => ePc[h] # "idle" /\ eIn' = eIn,
         hop' # "none" => ePc'[h] = "enforce" /\ eOutcome'[h].kind = "Allow",
         iPc'[h] # "idle" => iPc[h] # "idle" /\ iIn' = iIn /\ hop' = "called",
         hop' = "called" => iPc'[h] # "idle",
         hop' \in {"none", "called", "answered"}, faulty' \in BOOLEAN
  PROVE  AttemptOK'
BY Zenon DEF AttemptOK, Call

\* What the user may become.
LEMMA UserSteps ==
  /\ UserOK(NoWant) /\ NoWant.st = "idle"
  /\ \A w \in Wants :
       UserOK([NoWant EXCEPT !.st = "asking", !.aal = w.aal, !.amount = w.amount,
                             !.total = w.total])
  /\ \A u : UserOK(u) /\ u.st # "idle" =>
       /\ UserOK([u EXCEPT !.st = "waiting"])
       /\ UserOK([u EXCEPT !.st = "asking", !.aal = "AAL3"])
<1> DEFINE states == {"idle", "asking", "waiting"}
           levels == AALs \cup {""}
           values == AttrValues \cup {""}
           Wanted(u) == \E w \in Wants : u.amount = w.amount /\ u.total = w.total
<1>0. "AAL3" \in AALs
  BY DEF AALs
<1>1. NoWant.st = "idle" /\ UserOK(NoWant)
  BY DEF NoWant, UserOK
<1>2. ASSUME NEW w \in Wants
      PROVE  UserOK([NoWant EXCEPT !.st = "asking", !.aal = w.aal, !.amount = w.amount,
                                   !.total = w.total])
  <2> DEFINE u == [NoWant EXCEPT !.st = "asking", !.aal = w.aal, !.amount = w.amount,
                                 !.total = w.total]
  <2>1. PICK aal \in AALs, amount \in AttrValues, total \in AttrValues :
          w = [aal |-> aal, amount |-> amount, total |-> total]
    BY ChainAssumption
  <2> DEFINE none == ""
  <2>0. NoWant = [st |-> "idle", aal |-> none, amount |-> none, total |-> none]
    BY Zenon DEF NoWant
  <2> HIDE DEF none
  <2>2. u = [st |-> "asking", aal |-> aal, amount |-> amount, total |-> total]
    <3>1. u = [[[[NoWant EXCEPT !.st = "asking"] EXCEPT !.aal = aal] EXCEPT !.amount = amount]
                 EXCEPT !.total = total]
      BY <2>1
    <3>2. [NoWant EXCEPT !.st = "asking"]
            = [st |-> "asking", aal |-> none, amount |-> none, total |-> none]
      BY <2>0
    <3>3. [[st |-> "asking", aal |-> none, amount |-> none, total |-> none] EXCEPT !.aal = aal]
            = [st |-> "asking", aal |-> aal, amount |-> none, total |-> none]
      OBVIOUS
    <3>4. [[st |-> "asking", aal |-> aal, amount |-> none, total |-> none] EXCEPT !.amount = amount]
            = [st |-> "asking", aal |-> aal, amount |-> amount, total |-> none]
      OBVIOUS
    <3>5. [[st |-> "asking", aal |-> aal, amount |-> amount, total |-> none] EXCEPT !.total = total]
            = [st |-> "asking", aal |-> aal, amount |-> amount, total |-> total]
      OBVIOUS
    <3> HIDE DEF u
    <3>6. QED
      BY <3>1, <3>2, <3>3, <3>4, <3>5, Zenon
  <2> HIDE DEF u
  <2>3. u.aal \in AALs /\ u.amount = w.amount /\ u.total = w.total
    BY <2>1, <2>2
  <2>4. u \in [st : states, aal : levels, amount : values, total : values]
    BY <2>2
  <2>5. QED
    BY <2>3, <2>4 DEF UserOK, u
<1>3. ASSUME NEW u, UserOK(u), u.st # "idle"
      PROVE  /\ UserOK([u EXCEPT !.st = "waiting"])
             /\ UserOK([u EXCEPT !.st = "asking", !.aal = "AAL3"])
  <2> HIDE DEF states, levels, values
  <2>1. /\ u \in [st : states, aal : levels, amount : values, total : values]
        /\ u.aal \in AALs /\ Wanted(u)
    BY <1>3, Zenon DEF UserOK, states, levels, values
  <2>2. PICK st \in states, aal \in levels, amount \in values, total \in values :
          u = [st |-> st, aal |-> aal, amount |-> amount, total |-> total]
    BY <2>1
  <2>3. PICK w \in Wants : amount = w.amount /\ total = w.total
    BY <2>1, <2>2
  <2>4. ASSUME NEW s \in {"asking", "waiting"}, NEW level \in AALs
        PROVE  UserOK([st |-> s, aal |-> level, amount |-> amount, total |-> total])
    <3> DEFINE x == [st |-> s, aal |-> level, amount |-> amount, total |-> total]
    <3>1. s \in states /\ level \in levels
      BY DEF states, levels
    <3>2. x \in [st : states, aal : levels, amount : values, total : values]
      BY <3>1
    <3>3. x.aal = level /\ x.amount = amount /\ x.total = total
      OBVIOUS
    <3> HIDE DEF x
    <3>4. UserOK(x)
      BY <2>3, <3>2, <3>3, Zenon DEF UserOK, states, levels, values
    <3>5. QED
      BY <3>4 DEF x
  <2>5. [u EXCEPT !.st = "waiting"]
          = [st |-> "waiting", aal |-> aal, amount |-> amount, total |-> total]
    BY <2>2
  <2>6. \A s, level : [u EXCEPT !.st = s, !.aal = level]
                       = [st |-> s, aal |-> level, amount |-> amount, total |-> total]
    <3>1. ASSUME NEW s, NEW level
          PROVE  [u EXCEPT !.st = s, !.aal = level] = [[u EXCEPT !.st = s] EXCEPT !.aal = level]
      BY <2>2
    <3>2. \A s : [u EXCEPT !.st = s] = [st |-> s, aal |-> aal, amount |-> amount, total |-> total]
      BY <2>2
    <3>3. \A s, level :
            [[st |-> s, aal |-> aal, amount |-> amount, total |-> total] EXCEPT !.aal = level]
              = [st |-> s, aal |-> level, amount |-> amount, total |-> total]
      OBVIOUS
    <3>4. QED
      BY <3>1, <3>2, <3>3, Zenon
  <2>7. aal \in AALs
    BY <2>1, <2>2
  <2>8. UserOK([st |-> "waiting", aal |-> aal, amount |-> amount, total |-> total])
    BY <2>4, <2>7
  <2>9. UserOK([st |-> "asking", aal |-> "AAL3", amount |-> amount, total |-> total])
    BY <1>0, <2>4
  <2>10. QED
    BY <2>5, <2>6, <2>8, <2>9, Zenon
<1>4. QED
  BY <1>1, <1>2, <1>3, Zenon

\* While nobody serves it, the user's attempt changes at the user's will.
LEMMA UserFrame ==
  ASSUME AttemptOK, ePc[h] = "idle", UserOK(user)', UNCHANGED <<eVars, iVars, hop, faulty>>
  PROVE  AttemptOK'
<1>1. hop = "none" /\ iPc[h] = "idle"
  BY AttemptPlace
<1>2. ePc' = ePc /\ iPc' = iPc /\ hop' = hop /\ faulty' = faulty
  BY DEF eVars, iVars
<1>3. QED
  BY <1>1, <1>2 DEF AttemptOK

\* Nobody has asked for anything at first.
LEMMA InitAttempt == Init => AttemptOK /\ ChallengesOK
<1> SUFFICES ASSUME Init PROVE AttemptOK /\ ChallengesOK
  OBVIOUS
<1>1. /\ ePc[h] = "idle" /\ iPc[h] = "idle" /\ user = NoWant /\ hop = "none" /\ faulty = FALSE
      /\ eOutcome[h].kind = "None" /\ iOutcome[h].kind = "None"
      /\ eReply[h] = [status |-> 0, stepUp |-> ""] /\ iReply[h] = [status |-> 0, stepUp |-> ""]
  BY DEF Init, Edge!Init, Inner!Init, Edge!NoReply, Inner!NoReply, Edge!NoOutcome,
         Inner!NoOutcome, Edge!Deny, Inner!Deny, Edge!Outcome, Inner!Outcome
<1>2. AttemptOK
  BY <1>1, UserSteps DEF AttemptOK, NoWant
<1>3. ChallengesOK
  <2> DEFINE statuses == {0, 200, 403, 502}
             levels   == {"", "AAL3"}
             none     == ""
  <2>1. 0 \in statuses /\ none \in levels
    OBVIOUS
  <2>2. iReply[h] = [status |-> 0, stepUp |-> none]
    BY <1>1, Zenon
  <2> HIDE DEF statuses, levels, none
  <2>3. iReply[h] \in [status : statuses, stepUp : levels] /\ eReply[h].status # 401
    <3>1. eReply[h] = [status |-> 0, stepUp |-> none]
      BY <1>1, Zenon DEF none
    <3>2. QED
      BY <2>1, <2>2, <3>1
  <2>4. /\ eOutcome[h].kind # "DenyStepUp" /\ iOutcome[h].kind # "DenyStepUp"
    BY <1>1
  <2>5. QED
    BY <2>3, <2>4, Zenon DEF ChallengesOK, statuses, levels
<1>4. QED
  BY <1>2, <1>3

\* No step takes a handler away from the user's attempt, or changes what it asks.
LEMMA AttemptStep ==
  ASSUME CInv, [Next]_vars
  PROVE  AttemptOK'
<1>1. Edge!IInv /\ Inner!IInv /\ AttemptOK /\ ChallengesOK
  BY DEF CInv
<1>2. CASE UNCHANGED vars
  BY <1>1, <1>2, AttemptPlace, AttemptFrame DEF vars, eVars, iVars, AttemptOK
<1>3. CASE EdgeLadder
  BY <1>1, <1>3, EdgeLadderMoves, AttemptPlace, AttemptFrame DEF iVars
<1>4. CASE InnerLadder
  BY <1>1, <1>4, InnerLadderMoves, AttemptPlace, AttemptFrame DEF eVars, AttemptOK
<1>5. CASE EdgeResponds
  <2>1. hop # "called"
    BY <1>1, <1>5, EdgeAnswers DEF AttemptOK
  <2>2. QED
    BY <1>1, <1>5, <2>1, EdgeAnswers, AttemptPlace, AttemptFrame DEF iVars
<1>6. CASE InnerResponds
  BY <1>1, <1>6, InnerAnswers, AttemptPlace, AttemptFrame DEF eVars, AttemptOK
<1>7. CASE Tick
  BY <1>1, <1>7, AttemptPlace, AttemptFrame DEF Tick, Edge!Tick, Edge!handlerVars, iVars, AttemptOK
<1>8. CASE Forward
  <2>1. /\ user' = user /\ ePc' = ePc /\ eIn' = eIn /\ eOutcome' = eOutcome /\ faulty' = faulty
        /\ ePc[h] = "enforce" /\ eOutcome[h].kind = "Allow" /\ hop' = "called"
        /\ iPc' = [iPc EXCEPT ![h] = "l0"]
        /\ iIn' = [iIn EXCEPT ![h] = Call(Gateway, eIn[h].aal, user.total)]
    BY <1>8 DEF Forward, eVars
  <2>2. /\ iPc \in [{h} -> Inner!Labels] /\ DOMAIN iIn = {h}
    BY <1>1 DEF Inner!IInv, Inner!TypeOK
  <2>3. iPc'[h] = "l0" /\ iIn'[h] = Call(Gateway, eIn[h].aal, user.total)
    BY <2>1, <2>2
  <2>4. user.st = "waiting" /\ eIn[h].aal = user.aal
    BY <1>1, <2>1, Requests DEF Carries
  <2>5. QED
    BY <1>1, <2>1, <2>3, <2>4 DEF AttemptOK
<1>9. CASE Want
  <2>1. user.st = "idle" /\ UNCHANGED <<eVars, iVars, hop, faulty>>
    BY <1>9 DEF Want
  <2>2. UserOK(user)'
    BY <1>9, UserSteps DEF Want
  <2>3. QED
    BY <1>1, <2>1, <2>2, AttemptPlace, UserFrame
<1>10. CASE Send
  <2>1. /\ user.st = "asking" /\ user' = [user EXCEPT !.st = "waiting"] /\ UNCHANGED <<iVars, hop>>
        /\ faulty' = FALSE /\ eIn'[h] = Call("", user.aal, user.amount) /\ Edge!Arrive(h)
    BY <1>10 DEF Send
  <2>2. ePc[h] = "idle" /\ eOutcome' = eOutcome
    BY <2>1 DEF Edge!Arrive
  <2>3. hop = "none" /\ iPc[h] = "idle" /\ iPc' = iPc
    BY <1>1, <2>1, <2>2, AttemptPlace DEF iVars
  <2>4. UserOK(user')
    BY <1>1, <2>1, UserSteps DEF AttemptOK
  <2>5. user'.st = "waiting" /\ user'.aal = user.aal /\ user'.amount = user.amount
    BY <1>1, <2>1 DEF AttemptOK, UserOK
  <2>6. QED
    BY <2>1, <2>3, <2>4, <2>5 DEF AttemptOK
<1>11. CASE Retry
  <2>1. /\ user.st = "waiting" /\ ePc[h] = "idle" /\ eReply[h].status = 401
        /\ user' = [user EXCEPT !.st = "asking", !.aal = eReply[h].stepUp]
        /\ UNCHANGED <<eVars, iVars, hop, faulty>>
    BY <1>11 DEF Retry, Answered
  <2>2. eReply[h].stepUp = "AAL3"
    BY <1>1, <2>1, Zenon DEF ChallengesOK
  <2>3. UserOK(user)'
    BY <1>1, <2>1, <2>2, UserSteps DEF AttemptOK
  <2>4. QED
    BY <1>1, <2>1, <2>3, UserFrame
<1>12. CASE Leave
  <2>1. ePc[h] = "idle" /\ user' = NoWant /\ UNCHANGED <<eVars, iVars, hop, faulty>>
    BY <1>12 DEF Leave, Answered
  <2>2. UserOK(user)'
    BY <2>1, UserSteps
  <2>3. QED
    BY <1>1, <2>1, <2>2, UserFrame
<1>13. QED
  BY <1>2, <1>3, <1>4, <1>5, <1>6, <1>7, <1>8, <1>9, <1>10, <1>11, <1>12
     DEF Next, EdgeLadder, InnerLadder

\* Whatever asks for a level asks for AAL3, however it has come by the question.
LEMMA ChallengesStep ==
  ASSUME CInv, [Next]_vars
  PROVE  ChallengesOK'
<1> DEFINE statuses     == {0, 200, 403, 502}
           levels       == {"", "AAL3"}
           InnerReplies == [status : statuses, stepUp : levels]
           none         == ""
<1>1. Edge!IInv /\ Inner!IInv /\ AttemptOK /\ ChallengesOK
  BY DEF CInv
<1>2. /\ eOutcome[h].kind = "DenyStepUp" => eOutcome[h].acr = "AAL3"
      /\ iOutcome[h].kind = "DenyStepUp" => iOutcome[h].acr = "AAL3"
      /\ eReply[h].status = 401 => eReply[h].stepUp = "AAL3"
      /\ iReply[h] \in InnerReplies
  BY <1>1, Zenon DEF ChallengesOK
<1>3. /\ 0 \in statuses /\ 200 \in statuses /\ 403 \in statuses /\ 502 \in statuses
      /\ 401 \notin statuses /\ none \in levels /\ "AAL3" \in levels
  OBVIOUS
<1> HIDE DEF statuses, levels, none
<1>4. \A status \in statuses : \A level \in levels :
        [status |-> status, stepUp |-> level] \in InnerReplies
  OBVIOUS
<1>5. \A reply \in InnerReplies : reply.status # 401
  BY <1>3
<1> DEFINE OK(eOut, iOut, eAns, iAns) ==
             /\ eOut.kind = "DenyStepUp" => eOut.acr = "AAL3"
             /\ iOut.kind = "DenyStepUp" => iOut.acr = "AAL3"
             /\ eAns.status = 401 => eAns.stepUp = "AAL3"
             /\ iAns \in InnerReplies
<1>6. OK(eOutcome'[h], iOutcome'[h], eReply'[h], iReply'[h]) => ChallengesOK'
  BY Zenon DEF ChallengesOK, statuses, levels
<1> HIDE DEF InnerReplies
<1>7. CASE UNCHANGED <<eOutcome, iOutcome, eReply, iReply>>
  BY <1>2, <1>6, <1>7
<1>8. CASE Want \/ Retry \/ Leave \/ Tick \/ UNCHANGED vars
  BY <1>7, <1>8 DEF Want, Retry, Leave, Tick, Edge!Tick, Edge!handlerVars, eVars, iVars, vars
<1>9. CASE Send
  <2>1. /\ eReply' = [eReply EXCEPT ![h] = Edge!NoReply]
        /\ UNCHANGED <<eOutcome, iOutcome, iReply>>
    BY <1>9 DEF Send, Edge!Arrive, iVars
  <2>2. eReply = [x \in {h} |-> eReply[x]] /\ Edge!NoReply.status # 401
    BY <1>1 DEF Edge!IInv, Edge!TypeOK, Edge!OverHandlers, Edge!NoReply
  <2>3. eReply'[h].status # 401
    BY <2>1, <2>2
  <2>4. QED
    BY <1>2, <1>6, <2>1, <2>3
<1>10. CASE Forward
  <2>1. /\ iReply' = [iReply EXCEPT ![h] = Inner!NoReply]
        /\ UNCHANGED <<eOutcome, iOutcome, eReply>>
    BY <1>10 DEF Forward, eVars
  <2>2. iReply = [x \in {h} |-> iReply[x]]
    BY <1>1 DEF Inner!IInv, Inner!TypeOK, Inner!OverHandlers
  <2>3. Inner!NoReply \in InnerReplies
    <3>1. Inner!NoReply = [status |-> 0, stepUp |-> none]
      BY Zenon DEF Inner!NoReply, none
    <3>2. QED
      BY <1>3, <1>4, <3>1
  <2>4. iReply'[h] \in InnerReplies
    BY <2>1, <2>2, <2>3
  <2>5. QED
    BY <1>2, <1>6, <2>1, <2>4
<1>11. CASE EdgeLadder
  BY <1>1, <1>2, <1>6, <1>11, EdgeLadderMoves DEF iVars
<1>12. CASE InnerLadder
  BY <1>1, <1>2, <1>6, <1>12, InnerLadderMoves DEF eVars
<1>13. CASE EdgeResponds
  <2>1. eOutcome'[h].kind = "None" /\ UNCHANGED <<iOutcome, iReply>>
    BY <1>1, <1>13, EdgeAnswers DEF iVars
  <2>2. CASE eReply'[h].stepUp = "AAL3"
    BY <1>2, <1>6, <2>1, <2>2
  <2>3. CASE eReply'[h] = iReply[h]
    BY <1>2, <1>5, <1>6, <2>1, <2>3
  <2>4. CASE eReply'[h] = [status |-> 403, stepUp |-> ""]
    <3>0. eReply'[h] = [status |-> 403, stepUp |-> none]
      BY <2>4, Zenon DEF none
    <3>1. eReply'[h].status # 401
      BY <3>0
    <3>2. QED
      BY <1>2, <1>6, <2>1, <3>1
  <2>5. [status |-> 401, stepUp |-> "AAL3"].stepUp = "AAL3"
    OBVIOUS
  <2>6. QED
    BY <1>1, <1>13, <2>2, <2>3, <2>4, <2>5, EdgeAnswers, Zenon
<1>14. CASE InnerResponds
  <2>1. iOutcome'[h].kind = "None" /\ UNCHANGED <<eOutcome, eReply>>
    BY <1>1, <1>14, InnerAnswers DEF eVars
  <2>2. iReply'[h] \in InnerReplies
    <3>1. \/ \E status \in {200, 502} : iReply'[h] = [status |-> status, stepUp |-> none]
          \/ iReply'[h] = [status |-> 403, stepUp |-> "AAL3"]
          \/ iReply'[h] = [status |-> 403, stepUp |-> none]
      BY <1>1, <1>14, InnerAnswers, Zenon DEF none
    <3>2. QED
      BY <1>3, <1>4, <3>1
  <2>3. QED
    BY <1>2, <1>6, <2>1, <2>2
<1>15. QED
  BY <1>8, <1>9, <1>10, <1>11, <1>12, <1>13, <1>14 DEF Next, EdgeLadder, InnerLadder

\* Both PEPs keep their invariants, whoever moves.
LEMMA LaddersStep ==
  ASSUME CInv, [Next]_vars
  PROVE  Edge!IInv' /\ Inner!IInv'
<1>1. Edge!IInv /\ Inner!IInv /\ AttemptOK /\ ChallengesOK
  BY DEF CInv
<1>2. CASE Want \/ Retry \/ Leave \/ UNCHANGED vars
  <2>1. UNCHANGED Edge!vars /\ UNCHANGED iVars
    BY <1>2 DEF Want, Retry, Leave, vars, eVars, Edge!vars
  <2>2. QED
    BY <1>1, <2>1, EdgeStep
<1>3. CASE Send
  <2>1. Edge!Next /\ UNCHANGED iVars
    BY <1>3, Zenon DEF Send, Edge!Next
  <2>2. QED
    BY <1>1, <2>1, EdgeStep
<1>4. CASE EdgeLadder
  BY <1>1, <1>4, EdgeLadderMoves, EdgeStep
<1>5. CASE EdgeResponds
  BY <1>1, <1>5, EdgeAnswers, EdgeStep
<1>6. CASE Tick
  <2>1. Edge!Next /\ UNCHANGED iVars
    BY <1>6, Zenon DEF Tick, Edge!Next
  <2>2. QED
    BY <1>1, <2>1, EdgeStep
<1>7. CASE InnerLadder
  BY <1>1, <1>7, InnerLadderMoves, InnerStep
<1>8. CASE InnerResponds
  BY <1>1, <1>8, InnerAnswers, InnerStep
<1>9. CASE Forward
  BY <1>1, <1>9, ForwardStep
<1>10. QED
  BY <1>2, <1>3, <1>4, <1>5, <1>6, <1>7, <1>8, <1>9 DEF Next, EdgeLadder, InnerLadder

\* In every reachable state each PEP has its own invariant, the handlers serve
\* the user's attempt, and whatever asks for a level asks for AAL3.
THEOREM ChainInvariant == Spec => []CInv
<1>1. Init => CInv
  <2>1. Init => Edge!IInv /\ Inner!IInv
    BY Edge!InitIInv, Inner!InitIInv, Configured, TokenAssumption, PDPAssumption, Zenon DEF Init
  <2>2. QED
    BY <2>1, InitAttempt DEF CInv
<1>2. CInv /\ [Next]_vars => CInv'
  BY AttemptStep, ChallengesStep, LaddersStep DEF CInv
<1>3. QED
  BY <1>1, <1>2, PTL DEF Spec

\* Type correctness of the chain; in particular a challenge names a level, so that
\* the user can follow it.
THEOREM ChainTypeCorrect == Spec => []TypeOK
<1>1. CInv => TypeOK
  BY DEF CInv, Edge!IInv, Inner!IInv, AttemptOK, UserOK, TypeOK
<1>2. QED
  BY <1>1, ChainInvariant, PTL

-----------------------------------------------------------------------------
(* What a payment of high value needs.                                     *)

\* Only the edge answers the user, and the answer stands until the user moves.
LEMMA AnswerStands ==
  ASSUME CInv, [Next]_vars, Answered', ~EdgeResponds
  PROVE  Answered /\ user' = user /\ eReply' = eReply /\ (faulty => faulty')
<1>1. Edge!IInv /\ Inner!IInv /\ AttemptOK /\ ChallengesOK
  BY DEF CInv
<1>2. user'.st = "waiting" /\ ePc'[h] = "idle"
  BY DEF Answered
<1>3. CASE Want
  <2>1. PICK w \in Wants : user' = [NoWant EXCEPT !.st = "asking", !.aal = w.aal,
                                                  !.amount = w.amount, !.total = w.total]
    BY <1>3 DEF Want
  <2>2. user'.st = "asking"
    BY <2>1 DEF NoWant
  <2>3. QED
    BY <1>2, <2>2
<1>4. CASE Retry
  <2>1. user'.st = "asking"
    BY <1>1, <1>4 DEF Retry, AttemptOK, UserOK
  <2>2. QED
    BY <1>2, <2>1
<1>5. CASE Leave
  BY <1>2, <1>5, UserSteps DEF Leave
<1>6. CASE Send
  <2>1. ePc' = [ePc EXCEPT ![h] = "l0"] /\ ePc \in [{h} -> Edge!Labels]
    BY <1>1, <1>6 DEF Send, Edge!Arrive, Edge!IInv, Edge!TypeOK
  <2>2. QED
    BY <1>2, <2>1
<1>7. CASE EdgeLadder
  BY <1>1, <1>2, <1>7, EdgeLadderMoves
<1>8. CASE InnerLadder
  BY <1>1, <1>2, <1>8, InnerLadderMoves, AttemptPlace DEF eVars, Answered
<1>9. CASE InnerResponds
  <2>1. UNCHANGED <<eVars, user>> /\ faulty' = (faulty \/ iReply'[h].status = 502)
    BY <1>1, <1>9, InnerAnswers, Zenon
  <2>2. faulty => faulty'
    BY <2>1, Zenon
  <2>3. UNCHANGED <<ePc, eReply, user>>
    BY <2>1 DEF eVars
  <2>4. QED
    BY <1>2, <2>2, <2>3, Zenon DEF Answered
<1>10. CASE Forward \/ Tick \/ UNCHANGED vars
  BY <1>2, <1>10 DEF Forward, Tick, Edge!Tick, Edge!handlerVars, vars, eVars, Answered
<1>11. QED
  BY <1>3, <1>4, <1>5, <1>6, <1>7, <1>8, <1>9, <1>10 DEF Next, EdgeLadder, InnerLadder

\* What the middle service got stands until the edge passes it on.
LEMMA CallStands ==
  ASSUME CInv, [Next]_vars, hop' = "answered", ~InnerResponds
  PROVE  hop = "answered" /\ user' = user /\ iReply' = iReply /\ (faulty => faulty')
<1>1. Edge!IInv /\ Inner!IInv /\ AttemptOK /\ ChallengesOK
  BY DEF CInv
<1>2. CASE Want \/ Send \/ Retry \/ Leave
  <2>1. ePc[h] = "idle" /\ hop' = hop
    BY <1>1, <1>2, AttemptPlace DEF Want, Send, Retry, Leave, Answered, Edge!Arrive
  <2>2. QED
    BY <1>1, <2>1, AttemptPlace
<1>3. CASE EdgeLadder
  BY <1>1, <1>3, EdgeLadderMoves, AttemptPlace
<1>4. CASE InnerLadder
  BY <1>1, <1>4, InnerLadderMoves, AttemptPlace
<1>5. CASE EdgeResponds
  BY <1>1, <1>5, EdgeAnswers
<1>6. CASE Forward \/ Tick \/ UNCHANGED vars
  BY <1>6 DEF Forward, Tick, vars, iVars
<1>7. QED
  BY <1>2, <1>3, <1>4, <1>5, <1>6 DEF Next, EdgeLadder, InnerLadder

\* The route of a payment shows its amount to the policy, at either PEP.
LEMMA PaymentsMatch ==
  ASSUME AmountsSeen, NEW r, NEW cert, NEW amount, Carries(r, cert, amount)
  PROVE  /\ Edge!Matches(r) # {} /\ Edge!LiftsAmount(r)
         /\ Inner!Matches(r) # {} /\ Inner!LiftsAmount(r)
         /\ \E i \in DOMAIN Routes : /\ PaymentRoute(i)
                                     /\ Edge!matchRoute(r) = Routes[i]
                                     /\ Inner!matchRoute(r) = Routes[i]
<1>1. PICK i \in DOMAIN Routes :
        PaymentRoute(i) /\ Routes[i].action = Settle /\ "amount" \in Routes[i].props
  BY DEF AmountsSeen
<1>2. /\ Routes[i].key = r.key
      /\ \A j \in DOMAIN Routes : Routes[j].key = r.key => i <= j
      /\ "amount" \in DOMAIN r.body.kv
  BY <1>1 DEF PaymentRoute, Carries
<1>3. DOMAIN Routes \subseteq Nat
  BY ChainAssumption
<1>4. Edge!Matches(r) # {} /\ Edge!matchRoute(r) = Routes[i]
  BY <1>2, <1>3, Edge!FirstMatch, Configured, TokenAssumption, PDPAssumption, Zenon
<1>5. Inner!Matches(r) # {} /\ Inner!matchRoute(r) = Routes[i]
  BY <1>2, <1>3, Inner!FirstMatch, Configured, TokenAssumption, PDPAssumption, Zenon
<1>6. Edge!Settle = Settle /\ Inner!Settle = Settle
  BY Zenon DEF Settle, Name, Edge!Settle, Edge!Name, Inner!Settle, Inner!Name
<1>7. QED
  BY <1>1, <1>2, <1>4, <1>5, <1>6 DEF Edge!LiftsAmount, Inner!LiftsAmount

\* The inner PEP lets a payment whose total is high through at AAL3 only.
LEMMA TotalAllowed ==
  ASSUME CInv, AmountsSeen, iPc[h] # "idle", iOutcome[h].kind = "Allow", user.total = "high"
  PROVE  user.aal = "AAL3"
<1> DEFINE r   == iIn[h]
           req == Inner!buildRequest(r)
<1>1. Inner!IInv /\ Carries(r, Gateway, user.total)
  BY Requests DEF CInv
<1>2. Inner!LiftsAmount(r)
  BY <1>1, PaymentsMatch
<1>3. r.body.kv["amount"] = "high" /\ r.aal = user.aal
  BY <1>1 DEF Carries
<1>4. Inner!HighValue(req)
  BY <1>2, <1>3, Inner!HighAmount, Configured, TokenAssumption, PDPAssumption, Zenon
<1>5. req.action = Inner!Settle /\ req.subject.aal = r.aal
  BY <1>2, Inner!PaymentOnTheWire, Configured, TokenAssumption, PDPAssumption, Zenon
<1>6. Inner!HighValueNeedsAAL3
  BY <1>1, Inner!HighValueJustified, Configured, TokenAssumption, PDPAssumption, Zenon
<1>7. Backend = "opa" /\ h \in {h}
  BY DEF AmountsSeen
<1>8. req.subject.aal = "AAL3"
  BY <1>4, <1>5, <1>6, <1>7, Zenon DEF Inner!HighValueNeedsAAL3
<1>9. QED
  BY <1>3, <1>5, <1>8

\* A payment whose total is of high value succeeds at AAL3 only, whatever the edge
\* has allowed and whichever tokens travel along the chain.
THEOREM TotalAlwaysNeedsAAL3 ==
  ASSUME AmountsSeen
  PROVE  Spec => []TotalNeedsAAL3
<1>1. Init => TotalOK
  <2>1. Init => hop = "none" /\ user.st = "idle"
    BY UserSteps, Zenon DEF Init
  <2>2. hop = "none" /\ user.st = "idle" => TotalOK
    BY DEF TotalOK, TotalNeedsAAL3, Answered
  <2>3. QED
    BY <2>1, <2>2
<1>2. ASSUME CInv, TotalOK, [Next]_vars
      PROVE  TotalOK'
  <2>1. Edge!IInv /\ Inner!IInv /\ AttemptOK /\ ChallengesOK
    BY <1>2 DEF CInv
  <2>2. ASSUME (hop = "answered" /\ iReply[h].status = 200 /\ user.total = "high")'
        PROVE  user'.aal = "AAL3"
    <3>1. CASE InnerResponds
      <4>1. user' = user /\ iPc[h] # "idle"
        BY <2>1, <3>1, InnerAnswers
      <4>2. CASE iOutcome[h].kind = "Allow"
        BY <1>2, <2>2, <4>1, <4>2, TotalAllowed
      <4>3. CASE iOutcome[h].kind # "Allow"
        <5> DEFINE none == ""
        <5>1. \/ iReply'[h] = [status |-> 403, stepUp |-> "AAL3"]
              \/ iReply'[h] = [status |-> 403, stepUp |-> none]
          BY <2>1, <3>1, <4>3, InnerAnswers, Zenon DEF none
        <5> HIDE DEF none
        <5>2. iReply'[h].status = 403
          BY <5>1
        <5>3. QED
          BY <2>2, <5>2
      <4>4. QED
        BY <4>2, <4>3
    <3>2. CASE ~InnerResponds
      BY <1>2, <2>2, <3>2, CallStands DEF TotalOK
    <3>3. QED
      BY <3>1, <3>2
  <2>3. ASSUME (Answered /\ eReply[h].status = 200 /\ user.total = "high")'
        PROVE  user'.aal = "AAL3"
    <3>1. CASE EdgeResponds
      <4>1. user' = user
        BY <2>1, <3>1, EdgeAnswers
      <4>2. hop = "answered" /\ eReply'[h] = iReply[h]
        <5> DEFINE none == ""
        <5>1. \/ hop = "answered" /\ eReply'[h] = iReply[h]
              \/ eReply'[h].status = 401
              \/ eReply'[h] = [status |-> 401, stepUp |-> "AAL3"]
              \/ eReply'[h] = [status |-> 403, stepUp |-> none]
          BY <2>1, <3>1, EdgeAnswers, Zenon DEF none
        <5> HIDE DEF none
        <5>2. QED
          BY <2>3, <5>1
      <4>3. QED
        BY <1>2, <2>3, <4>1, <4>2 DEF TotalOK
    <3>2. CASE ~EdgeResponds
      BY <1>2, <2>3, <3>2, AnswerStands DEF TotalOK, TotalNeedsAAL3
    <3>3. QED
      BY <3>1, <3>2
  <2>4. QED
    BY <2>2, <2>3 DEF TotalOK, TotalNeedsAAL3
<1>3. TotalOK => TotalNeedsAAL3
  BY DEF TotalOK
<1>4. QED
  BY <1>1, <1>2, <1>3, ChainInvariant, PTL DEF Spec

-----------------------------------------------------------------------------
(* No dead ends.                                                           *)

\* In the deployment the properties ask for, a payment of the user passes every
\* gate of the front door and of the policy at the edge, and, coming from the
\* gateway, at the inner PEP.
LEMMA PaymentsPass ==
  ASSUME Deployed, NEW r, NEW cert, NEW amount \in {"low", "limit", "high"},
         Carries(r, cert, amount), user.aal \in AALs
  PROVE  Edge!PassesGates(r) /\ (cert = Gateway => Inner!PassesGates(r))
<1>1. AmountsSeen
  BY DEF Deployed
<1>2. PICK i \in DOMAIN Routes :
        PaymentRoute(i) /\ Edge!matchRoute(r) = Routes[i] /\ Inner!matchRoute(r) = Routes[i]
  BY <1>1, PaymentsMatch
<1>3. Edge!LiftsAmount(r) /\ Inner!LiftsAmount(r)
  BY <1>1, PaymentsMatch
<1>4. /\ Edge!Settle = Settle /\ Inner!Settle = Settle
      /\ Edge!required_attributes_for(Settle) = required_attributes_for(Settle)
      /\ Inner!required_attributes_for(Settle) = required_attributes_for(Settle)
      /\ isColonPair(Routes[i].type) = Edge!isColonPair(Routes[i].type)
      /\ isColonPair(Routes[i].type) = Inner!isColonPair(Routes[i].type)
      /\ Edge!Absent = Absent /\ Inner!Absent = Absent
      /\ \A v : Edge!Not(v) = Not(v) /\ Inner!Not(v) = Not(v)
  BY Zenon DEF Settle, Name, Edge!Settle, Edge!Name, Inner!Settle, Inner!Name,
               required_attributes_for, Edge!required_attributes_for,
               Inner!required_attributes_for, isColonPair, Edge!isColonPair,
               Inner!isColonPair, Not, Edge!Not, Inner!Not, Absent, Edge!Absent, Inner!Absent
<1>5. /\ isColonPair(Routes[i].type) /\ Routes[i].type.domain = Settle.domain
      /\ Settle.domain \in Domains /\ Gateway \in SpiffeIDs
      /\ required_attributes_for(Settle) \subseteq Routes[i].props \cap {"amount", "currency"}
  BY <1>2 DEF Deployed
<1>6. /\ r.subject = "u1" /\ r.aal \in {"AAL2", "AAL3"} /\ r.cert = cert
      /\ DOMAIN r.body.kv = {"amount", "currency"}
      /\ r.body.kv["amount"] = amount /\ r.body.kv["currency"] = "text"
  BY DEF Carries, AALs
<1>7. \A v \in {"low", "limit", "high", "text"} : v # Absent /\ ~Not(v)
  BY DEF Not, Absent
<1>8. "u1" \notin {"", "false", Absent} /\ Gateway # ""
  BY Zenon DEF Absent, Gateway
<1>9. \A attr \in required_attributes_for(Settle) :
        attr \in DOMAIN r.body.kv \cap Routes[i].props /\ ~Not(r.body.kv[attr])
  BY <1>5, <1>6, <1>7
<1>10. /\ ProfileEdge # Edge!ProfilePartner /\ ProfileEdge # Edge!ProfileEastWest
       /\ ProfileEastWest # Inner!ProfilePartner
  BY DEF ProfileEdge, ProfileEastWest, Edge!ProfilePartner, Edge!ProfileEastWest,
         Inner!ProfilePartner
<1>11. r.body.kv["amount"] # Absent
  BY <1>6, <1>7
<1>12. Edge!PassesGates(r)
  BY <1>2, <1>3, <1>4, <1>5, <1>6, <1>8, <1>9, <1>10, <1>11, Zenon DEF Edge!PassesGates
<1>13. ASSUME cert = Gateway PROVE Inner!PassesGates(r)
  <2>1. Inner!peerIdentity(r) = Gateway
    BY <1>6, <1>8, <1>13, Zenon DEF Inner!peerIdentity
  <2>2. Inner!peerIdentity(r) \in SpiffeIDs \ {""}
    BY <1>5, <1>8, <2>1, Zenon
  <2>3. QED
    BY <1>2, <1>3, <1>4, <1>5, <1>6, <1>8, <1>9, <1>10, <1>11, <2>2, Zenon
       DEF Inner!PassesGates
<1>14. QED
  BY <1>12, <1>13

\* Both PEPs serve payments that pass the gates.
LEMMA ServedPass ==
  ASSUME Deployed, AttemptOK
  PROVE  /\ ePc[h] # "idle" =>
              /\ Edge!PassesGates(eIn[h]) /\ eIn[h].body.ok /\ Edge!Matches(eIn[h]) # {}
              /\ eIn[h].aal = user.aal
         /\ iPc[h] # "idle" =>
              /\ Inner!PassesGates(iIn[h]) /\ iIn[h].body.ok /\ Inner!Matches(iIn[h]) # {}
              /\ iIn[h].aal = user.aal
<1>1. AmountsSeen /\ \A w \in Wants : {w.amount, w.total} \subseteq {"low", "limit", "high"}
  BY DEF Deployed
<1>2. iPc[h] # "idle" => ePc[h] # "idle"
  BY AttemptPlace
<1>3. ePc[h] # "idle" => /\ user.st = "waiting" /\ user.aal \in AALs
                         /\ user.amount \in {"low", "limit", "high"}
                         /\ user.total \in {"low", "limit", "high"}
  <2>1. ePc[h] # "idle" => user.st = "waiting"
    BY AttemptPlace
  <2>2. QED
    BY <1>1, <2>1, UserWants
<1>4. CASE ePc[h] # "idle"
  <2>1. Carries(eIn[h], "", user.amount)
    BY <1>4, Requests
  <2>2. Edge!PassesGates(eIn[h]) /\ Edge!Matches(eIn[h]) # {}
    BY <1>1, <1>3, <1>4, <2>1, PaymentsPass, PaymentsMatch
  <2>3. eIn[h].body.ok /\ eIn[h].aal = user.aal
    BY <2>1, Zenon DEF Carries
  <2>4. CASE iPc[h] # "idle"
    <3>1. Carries(iIn[h], Gateway, user.total)
      BY <2>4, Requests
    <3>2. Inner!PassesGates(iIn[h]) /\ Inner!Matches(iIn[h]) # {}
      BY <1>1, <1>3, <1>4, <3>1, PaymentsPass, PaymentsMatch
    <3>3. QED
      BY <2>2, <2>3, <3>1, <3>2 DEF Carries
  <2>5. QED
    BY <2>2, <2>3, <2>4
<1>5. QED
  BY <1>2, <1>4

\* What Check makes of a payment at the edge: it lets it through or challenges a
\* user at AAL2, unless the call of the PDP fails.
LEMMA EdgeChecked ==
  ASSUME Deployed, CInv, EdgeLadder, ePc'[h] = "enforce"
  PROVE  Promising(eOutcome[h])'
<1>1. Edge!IInv /\ AttemptOK /\ h \in {h} /\ Backend = "opa"
  BY DEF CInv, Deployed, AmountsSeen
<1>2. user' = user /\ ePc[h] # "idle"
  BY <1>1, EdgeLadderMoves
<1>3. CASE EdgeChecks \/ EdgePDPEvaluates
  <2>1. \/ Edge!CheckL0(h) \/ Edge!CheckL1(h) \/ Edge!CheckRevocation(h) \/ Edge!CheckL2(h)
        \/ Edge!PDPEvaluates(h) \/ Edge!CallReturns(h)
    BY <1>3 DEF EdgeChecks, EdgePDPEvaluates
  <2>2. ProfileEdge # Edge!ProfileEastWest
    BY DEF ProfileEdge, Edge!ProfileEastWest
  <2>3. /\ Edge!PassesGates(eIn[h]) /\ eIn[h].body.ok /\ Edge!Matches(eIn[h]) # {}
        /\ eIn[h].aal = user.aal
    BY <1>1, <1>2, ServedPass
  <2>4. \/ eOutcome'[h].kind = "Allow"
        \/ eOutcome'[h].kind = "DenyStepUp" /\ eIn[h].aal = "AAL2"
    BY <1>1, <2>1, <2>2, <2>3, Edge!PaymentChecked, Configured, TokenAssumption,
       PDPAssumption, Zenon
  <2>5. QED
    BY <1>2, <2>3, <2>4 DEF Promising
<1>4. CASE EdgeCallFails
  <2>1. Edge!CallFails(h) /\ faulty' = TRUE
    BY <1>4 DEF EdgeCallFails
  <2>2. eOutcome'[h].kind = "DenyForbidden"
    BY <1>1, <2>1, Edge!FailureDenies, Configured, TokenAssumption, PDPAssumption, Zenon
  <2>3. QED
    BY <2>1, <2>2 DEF Promising
<1>5. QED
  BY <1>3, <1>4 DEF EdgeLadder

\* The same at the inner PEP, where the gateway's certificate is attested.
LEMMA InnerChecked ==
  ASSUME Deployed, CInv, InnerLadder, iPc'[h] = "enforce"
  PROVE  Promising(iOutcome[h])'
<1>1. Inner!IInv /\ AttemptOK /\ h \in {h} /\ Backend = "opa"
  BY DEF CInv, Deployed, AmountsSeen
<1>2. user' = user /\ iPc[h] # "idle"
  BY <1>1, InnerLadderMoves
<1>3. CASE InnerChecks \/ InnerPDPEvaluates
  <2>1. /\ \/ Inner!CheckL0(h) \/ Inner!CheckL1(h) \/ Inner!CheckRevocation(h)
           \/ Inner!CheckL2(h) \/ Inner!PDPEvaluates(h) \/ Inner!CallReturns(h)
        /\ iPc[h] = "l0" => iPc'[h] = "l1"
    BY <1>3 DEF InnerChecks, InnerPDPEvaluates, Inner!PDPEvaluates
  <2>2. /\ Inner!PassesGates(iIn[h]) /\ iIn[h].body.ok /\ Inner!Matches(iIn[h]) # {}
        /\ iIn[h].aal = user.aal
    BY <1>1, <1>2, ServedPass
  <2>3. \/ iOutcome'[h].kind = "Allow"
        \/ iOutcome'[h].kind = "DenyStepUp" /\ iIn[h].aal = "AAL2"
    BY <1>1, <2>1, <2>2, Inner!PaymentChecked, Configured, TokenAssumption,
       PDPAssumption, Zenon
  <2>4. QED
    BY <1>2, <2>2, <2>3 DEF Promising
<1>4. CASE InnerCallFails
  <2>1. Inner!CallFails(h) /\ faulty' = TRUE
    BY <1>4 DEF InnerCallFails
  <2>2. iOutcome'[h].kind = "DenyForbidden"
    BY <1>1, <2>1, Inner!FailureDenies, Configured, TokenAssumption, PDPAssumption, Zenon
  <2>3. QED
    BY <2>1, <2>2 DEF Promising
<1>5. QED
  BY <1>3, <1>4 DEF InnerLadder

\* What Check returned stands until the edge has answered.
LEMMA EdgeStands ==
  ASSUME CInv, [Next]_vars, ~EdgeLadder, ePc'[h] = "enforce"
  PROVE  ePc[h] = "enforce" /\ eOutcome' = eOutcome /\ user' = user /\ (faulty => faulty')
<1>1. Edge!IInv /\ Inner!IInv /\ AttemptOK /\ ChallengesOK
  BY DEF CInv
<1>2. CASE Want \/ Retry \/ Leave
  <2>1. ePc[h] = "idle" /\ ePc' = ePc
    BY <1>1, <1>2, AttemptPlace DEF Want, Retry, Leave, Answered, eVars
  <2>2. QED
    BY <2>1
<1>3. CASE Send
  <2>1. ePc' = [ePc EXCEPT ![h] = "l0"] /\ ePc \in [{h} -> Edge!Labels]
    BY <1>1, <1>3 DEF Send, Edge!Arrive, Edge!IInv, Edge!TypeOK
  <2>2. QED
    BY <2>1
<1>4. CASE EdgeResponds
  BY <1>1, <1>4, EdgeAnswers
<1>5. CASE InnerLadder
  <2>1. UNCHANGED <<eVars, user>> /\ faulty' \in {faulty, TRUE}
    BY <1>1, <1>5, InnerLadderMoves, Zenon
  <2>2. UNCHANGED <<ePc, eOutcome, user>>
    BY <2>1 DEF eVars
  <2>3. faulty => faulty'
    BY <1>1, <2>1, AttemptPlace
  <2>4. QED
    BY <2>2, <2>3, Zenon
<1>6. CASE InnerResponds
  <2>1. UNCHANGED <<eVars, user>> /\ faulty' = (faulty \/ iReply'[h].status = 502)
    BY <1>1, <1>6, InnerAnswers, Zenon
  <2>2. faulty => faulty'
    BY <2>1, Zenon
  <2>3. UNCHANGED <<ePc, eOutcome, user>>
    BY <2>1 DEF eVars
  <2>4. QED
    BY <2>2, <2>3, Zenon
<1>7. CASE Forward \/ Tick \/ UNCHANGED vars
  BY <1>7 DEF Forward, Tick, Edge!Tick, Edge!handlerVars, vars, eVars
<1>8. QED
  BY <1>2, <1>3, <1>4, <1>5, <1>6, <1>7 DEF Next, EdgeLadder, InnerLadder

\* What Check returned stands until the inner PEP has answered.
LEMMA InnerStands ==
  ASSUME CInv, [Next]_vars, ~InnerLadder, iPc'[h] = "enforce"
  PROVE  iPc[h] = "enforce" /\ iOutcome' = iOutcome /\ user' = user /\ (faulty => faulty')
<1>1. Edge!IInv /\ Inner!IInv /\ AttemptOK /\ ChallengesOK
  BY DEF CInv
<1>2. CASE Want \/ Send \/ Retry \/ Leave
  <2>1. ePc[h] = "idle" /\ iPc' = iPc
    BY <1>1, <1>2, AttemptPlace DEF Want, Send, Retry, Leave, Answered, Edge!Arrive, iVars
  <2>2. QED
    BY <1>1, <2>1, AttemptPlace
<1>3. CASE Forward
  <2>1. iPc' = [iPc EXCEPT ![h] = "l0"] /\ iPc \in [{h} -> Inner!Labels]
    BY <1>1, <1>3 DEF Forward, Inner!IInv, Inner!TypeOK
  <2>2. QED
    BY <2>1
<1>4. CASE InnerResponds
  BY <1>1, <1>4, InnerAnswers
<1>5. CASE EdgeLadder
  BY <1>1, <1>5, EdgeLadderMoves, AttemptPlace DEF iVars
<1>6. CASE EdgeResponds
  <2>1. UNCHANGED <<iVars, user, faulty>>
    BY <1>1, <1>6, EdgeAnswers, Zenon
  <2>2. UNCHANGED <<iPc, iOutcome, user, faulty>>
    BY <2>1 DEF iVars
  <2>3. QED
    BY <2>2, Zenon
<1>7. CASE Tick \/ UNCHANGED vars
  BY <1>7 DEF Tick, vars, iVars
<1>8. QED
  BY <1>2, <1>3, <1>4, <1>5, <1>6, <1>7 DEF Next, EdgeLadder, InnerLadder

\* What the inner PEP answers is as hopeful as what its Check returned.
LEMMA InnerHopeful ==
  ASSUME CInv, InnerResponds, Promising(iOutcome[h])
  PROVE  CameBack(iReply[h])'
<1> DEFINE none == ""
<1>1. Inner!IInv /\ ChallengesOK
  BY DEF CInv
<1>2. /\ user' = user /\ faulty' = (faulty \/ iReply'[h].status = 502)
      /\ \/ /\ iOutcome[h].kind = "Allow"
            /\ \E status \in {200, 502} : iReply'[h] = [status |-> status, stepUp |-> none]
         \/ /\ iOutcome[h].kind = "DenyStepUp"
            /\ iReply'[h] = [status |-> 403, stepUp |-> "AAL3"]
         \/ /\ iOutcome[h].kind \notin {"Allow", "DenyStepUp"}
            /\ iReply'[h] = [status |-> 403, stepUp |-> none]
  BY <1>1, InnerAnswers, Zenon DEF none
<1>3. /\ \/ iReply'[h].status = 200 /\ iReply'[h].stepUp = none
         \/ iReply'[h].status = 403 /\ iReply'[h].stepUp = "AAL3" /\ user.aal = "AAL2"
         \/ faulty' /\ iReply'[h].status \in {403, 502} /\ iReply'[h].stepUp = none
  <2> HIDE DEF none
  <2>1. CASE \E status \in {200, 502} : iReply'[h] = [status |-> status, stepUp |-> none]
    <3>1. \/ iReply'[h].status = 200 /\ iReply'[h].stepUp = none
          \/ iReply'[h].status = 502 /\ iReply'[h].stepUp = none
      BY <2>1
    <3>2. iReply'[h].status = 502 => faulty'
      BY <1>2, Zenon
    <3>3. QED
      BY <3>1, <3>2
  <2>2. CASE /\ iOutcome[h].kind = "DenyStepUp"
             /\ iReply'[h] = [status |-> 403, stepUp |-> "AAL3"]
    BY <2>2 DEF Promising
  <2>3. CASE /\ iOutcome[h].kind \notin {"Allow", "DenyStepUp"}
             /\ iReply'[h] = [status |-> 403, stepUp |-> none]
    <3>1. faulty'
      <4>1. faulty
        BY <2>3 DEF Promising
      <4>2. QED
        BY <1>2, <4>1, Zenon
    <3>2. QED
      BY <2>3, <3>1
  <2>4. QED
    BY <1>2, <2>1, <2>2, <2>3, Zenon
<1>4. QED
  BY <1>2, <1>3, Zenon DEF CameBack, none

\* So the edge's answer is no dead end.
LEMMA EdgeHopeful ==
  ASSUME CInv, EdgeResponds, Promising(eOutcome[h]),
         hop = "answered" => CameBack(iReply[h])
  PROVE  NoDeadEnd'
<1> DEFINE none == ""
<1>1. Edge!IInv /\ ChallengesOK
  BY DEF CInv
<1>2. /\ user' = user /\ faulty' = faulty
      /\ \/ /\ hop = "answered" /\ iReply[h].stepUp = none /\ eReply'[h] = iReply[h]
         \/ /\ hop = "answered" /\ iReply[h].stepUp = "AAL3"
            /\ eReply'[h].status = 401 /\ eReply'[h].stepUp = "AAL3"
         \/ /\ eOutcome[h].kind = "DenyStepUp"
            /\ eReply'[h] = [status |-> 401, stepUp |-> "AAL3"]
         \/ /\ eOutcome[h].kind \notin {"Allow", "DenyStepUp"}
            /\ eReply'[h] = [status |-> 403, stepUp |-> none]
  BY <1>1, EdgeAnswers, Zenon DEF none
<1>3. hop = "answered" =>
        \/ iReply[h].status = 200 /\ iReply[h].stepUp = none
        \/ iReply[h].status = 403 /\ iReply[h].stepUp = "AAL3" /\ user.aal = "AAL2"
        \/ faulty /\ iReply[h].status \in {403, 502} /\ iReply[h].stepUp = none
  BY Zenon DEF CameBack, none
<1>4. none # "AAL3"
  OBVIOUS
<1>5. AALRank("AAL3") = 3 /\ AALRank("AAL2") = 2
  BY DEF AALRank
<1> HIDE DEF none
<1>6. \/ eReply'[h].status = 200
      \/ eReply'[h].status = 401 /\ eReply'[h].stepUp = "AAL3" /\ user.aal = "AAL2"
      \/ faulty' /\ eReply'[h].status \in {403, 502}
  <2>1. CASE hop = "answered" /\ iReply[h].stepUp = none /\ eReply'[h] = iReply[h]
    BY <1>2, <1>3, <1>4, <2>1
  <2>2. CASE /\ hop = "answered" /\ iReply[h].stepUp = "AAL3"
             /\ eReply'[h].status = 401 /\ eReply'[h].stepUp = "AAL3"
    BY <1>3, <1>4, <2>2
  <2>3. CASE /\ eOutcome[h].kind = "DenyStepUp"
             /\ eReply'[h] = [status |-> 401, stepUp |-> "AAL3"]
    BY <2>3 DEF Promising
  <2>4. CASE /\ eOutcome[h].kind \notin {"Allow", "DenyStepUp"}
             /\ eReply'[h] = [status |-> 403, stepUp |-> none]
    BY <1>2, <2>4 DEF Promising
  <2>5. QED
    BY <1>2, <2>1, <2>2, <2>3, <2>4, Zenon
<1>7. AALRank("AAL3") > AALRank("AAL2")
  BY <1>5
<1>8. QED
  BY <1>2, <1>6, <1>7, Zenon DEF NoDeadEnd

\* A user who follows the challenges gets through: in a deployment whose routes
\* and policy agree, an attempt of which no call failed ends in success or in a
\* challenge for a level the user does not have yet.
THEOREM NeverADeadEnd ==
  ASSUME Deployed
  PROVE  Spec => []NoDeadEnd
<1>1. Init => NoDeadEndOK
  <2>1. Init => hop = "none" /\ user.st = "idle" /\ ePc[h] = "idle" /\ iPc[h] = "idle"
    BY UserSteps, InitAttempt, AttemptPlace, Zenon DEF Init
  <2>2. hop = "none" /\ user.st = "idle" /\ ePc[h] = "idle" /\ iPc[h] = "idle" => NoDeadEndOK
    BY DEF NoDeadEndOK, NoDeadEnd, Answered
  <2>3. QED
    BY <2>1, <2>2
<1>2. ASSUME CInv, NoDeadEndOK, [Next]_vars
      PROVE  NoDeadEndOK'
  <2>1. ASSUME ePc'[h] = "enforce" PROVE Promising(eOutcome[h])'
    <3>1. CASE EdgeLadder
      BY <1>2, <2>1, <3>1, EdgeChecked
    <3>2. CASE ~EdgeLadder
      BY <1>2, <2>1, <3>2, EdgeStands DEF NoDeadEndOK, Promising
    <3>3. QED
      BY <3>1, <3>2
  <2>2. ASSUME iPc'[h] = "enforce" PROVE Promising(iOutcome[h])'
    <3>1. CASE InnerLadder
      BY <1>2, <2>2, <3>1, InnerChecked
    <3>2. CASE ~InnerLadder
      BY <1>2, <2>2, <3>2, InnerStands DEF NoDeadEndOK, Promising
    <3>3. QED
      BY <3>1, <3>2
  <2>3. ASSUME hop' = "answered" PROVE CameBack(iReply[h])'
    <3>1. CASE InnerResponds
      <4>1. iPc[h] = "enforce"
        BY <1>2, <3>1, InnerAnswers DEF CInv
      <4>2. QED
        BY <1>2, <3>1, <4>1, InnerHopeful DEF NoDeadEndOK
    <3>2. CASE ~InnerResponds
      <4>1. /\ hop = "answered" /\ user' = user /\ iReply' = iReply /\ (faulty => faulty')
        BY <1>2, <2>3, <3>2, CallStands
      <4>2. CameBack(iReply[h])
        BY <1>2, <4>1 DEF NoDeadEndOK
      <4>3. QED
        BY <4>1, <4>2, Zenon DEF CameBack
    <3>3. QED
      BY <3>1, <3>2
  <2>4. NoDeadEnd'
    <3>1. CASE EdgeResponds
      <4>1. ePc[h] = "enforce"
        BY <1>2, <3>1, EdgeAnswers DEF CInv
      <4>2. hop = "answered" => CameBack(iReply[h])
        BY <1>2 DEF NoDeadEndOK
      <4>3. QED
        BY <1>2, <3>1, <4>1, <4>2, EdgeHopeful DEF NoDeadEndOK
    <3>2. CASE ~EdgeResponds
      <4>1. CASE Answered'
        <5>1. Answered /\ user' = user /\ eReply' = eReply /\ (faulty => faulty')
          BY <1>2, <3>2, <4>1, AnswerStands
        <5>2. NoDeadEnd
          BY <1>2 DEF NoDeadEndOK
        <5>3. QED
          BY <5>1, <5>2, Zenon DEF NoDeadEnd
      <4>2. QED
        BY <4>1 DEF NoDeadEnd
    <3>3. QED
      BY <3>1, <3>2
  <2>5. QED
    BY <2>1, <2>2, <2>3, <2>4 DEF NoDeadEndOK
<1>3. NoDeadEndOK => NoDeadEnd
  BY DEF NoDeadEndOK
<1>4. QED
  BY <1>1, <1>2, <1>3, ChainInvariant, PTL DEF Spec
=============================================================================
