-------------------------------- MODULE Chain --------------------------------
(***************************************************************************)
(* Two PEPs in a row, as the reference topology deploys them: a user       *)
(* behind an edge PEP, a service behind it that computes a total and calls *)
(* on, and an east-west PEP in front of the final service, both asking one *)
(* PDP.  The step-up requirement of the inner PEP bubbles up to the edge,  *)
(* which challenges the user, who re-authenticates and tries again; tokens *)
(* minted at one hop are presented at the other.                           *)
(*                                                                         *)
(* Both PEPs are instances of PEP, taken from PEPProofs, which adds to it  *)
(* nothing but the theorems the proofs about the chain rest on.  The user  *)
(* and the services are not in the repository: they do what its documents  *)
(* ask of them.                                                            *)
(***************************************************************************)
EXTENDS PDP, Integers, FiniteSets

CONSTANTS
  Wants,      \* what users ask for: amount, total, and their level at first
  Routes,     \* the route table of both PEPs
  MaxTime, MaxMinted

\* A session starts at AAL2, below which the policy denies without a challenge.
AALs == {"AAL2", "AAL3"}

ASSUME ChainAssumption ==
  /\ Wants \subseteq [aal : AALs, amount : AttrValues, total : AttrValues]
  /\ MaxTime \in Nat
  /\ MaxMinted \in Nat
  /\ DOMAIN Routes \subseteq Nat

VARIABLES
  ePc, eIn, eTok, eResp, eOutcome, eReply, eTried,  \* the edge PEP's handler
  iPc, iIn, iTok, iResp, iOutcome, iReply, iTried,  \* the inner PEP's handler
  held, now, minted,                                \* shared, see PEP
  user,     \* the user's request and level of assurance
  hop,      \* the service in the middle: "none", "called", "answered"
  faulty    \* history: a call of this attempt has failed

eVars == <<ePc, eIn, eTok, eResp, eOutcome, eReply, eTried>>
iVars == <<iPc, iIn, iTok, iResp, iOutcome, iReply, iTried>>
vars == <<eVars, iVars, held, now, minted, user, hop, faulty>>

Gateway == "spiffe://gw"

Payment(amount) == [ok |-> TRUE, kv |-> [amount |-> amount, currency |-> "text"]]

NoWant == [st |-> "idle", aal |-> "", amount |-> "", total |-> ""]

Call(cert, aal, amount) ==
  [cert |-> cert, hdr |-> "", key |-> "POST /settle", subject |-> "u1", aal |-> aal,
   rid |-> "w1", partner |-> "", body |-> Payment(amount)]

EdgeInbound  == {Call("", aal, w.amount) : aal \in AALs, w \in Wants}
InnerInbound == {Call(Gateway, aal, w.total) : aal \in AALs, w \in Wants}

h == "handler"

Edge == INSTANCE PEPProofs WITH
  Handlers <- {h}, Inbound <- EdgeInbound, ForeignRequests <- {},
  EventSubjects <- {}, Profile <- ProfileEdge, RequirePeerSVID <- FALSE,
  FastPath <- TRUE, CAEPEnabled <- FALSE, Revocable <- {}, Skew <- 0,
  pc <- ePc, in <- eIn, tok <- eTok, resp <- eResp, outcome <- eOutcome,
  reply <- eReply, triedAt <- eTried, blocked <- [x \in {h} |-> FALSE], revoked <- {},
  distrusted <- {}

Inner == INSTANCE PEPProofs WITH
  Handlers <- {h}, Inbound <- InnerInbound, ForeignRequests <- {},
  EventSubjects <- {}, Profile <- ProfileEastWest, RequirePeerSVID <- TRUE,
  FastPath <- TRUE, CAEPEnabled <- FALSE, Revocable <- {}, Skew <- 0,
  pc <- iPc, in <- iIn, tok <- iTok, resp <- iResp, outcome <- iOutcome,
  reply <- iReply, triedAt <- iTried, blocked <- [x \in {h} |-> FALSE], revoked <- {},
  distrusted <- {}

Init ==
  /\ Edge!Init
  /\ Inner!Init
  /\ user = NoWant
  /\ hop = "none"
  /\ faulty = FALSE

-----------------------------------------------------------------------------
(* The user.                                                               *)

Want ==
  /\ user.st = "idle"
  /\ \E w \in Wants : user' = [NoWant EXCEPT !.st = "asking", !.aal = w.aal,
                                             !.amount = w.amount, !.total = w.total]
  /\ UNCHANGED <<eVars, iVars, held, now, minted, hop, faulty>>

Send ==
  /\ user.st = "asking"
  /\ Edge!Arrive(h)
  /\ eIn'[h] = Call("", user.aal, user.amount)
  /\ eTok'[h] # BadToken
  /\ user' = [user EXCEPT !.st = "waiting"]
  /\ faulty' = FALSE
  /\ UNCHANGED <<iVars, hop>>

Answered == user.st = "waiting" /\ ePc[h] = "idle"

\* A challenged user re-authenticates to the level asked for and tries again.
Retry ==
  /\ Answered
  /\ eReply[h].status = 401
  /\ user' = [user EXCEPT !.st = "asking", !.aal = eReply[h].stepUp]
  /\ UNCHANGED <<eVars, iVars, held, now, minted, hop, faulty>>

Leave ==
  /\ Answered
  /\ eReply[h].status # 401
  /\ user' = NoWant
  /\ UNCHANGED <<eVars, iVars, held, now, minted, hop, faulty>>

-----------------------------------------------------------------------------
(* The PEPs between arrival and answer.                                    *)

EdgeChecks ==
  /\ \/ Edge!CheckL0(h) \/ Edge!CheckL1(h) \/ Edge!CheckRevocation(h)
     \/ Edge!CheckL2(h) \/ Edge!CallReturns(h)
  /\ UNCHANGED <<iVars, user, hop, faulty>>

EdgePDPEvaluates ==
  /\ Edge!PDPEvaluates(h)
  /\ UNCHANGED <<iVars, user, hop, faulty>>

EdgeCallFails ==
  /\ Edge!CallFails(h)
  /\ faulty' = TRUE
  /\ UNCHANGED <<iVars, user, hop>>

InnerChecks ==
  /\ \/ Inner!CheckL0(h) \/ Inner!CheckL1(h) \/ Inner!CheckRevocation(h)
     \/ Inner!CheckL2(h) \/ Inner!CallReturns(h)
  /\ (iPc[h] = "l0" => iPc'[h] = "l1")  \* the gateway's certificate is attested
  /\ UNCHANGED <<eVars, user, hop, faulty>>

InnerPDPEvaluates ==
  /\ Inner!PDPEvaluates(h)
  /\ UNCHANGED <<eVars, user, hop, faulty>>

InnerCallFails ==
  /\ Inner!CallFails(h)
  /\ faulty' = TRUE
  /\ UNCHANGED <<eVars, user, hop>>

\* The edge lets the request through.  The service keeps its subject, level and
\* resource, puts in the total, and passes a token on: the edge's, one it was
\* given earlier, or none.
Forward ==
  /\ ePc[h] = "enforce" /\ eOutcome[h].kind = "Allow" /\ hop = "none"
  /\ iPc[h] = "idle"
  /\ \E t \in held \cup {eOutcome[h].tok, NoToken} :
       iTok' = [iTok EXCEPT ![h] = t]
  /\ iIn' = [iIn EXCEPT ![h] = Call(Gateway, eIn[h].aal, user.total)]
  /\ iPc' = [iPc EXCEPT ![h] = "l0"]
  /\ iReply' = [iReply EXCEPT ![h] = Inner!NoReply]
  /\ hop' = "called"
  /\ UNCHANGED <<eVars, iResp, iOutcome, iTried, held, now, minted, user, faulty>>

\* The inner PEP refuses, or the final service answers, or it cannot be reached.
InnerResponds ==
  /\ hop = "called"
  /\ Inner!Respond(h)
  /\ iOutcome[h].kind = "Allow" => iReply'[h].status \in {200, 502}
  /\ hop' = "answered"
  /\ faulty' = (faulty \/ iReply'[h].status = 502)
  /\ UNCHANGED <<eVars, user>>

\* What came back from the middle service, unchanged, becomes the edge's answer.
EdgeResponds ==
  /\ Edge!Respond(h)
  /\ eOutcome[h].kind = "Allow" =>
       hop = "answered" /\ eReply'[h] = Edge!Rewrite(iReply[h])
  /\ hop' = "none"
  /\ UNCHANGED <<iVars, user, faulty>>

Tick ==
  /\ Edge!Tick
  /\ UNCHANGED <<iVars, user, hop, faulty>>

Next ==
  \/ Want \/ Send \/ Retry \/ Leave
  \/ EdgeChecks \/ EdgePDPEvaluates \/ EdgeCallFails \/ EdgeResponds
  \/ Forward
  \/ InnerChecks \/ InnerPDPEvaluates \/ InnerCallFails \/ InnerResponds
  \/ Tick

Spec == Init /\ [][Next]_vars

\* What somebody owes the attempt under way, and that is one step at a time: the
\* ladders and the timeouts of the HTTP clients as in PEP, and an answer of the
\* services in between, since nothing in the proxy would end a request to one
\* that does not answer.  The PDP owes nothing.
Owed ==
  \/ EdgeChecks \/ EdgeResponds \/ Forward \/ InnerChecks \/ InnerResponds
  \/ Transport = "http" /\ (EdgeCallFails \/ InnerCallFails)

Fairness == WF_vars(Owed)

FairSpec == Spec /\ Fairness

-----------------------------------------------------------------------------
(* Properties.                                                             *)

\* Type invariant.  A challenge names a level.
TypeOK ==
  /\ Edge!TypeOK /\ Inner!TypeOK
  /\ user.st \in {"idle", "asking", "waiting"}
  /\ user.st # "idle" => user.aal \in AALs
  /\ hop \in {"none", "called", "answered"}
  /\ hop # "none" => ePc[h] = "enforce"
  /\ faulty \in BOOLEAN

\* A step-up requirement of either PEP reaches the user as a challenge for a
\* level the user does not have yet, and a user who follows it gets through:
\* an attempt of which no call failed ends in success or in such a challenge,
\* never in a refusal.
NoDeadEnd ==
  Answered =>
    \/ eReply[h].status = 200
    \/ eReply[h].status = 401 /\ AALRank(eReply[h].stepUp) > AALRank(user.aal)
    \/ faulty /\ eReply[h].status \in {403, 502}

\* A payment whose total is of high value succeeds only for a user at AAL3,
\* although the edge has seen and allowed a smaller amount and its token travels
\* on with the request.
TotalNeedsAAL3 ==
  Answered /\ eReply[h].status = 200 /\ user.total = "high" => user.aal = "AAL3"

\* Every attempt is answered, although the PDP may be silent at either hop.
ChainAnswers == user.st = "waiting" ~> Answered
-----------------------------------------------------------------------------
(* What the properties ask of the deployment.                              *)

\* The first route a payment matches.
PaymentRoute(i) ==
  /\ i \in DOMAIN Routes /\ Routes[i].key = "POST /settle"
  /\ \A j \in DOMAIN Routes : Routes[j].key = "POST /settle" => i <= j

\* TotalNeedsAAL3: the policy decides on payments and sees their amounts.
AmountsSeen ==
  /\ Backend = "opa"
  /\ \E i \in DOMAIN Routes :
       PaymentRoute(i) /\ Routes[i].action = Settle /\ "amount" \in Routes[i].props

\* NoDeadEnd: nothing but the level of the user can stand in the way of a payment.
Deployed ==
  /\ AmountsSeen
  /\ Settle.domain \in Domains /\ Gateway \in SpiffeIDs
  /\ \A i \in DOMAIN Routes : PaymentRoute(i) =>
       /\ isColonPair(Routes[i].type) /\ Routes[i].type.domain = Settle.domain
       /\ required_attributes_for(Settle) \subseteq Routes[i].props
  /\ required_attributes_for(Settle) \subseteq {"amount", "currency"}
  /\ \A w \in Wants : {w.amount, w.total} \subseteq {"low", "limit", "high"}

-----------------------------------------------------------------------------
(* The invariant behind the properties.                                    *)

\* A user asks for one of the payments, at one of the levels.
UserOK(u) ==
  /\ u \in [st : {"idle", "asking", "waiting"}, aal : AALs \cup {""},
            amount : AttrValues \cup {""}, total : AttrValues \cup {""}]
  /\ u.st # "idle" =>
       u.aal \in AALs /\ \E w \in Wants : u.amount = w.amount /\ u.total = w.total

\* Whom everybody serves: the edge the user's attempt, the middle service the
\* request the edge let through, the inner PEP the call of that service.
AttemptOK ==
  /\ UserOK(user)
  /\ ePc[h] # "idle" => user.st = "waiting" /\ eIn[h] = Call("", user.aal, user.amount)
  /\ hop # "none" => ePc[h] = "enforce" /\ eOutcome[h].kind = "Allow"
  /\ iPc[h] # "idle" => hop = "called" /\ iIn[h] = Call(Gateway, user.aal, user.total)
  /\ hop = "called" => iPc[h] # "idle"
  /\ hop \in {"none", "called", "answered"} /\ faulty \in BOOLEAN

\* The policy asks for one level only, and only the edge challenges.
ChallengesOK ==
  /\ eOutcome[h].kind = "DenyStepUp" => eOutcome[h].acr = "AAL3"
  /\ iOutcome[h].kind = "DenyStepUp" => iOutcome[h].acr = "AAL3"
  /\ eReply[h].status = 401 => eReply[h].stepUp = "AAL3"
  /\ iReply[h] \in [status : {0, 200, 403, 502}, stepUp : {"", "AAL3"}]

CInv == Edge!IInv /\ Inner!IInv /\ AttemptOK /\ ChallengesOK

\* The inner PEP lets a payment of high value through at AAL3 only, whichever
\* token the edge's user brought.
TotalOK ==
  /\ hop = "answered" /\ iReply[h].status = 200 /\ user.total = "high" =>
       user.aal = "AAL3"
  /\ TotalNeedsAAL3

\* What may come of one PEP's Check: a challenge is for a user at AAL2, and a
\* refusal without one is a failed call's.
Promising(out) ==
  \/ out.kind = "Allow"
  \/ out.kind = "DenyStepUp" /\ user.aal = "AAL2"
  \/ out.kind = "DenyForbidden" /\ faulty

\* What the inner PEP's answer tells the middle service.
CameBack(rep) ==
  \/ rep.status = 200 /\ rep.stepUp = ""
  \/ rep.status = 403 /\ rep.stepUp = "AAL3" /\ user.aal = "AAL2"
  \/ faulty /\ rep.status \in {403, 502} /\ rep.stepUp = ""

NoDeadEndOK ==
  /\ ePc[h] = "enforce" => Promising(eOutcome[h])
  /\ iPc[h] = "enforce" => Promising(iOutcome[h])
  /\ hop = "answered" => CameBack(iReply[h])
  /\ NoDeadEnd
=============================================================================
