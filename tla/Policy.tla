------------------------------- MODULE Policy -------------------------------
(***************************************************************************)
(* The Rego policy the embedded OPA engine evaluates: the platform gates   *)
(* (policies/main.rego, global, lib, profiles) and the acct domain of the  *)
(* repository's own policy fixture, which has the shape of the reference   *)
(* domains: a high-value settlement needs AAL3, a standard one AAL2.       *)
(*                                                                         *)
(* A JSON attribute value is its class in Rego's total order over values,  *)
(* null < false < true < numbers < strings: "low", "limit" (5,000,000) and *)
(* "high" are numbers below, at and above the domain's threshold.          *)
(***************************************************************************)
EXTENDS AuthZEN, Sequences

CONSTANTS
  RequiredAttributes,  \* data.json: the attributes an action must supply
  Domains,             \* the domains the bundle has a policy for
  SpiffeIDs            \* the identities that start with spiffe://

AttrValues == {"null", "false", "true", "low", "limit", "high", "text"}

RegoOrder(v) == CASE v = "null"  -> 0
                  [] v = "false" -> 1
                  [] v = "true"  -> 2
                  [] v = "low"   -> 3
                  [] v = "limit" -> 4
                  [] v = "high"  -> 5
                  [] v = "text"  -> 6

\* `not x` succeeds when x is undefined or false; "" and null are neither.
Not(v) == v \in {Absent, "false"}

-----------------------------------------------------------------------------
(* Gates 1-3.                                                              *)

schema_violations(req) ==
  LET broken ==
        [subject_type    |-> req.subject.type \notin {"user", "workload"},
         subject_id      |-> Not(req.subject.id),
         action_name     |-> ~isColonPair(req.action),
         resource_type   |-> ~isColonPair(req.resource.type),
         domain_mismatch |-> /\ isColonPair(req.action)
                             /\ isColonPair(req.resource.type)
                             /\ req.action.domain # req.resource.type.domain]
  IN  {v \in DOMAIN broken : broken[v]}

required_attributes_for(action) ==
  IF action \in DOMAIN RequiredAttributes THEN RequiredAttributes[action] ELSE {}

\* Defect: one attribute that is supplied is taken for all of them.
missing_all_violations(req) ==
  {attr \in required_attributes_for(req.action) :
     \A a \in required_attributes_for(req.action) : Not(Get(req.resource.props, a))}

missing_required_violations(req) ==
  {attr \in required_attributes_for(req.action) : Not(Get(req.resource.props, attr))}

valid_workload_act(act) == act.type = "workload" /\ act.id \in SpiffeIDs

profile_violations(req) ==
  LET profile == req.context.profile
      act     == req.subject.act
      broken  ==
        [source_ip  |-> profile = ProfileEdge /\ Not(req.context.source_ip),
         act        |-> profile = ProfileEastWest /\ act = NoAct,
         act_kind   |-> profile = ProfileEastWest /\ act # NoAct /\ ~valid_workload_act(act),
         partner_id |-> profile = ProfilePartner /\ Not(req.context.partner_id)]
  IN  {v \in DOMAIN broken : broken[v]}

Violated(req) ==
  \/ schema_violations(req) # {}
  \/ missing_required_violations(req) # {}
  \/ profile_violations(req) # {}

-----------------------------------------------------------------------------
(* Gate 4: the domain's verdict.                                           *)

\* Undefined, hence false, when either level is unknown.
aal_at_least(have, want) == AALRank(have) # 0 /\ AALRank(have) >= AALRank(want)

\* Defect: the level asked for is not the level needed.
step_up_too_low(acr) == [type |-> "step_up", required_acr |-> "AAL2"]

step_up(acr) == [type |-> "step_up", required_acr |-> acr]
audit        == [type |-> "log", required_acr |-> Absent]

Settle == Name("acct", "settle")
HighValue(req) ==
  RegoOrder(Get(req.resource.props, "amount")) > RegoOrder("limit")

acct_verdict(req) ==
  LET aal == req.subject.aal IN
  IF req.action # Settle \/ Get(req.resource.props, "amount") = Absent
  THEN Verdict(FALSE, <<>>, "acct_denied")
  ELSE IF HighValue(req)
  THEN IF aal_at_least(aal, "AAL3")
       THEN Verdict(TRUE, <<audit>>, "acct_settle_ok")
       ELSE Verdict(FALSE, <<step_up("AAL3"), audit>>, "step_up_required")
  ELSE IF aal_at_least(aal, "AAL2")
       THEN Verdict(TRUE, <<audit>>, "acct_settle_standard")
       ELSE Verdict(FALSE, <<>>, "acct_denied")

-----------------------------------------------------------------------------
(* data.vsp.authz.decision: fail closed at every gate.                     *)

Decision(req) ==
  IF Violated(req)
  THEN Verdict(FALSE, <<audit>>, "request_invalid")
  ELSE IF req.resource.type.domain \notin Domains
  THEN Verdict(FALSE, <<audit>>, "unknown_domain")
  ELSE acct_verdict(req)
=============================================================================
