------------------------------- MODULE MCPEP -------------------------------
(***************************************************************************)
(* Finite instances of PEP for TLC: one route table and request set per    *)
(* deployment in the repository's tests (edge, east-west, partner).        *)
(***************************************************************************)
EXTENDS PEPRefinement, TLC

CONSTANTS h1, h2

TwoHandlers == {h1, h2}
OneHandler  == {h1}
Symmetry    == Permutations({h1, h2})

\* data.required_attributes of the policy fixture.
FixtureRequired == (Settle :> {"amount", "currency"})
FixtureDomains  == {"acct"}
Workloads       == {"spiffe://gw", "spiffe://batch"}

-----------------------------------------------------------------------------
SettleRoute == [key |-> "POST /settle", action |-> Settle,
                type |-> Name("acct", "wallet"), props |-> {"amount", "currency"}]
\* A route that lifts nothing from the body.
ReadRoute   == [key |-> "GET /statement", action |-> Name("acct", "read"),
                type |-> Name("acct", "wallet"), props |-> {}]
\* A later entry for the same invocation is shadowed by the first.
ShadowRoute == [SettleRoute EXCEPT !.action = Name("acct", "read")]

SettleRoutes == <<SettleRoute, ShadowRoute>>

Payment(amount) == [ok |-> TRUE, kv |-> [amount |-> amount, currency |-> "text", note |-> "text"]]
Garbage         == [ok |-> FALSE, kv |-> EmptyMap.kv]
NoBody          == [ok |-> TRUE, kv |-> EmptyMap.kv]

Req(subject, aal, body) ==
  [NoInbound EXCEPT !.key = "POST /settle", !.subject = subject, !.aal = aal,
                    !.rid = "w1", !.body = body]

-----------------------------------------------------------------------------
(* Edge: subject, assurance and amount vary; a malformed body and a route  *)
(* that is not in the table.                                               *)

EdgeInbound ==
  { Req("u1", "AAL2", Payment("limit")),
    Req("u1", "AAL2", Payment("high")),
    Req("u1", "AAL3", Payment("high")),
    Req("u2", "AAL3", Payment("limit")),
    Req("", "AAL3", Payment("low")),
    Req("u1", "AAL3", Garbage),
    [Req("u1", "AAL3", NoBody) EXCEPT !.key = "GET /other"] }

NoForeign == {}

-----------------------------------------------------------------------------
(* East-west: the caller comes from the certificate, from the header, is   *)
(* not a SPIFFE id, or is missing.  The edge PEP upstream has obtained a   *)
(* decision for the same tuple and forwards its token.                     *)

Call(cert, hdr, aal) ==
  [Req("u1", aal, Payment("high")) EXCEPT !.cert = cert, !.hdr = hdr]

EastWestInbound ==
  { Call("spiffe://gw", "spiffe://batch", "AAL3"),
    Call("", "spiffe://batch", "AAL3"),
    Call("", "legacy", "AAL3"),
    Call("", "", "AAL3"),
    Call("spiffe://gw", "", "AAL2") }

EdgeDecision ==
  [subject  |-> [type |-> "user", id |-> "u1", aal |-> "AAL3", act |-> NoAct],
   action   |-> Settle,
   resource |-> [type |-> Name("acct", "wallet"), id |-> "w1",
                 props |-> GoMap([amount |-> "high", currency |-> "text"])],
   context  |-> [profile |-> "edge", source_ip |-> "ip", partner_id |-> Absent]]
ForwardedTokens == {EdgeDecision}

-----------------------------------------------------------------------------
(* Small sets: one standard and one high-value request; the partner's.     *)

FewInbound == { Req("u1", "AAL2", Payment("low")), Req("u1", "AAL2", Payment("high")) }

PartnerInbound ==
  { [r EXCEPT !.partner = p] : r \in FewInbound, p \in {"", "bank"} }

-----------------------------------------------------------------------------
(* A route that lifts nothing from the body, for the owner of the object,  *)
(* another user and no object, decided by the relationship engine.         *)

ReadRoutes == <<ReadRoute>>

Read(subject, id) ==
  [NoInbound EXCEPT !.key = "GET /statement", !.subject = subject, !.aal = "AAL2", !.rid = id]
ReadInbound == { Read(s, id) : s \in {"u1", "u2"}, id \in {"w1", ""} }
OwnerTuples == { <<"u1", <<"can", "read">>, <<"wallet", "w1">> >> }
PayerTuples == { <<"u1", <<"can", "settle">>, <<"wallet", "w1">> >> }
=============================================================================
