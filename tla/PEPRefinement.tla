--------------------------- MODULE PEPRefinement ---------------------------
(***************************************************************************)
(* PEP implements Enforcement.  The rungs below the revocation check are   *)
(* the abstract "asked", the rungs above it "cleared"; a handler whose PDP *)
(* response allows is "relying" on the grant the PDP put on record.        *)
(***************************************************************************)
EXTENDS PEP

Tuple(req) == <<req.subject.id, req.action, req.resource.type, req.resource.id,
                req.resource.props.kv>>

\* A request without a route asks for nothing that can be granted.
AskOf(r) ==
  IF Matches(r) = {}
  THEN [tuple |-> <<>>, level |-> 0, subject |-> r.subject]
  ELSE [tuple |-> Tuple(buildRequest(r)), level |-> AALRank(r.aal), subject |-> r.subject]

AllAsks == {AskOf(r) : r \in Inbound}
NothingAsked == AskOf(NoInbound)

GrantOf(m) == [tuple |-> Tuple(m.req), level |-> AALRank(m.req.subject.aal), at |-> m.at]

StageOf(h) ==
  CASE pc[h] = "idle" -> "idle"
    [] pc[h] \in {"l0", "l1", "revocation"} -> "asked"
    [] pc[h] = "enforce" -> IF outcome[h].kind = "Allow" THEN "allowed" ELSE "denied"
    [] OTHER -> IF resp[h].decision THEN "relying" ELSE "cleared"

\* The abstract variables.  An empty subject is never looked up, and never granted
\* anything.
stageBar  == [h \in Handlers |-> StageOf(h)]
askedBar  == [h \in Handlers |-> AskOf(in[h])]
grantsBar == {GrantOf(m) : m \in minted}
barredBar == revoked \ {""}

\* A token lives for TTL by the PDP's clock, which the PEP's lags by Skew.
Abstract == INSTANCE Enforcement WITH
  Asks   <- AllAsks,
  NoAsk  <- NothingAsked,
  Life   <- TTL + Skew,
  stage  <- stageBar,
  asked  <- askedBar,
  grants <- grantsBar,
  barred <- barredBar

\* Check and Middleware keep the promise of Enforcement: every allow follows a
\* moment at which the subject was not revoked and, after it, one at which a
\* living decision covered the request; nothing a token, a late response, a
\* concurrent SET or a restart does can reorder that.
ImplementsEnforcement == Abstract!Spec
=============================================================================
