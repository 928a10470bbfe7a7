------------------------------- MODULE Token -------------------------------
(***************************************************************************)
(* Decision tokens (authz/token).  Time is counted in ticks, finer than    *)
(* the whole seconds the claims carry: Issue and Verify both truncate.     *)
(* The HMAC is a flag: signed is TRUE exactly when the signature is the    *)
(* one the shared secret gives.  The SHA-256 digest is taken to be         *)
(* collision free: equal digests mean equal JSON encodings, and the JSON   *)
(* of a nil map (null) is not that of an empty one.                        *)
(***************************************************************************)
EXTENDS AuthZEN

CONSTANTS
  TTL,             \* lifetime of a token, in ticks
  TicksPerSecond   \* resolution of the clock below one second

\* A lifetime and a clock that advances in fractions of a second.
ASSUME TokenAssumption == TTL \in Nat \ {0} /\ TicksPerSecond \in Nat \ {0}

Unix(t) == t \div TicksPerSecond

ResourceDigest(props) == <<"sha256", props>>

\* "<type>/<id>": a type that is a colon pair holds no slash, so for the types
\* the PDP accepts and a route table should hold the pair is exact.
ResourceRef(resource) == <<resource.type, resource.id>>

Issue(req, t) ==
  [signed |-> TRUE,
   sub    |-> req.subject.id,
   act    |-> req.action,
   res    |-> ResourceRef(req.resource),
   aal    |-> req.subject.aal,
   rd     |-> ResourceDigest(req.resource.props),
   iat    |-> Unix(t),
   exp    |-> Unix(t + TTL)]

\* An absent header, and a header whose signature the verifier cannot confirm.
Unsigned(text) ==
  [signed |-> FALSE, sub |-> text, act |-> Malformed(""),
   res |-> <<Malformed(""), "">>, aal |-> "", rd |-> ResourceDigest(NilMap),
   iat |-> 0, exp |-> 0]
NoToken  == Unsigned("")
BadToken == Unsigned("bad")

\* Defect: the second of expiry still counts as valid.
VerifyInclusive(tok, t) == tok.signed /\ Unix(t) <= tok.exp

\* Verify returns claims rather than an error.
Verify(tok, t) == tok.signed /\ Unix(t) < tok.exp
=============================================================================
