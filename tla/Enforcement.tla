---------------------------- MODULE Enforcement ----------------------------
(***************************************************************************)
(* What an enforcement point promises, whatever its ladder looks like.     *)
(* A request names a tuple (subject, action, resource, properties) and an  *)
(* assurance level.  An authority grants tuples; a grant lives for a while *)
(* and covers requests for its tuple at its level or above.  Subjects are  *)
(* barred and readmitted.  A request is allowed only if                    *)
(*                                                                         *)
(*   - at some moment since it came its subject was not barred, and        *)
(*   - at some moment after that a living grant covered it.                *)
(*                                                                         *)
(* Anything may be denied at any time.  PEPRefinement shows that PEP       *)
(* implements this; Revocation uses it in the PEP's place.                 *)
(***************************************************************************)
EXTENDS Naturals

CONSTANTS
  Handlers,   \* request-handling goroutines
  Asks,       \* what requests may ask: tuple, level and subject
  NoAsk,      \* no request
  Life        \* how long a grant lives

VARIABLES
  stage,    \* per handler: how far its request is
  asked,    \* per handler: what its request asks
  grants,   \* the authority's grants: tuple, level and time
  barred,   \* the barred subjects
  now       \* the time

vars == <<stage, asked, grants, barred, now>>

Stages == {"idle", "asked", "cleared", "relying", "allowed", "denied"}

Init ==
  /\ stage = [h \in Handlers |-> "idle"]
  /\ asked = [h \in Handlers |-> NoAsk]
  /\ grants = {}
  /\ barred = {}
  /\ now = 0

Covered(a, given) ==
  \E g \in given : /\ g.tuple = a.tuple /\ g.level <= a.level
                   /\ now < g.at + Life

-----------------------------------------------------------------------------
Ask(h) ==
  /\ stage[h] = "idle"
  /\ stage' = [stage EXCEPT ![h] = "asked"]
  /\ \E a \in Asks : asked' = [asked EXCEPT ![h] = a]
  /\ UNCHANGED <<grants, barred, now>>

Clear(h) ==
  /\ stage[h] = "asked"
  /\ asked[h].subject \notin barred
  /\ stage' = [stage EXCEPT ![h] = "cleared"]
  /\ UNCHANGED <<asked, grants, barred, now>>

\* The authority is free to grant what it likes, as of now.
Granting == \/ grants' = grants
            \/ \E g \in grants' : grants' = grants \cup {g} /\ g.at = now

Grant ==
  /\ Granting
  /\ UNCHANGED <<stage, asked, barred, now>>

\* The request relies on a grant it has just been given, or that is on record.
Rely(h) ==
  /\ stage[h] = "cleared"
  /\ Granting
  /\ Covered(asked[h], grants')
  /\ stage' = [stage EXCEPT ![h] = "relying"]
  /\ UNCHANGED <<asked, barred, now>>

Allow(h) ==
  /\ \/ stage[h] = "relying"
     \/ stage[h] = "cleared" /\ Covered(asked[h], grants)
  /\ stage' = [stage EXCEPT ![h] = "allowed"]
  /\ UNCHANGED <<asked, grants, barred, now>>

Deny(h) ==
  /\ stage[h] \in {"asked", "cleared", "relying"}
  /\ stage' = [stage EXCEPT ![h] = "denied"]
  /\ UNCHANGED <<asked, grants, barred, now>>

Finish(h) ==
  /\ stage[h] \in {"allowed", "denied"}
  /\ stage' = [stage EXCEPT ![h] = "idle"]
  /\ asked' = [asked EXCEPT ![h] = NoAsk]
  /\ UNCHANGED <<grants, barred, now>>

\* Subjects are barred or readmitted, time passes, or everything is forgotten
\* except the grants.
Bar(s) ==
  /\ barred' \in {barred \cup {s}, barred \ {s}}
  /\ UNCHANGED <<stage, asked, grants, now>>

Tick ==
  /\ now' = now + 1
  /\ UNCHANGED <<stage, asked, grants, barred>>

Reset ==
  /\ stage' = [h \in Handlers |-> "idle"]
  /\ asked' = [h \in Handlers |-> NoAsk]
  /\ barred' = {}
  /\ UNCHANGED <<grants, now>>

Next ==
  \/ \E h \in Handlers : \/ Ask(h) \/ Clear(h) \/ Rely(h)
                         \/ Allow(h) \/ Deny(h) \/ Finish(h)
  \/ Grant
  \/ \E s \in barred \cup barred' : Bar(s)
  \/ Tick
  \/ Reset

Spec == Init /\ [][Next]_vars
=============================================================================
