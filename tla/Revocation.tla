----------------------------- MODULE Revocation -----------------------------
(***************************************************************************)
(* Revocation from end to end: the CAEP loop and an enforcement point that *)
(* reads the cache of one of its receivers.  cmd/zta-pep hands the same    *)
(* RevocationCache to the receiver's handler and to the PEP, so requests   *)
(* are checked while SETs arrive, calls time out and the process restarts. *)
(*                                                                         *)
(* The enforcement point is Enforcement, which PEP implements              *)
(* (PEPRefinement), with the cache as the barred subjects and a decision   *)
(* on record that would let every request through.                         *)
(***************************************************************************)
EXTENDS CAEP

CONSTANTS
  Watched,    \* the receiver whose cache the enforcement point reads
  Handlers    \* the request-handling goroutines there

ASSUME WatchedAssumption == Watched \in Receivers

VARIABLES
  stage, asked,  \* the handlers, see Enforcement
  standing,      \* history: the revocations that nothing has put in question
  doomed         \* history: per handler, one of them had been reported as
                 \* delivered when the request came

gateVars == <<stage, asked, standing, doomed>>

NoAsk == [tuple |-> "", level |-> 0, subject |-> ""]

\* Requests at the assurance level of the decision on record.
Requests == {[tuple |-> "granted", level |-> 2, subject |-> s] : s \in Subjects}

Gate == INSTANCE Enforcement WITH
  Asks <- Requests, Life <- 1, now <- 0,
  grants <- {[tuple |-> "granted", level |-> 2, at |-> 0]},
  barred <- cache[Watched]

InitGated ==
  /\ Init
  /\ stage = [h \in Handlers |-> "idle"]
  /\ asked = [h \in Handlers |-> NoAsk]
  /\ standing = {}
  /\ doomed = [h \in Handlers |-> FALSE]

-----------------------------------------------------------------------------
(* The loop.                                                               *)

Revokes(s)  == [type |-> "session-revoked", sub |-> s]
Restores(s) == [type |-> "session-restored", sub |-> s]

\* A restoration of s may still reach the watched receiver.
OnItsWay(s) ==
  \E i \in DOMAIN log :
    log[i] = Restores(s) /\ (result[i] = "pending" \/ [emit |-> i, to |-> Watched] \in net)

\* Signing an event makes a revocation stand or puts the earlier ones in
\* question.
Judge(event) ==
  /\ standing' = CASE event.type = "session-revoked" /\ ~OnItsWay(event.sub) ->
                        standing \cup {Len(log')}
                   [] event.type = "session-restored" ->
                        {i \in standing : log[i].sub # event.sub}
                   [] OTHER -> standing
  /\ doomed' = [h \in Handlers |-> doomed[h] /\ event # Restores(asked[h].subject)]

Transmits(e) ==
  \/ Emit(e) /\ Judge(log'[Len(log')]) /\ UNCHANGED <<stage, asked>>
  \/ /\ Push(e) \/ Answered(e) \/ ConnectionLost(e) \/ TimesOut(e) \/ Return(e)
     /\ UNCHANGED gateVars

Receives(m) == Receive(m) /\ UNCHANGED gateVars

\* With the watched PEP's cache its requests are lost, too.
Restarts(r) ==
  /\ RestartReceiver(r)
  /\ IF r = Watched
     THEN /\ stage' = [h \in Handlers |-> "idle"]
          /\ asked' = [h \in Handlers |-> NoAsk]
          /\ standing' = {}
          /\ doomed' = [h \in Handlers |-> FALSE]
     ELSE UNCHANGED gateVars

-----------------------------------------------------------------------------
(* The enforcement point.                                                  *)

Delivered(s) ==
  \E i \in standing : log[i] = Revokes(s) /\ result[i] = "nil"

Asks(h) ==
  /\ UNCHANGED <<vars, standing>>
  /\ Gate!Ask(h)
  /\ doomed' = [doomed EXCEPT ![h] = Delivered(asked'[h].subject)]

Climbs(h) ==
  /\ UNCHANGED <<vars, standing, doomed>>
  /\ Gate!Clear(h) \/ Gate!Rely(h) \/ Gate!Allow(h) \/ Gate!Deny(h)

Finishes(h) ==
  /\ UNCHANGED <<vars, standing>>
  /\ Gate!Finish(h)
  /\ doomed' = [doomed EXCEPT ![h] = FALSE]

NextGated ==
  \/ \E e \in Emitters : Transmits(e)
  \/ \E m \in net : Receives(m)
  \/ \E r \in Receivers : Restarts(r)
  \/ \E h \in Handlers : Asks(h) \/ Climbs(h) \/ Finishes(h)

GatedSpec == InitGated /\ [][NextGated]_<<vars, gateVars>>

-----------------------------------------------------------------------------
(* Properties.                                                             *)

\* Once Emit has reported a revocation as delivered, requests of the subject
\* that come afterwards are not allowed, until a restoration is signed or the
\* PEP restarts - unless a restoration was still under way when the revocation
\* was signed.  Timeouts, late deliveries and unknown events change nothing.
RevokedEverywhere ==
  \A h \in Handlers : stage[h] = "allowed" => ~doomed[h]
=============================================================================
