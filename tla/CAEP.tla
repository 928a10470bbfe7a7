-------------------------------- MODULE CAEP --------------------------------
(***************************************************************************)
(* The CAEP loop (signals/caep): transmitters push Security Event Tokens   *)
(* to the receivers of the PEPs, which apply them to their revocation      *)
(* caches.  Emit posts to one subscriber after the other and waits for     *)
(* each answer; several Emit calls, in one process or in several runs of   *)
(* caepemit, may be under way at once.                                     *)
(*                                                                         *)
(* A call the client gives up on may still be delivered: the SET is on its *)
(* way, and the receiver's handler does not know that nobody waits.  A     *)
(* receiver that restarts forgets its cache and drops its connections.     *)
(***************************************************************************)
EXTENDS Naturals, Sequences, FiniteSets

CONSTANTS
  Emitters,       \* concurrent callers of Emit
  Subscribers,    \* the receivers pushed to, a sequence of distinct names
  BadURLs,        \* subscribers for which no HTTP request can be built
  OtherSecret,    \* receivers configured with another secret
  Subjects,       \* subjects the events are about
  EventTypes,     \* event types callers pass to Emit
  ClientTimeout,  \* the HTTP client gives up after a while
  MaxEmits,       \* bound on the number of Emit calls
  MaxRestarts     \* bound on the number of receiver restarts

Receivers == {Subscribers[i] : i \in DOMAIN Subscribers}

\* The subscriber list is what the operator passes on the command line; there are
\* finitely many callers.
ASSUME CAEPAssumption ==
  /\ IsFiniteSet(Emitters)
  /\ Subscribers \in Seq(Receivers)
  /\ \A i, j \in DOMAIN Subscribers : Subscribers[i] = Subscribers[j] => i = j
  /\ ClientTimeout \in BOOLEAN
  /\ MaxEmits \in Nat /\ MaxRestarts \in Nat

VARIABLES
  phase,     \* per emitter: "idle", "push" (about to post), "wait" (posted)
  id,        \* per emitter: which emission it is performing
  next,      \* per emitter: index of the current subscriber
  firstErr,  \* per emitter: 0, or the index of the first failed delivery
  net,       \* SETs in transit: emission and receiver
  answers,   \* HTTP statuses in transit back
  cache,     \* per receiver: the revoked subjects
  log,       \* history: the events emitted, in the order they were signed
  result,    \* history: per emission, what Emit returned ("pending" before)
  failed,    \* history: per emission, the subscribers whose delivery failed
  accepted,  \* history: per emission, the receivers that applied it
  restarts   \* history: per receiver, how often it restarted

emitVars == <<phase, id, next, firstErr, result, failed, log>>
vars == <<phase, id, next, firstErr, net, answers, cache, log, result, failed,
          accepted, restarts>>

N == Len(Subscribers)
Emissions == 1 .. MaxEmits

Init ==
  /\ phase = [e \in Emitters |-> "idle"]
  /\ id = [e \in Emitters |-> 0]
  /\ next = [e \in Emitters |-> 0]
  /\ firstErr = [e \in Emitters |-> 0]
  /\ net = {}
  /\ answers = {}
  /\ cache = [r \in Receivers |-> {}]
  /\ log = <<>>
  /\ result = [i \in Emissions |-> "pending"]
  /\ failed = [i \in Emissions |-> {}]
  /\ accepted = [i \in Emissions |-> {}]
  /\ restarts = [r \in Receivers |-> 0]

-----------------------------------------------------------------------------
(* Transmitter.                                                            *)

\* Emit signs the event and starts on the first subscriber.
Emit(e) ==
  /\ phase[e] = "idle"
  /\ Len(log) < MaxEmits
  /\ \E type \in EventTypes, sub \in Subjects :
       log' = Append(log, [type |-> type, sub |-> sub])
  /\ id' = [id EXCEPT ![e] = Len(log) + 1]
  /\ next' = [next EXCEPT ![e] = 1]
  /\ firstErr' = [firstErr EXCEPT ![e] = 0]
  /\ phase' = [phase EXCEPT ![e] = "push"]
  /\ UNCHANGED <<net, answers, cache, result, failed, accepted, restarts>>

\* Defects: a subscriber is skipped; a later error overwrites an earlier one; a
\* later success clears it.
AdvanceSkips(e, ok) ==
  /\ phase' = [phase EXCEPT ![e] = "push"]
  /\ next' = [next EXCEPT ![e] = @ + 2]
  /\ firstErr' = [firstErr EXCEPT ![e] = IF ~ok /\ @ = 0 THEN next[e] ELSE @]
  /\ failed' = [failed EXCEPT ![id[e]] = IF ok THEN @ ELSE @ \cup {next[e]}]
  /\ UNCHANGED <<id, log, result>>
AdvanceLastError(e, ok) ==
  /\ phase' = [phase EXCEPT ![e] = "push"]
  /\ next' = [next EXCEPT ![e] = @ + 1]
  /\ firstErr' = [firstErr EXCEPT ![e] = IF ~ok THEN next[e] ELSE @]
  /\ failed' = [failed EXCEPT ![id[e]] = IF ok THEN @ ELSE @ \cup {next[e]}]
  /\ UNCHANGED <<id, log, result>>
AdvanceClears(e, ok) ==
  /\ phase' = [phase EXCEPT ![e] = "push"]
  /\ next' = [next EXCEPT ![e] = @ + 1]
  /\ firstErr' = [firstErr EXCEPT ![e] = IF ok THEN 0 ELSE next[e]]
  /\ failed' = [failed EXCEPT ![id[e]] = IF ok THEN @ ELSE @ \cup {next[e]}]
  /\ UNCHANGED <<id, log, result>>

\* Go on to the next subscriber, noting an error if it is the first.
Advance(e, ok) ==
  /\ phase' = [phase EXCEPT ![e] = "push"]
  /\ next' = [next EXCEPT ![e] = @ + 1]
  /\ firstErr' = [firstErr EXCEPT ![e] = IF ~ok /\ @ = 0 THEN next[e] ELSE @]
  /\ failed' = [failed EXCEPT ![id[e]] = IF ok THEN @ ELSE @ \cup {next[e]}]
  /\ UNCHANGED <<id, log, result>>

Message(e) == [emit |-> id[e], to |-> Subscribers[next[e]]]

\* http.NewRequestWithContext fails, or the request leaves.
Push(e) ==
  /\ phase[e] = "push" /\ next[e] <= N
  /\ IF Subscribers[next[e]] \in BadURLs
     THEN Advance(e, FALSE) /\ UNCHANGED net
     ELSE /\ net' = net \cup {Message(e)}
          /\ phase' = [phase EXCEPT ![e] = "wait"]
          /\ UNCHANGED <<id, next, firstErr, log, result, failed>>
  /\ UNCHANGED <<answers, cache, accepted, restarts>>

AnswersTo(e) == {a \in answers : a.emit = id[e] /\ a.from = Subscribers[next[e]]}

\* client.Do returns a status; anything but 202 is an error.
Answered(e) ==
  /\ phase[e] = "wait"
  /\ \E a \in AnswersTo(e) :
       /\ answers' = answers \ {a}
       /\ Advance(e, a.status = 202)
  /\ UNCHANGED <<net, cache, accepted, restarts>>

\* client.Do fails: the connection breaks, before the SET arrives or after the
\* receiver has already applied it, ...
ConnectionLost(e) ==
  /\ phase[e] = "wait"
  /\ net' = net \ {Message(e)}
  /\ answers' = answers \ AnswersTo(e)
  /\ Advance(e, FALSE)
  /\ UNCHANGED <<cache, accepted, restarts>>

\* Defect: a call that times out is retried for ever.
TimesOutRetry(e) ==
  /\ ClientTimeout
  /\ phase[e] = "wait"
  /\ phase' = [phase EXCEPT ![e] = "push"]
  /\ answers' = answers \ AnswersTo(e)
  /\ UNCHANGED <<id, next, firstErr, net, cache, log, result, failed, accepted, restarts>>

\* Defect: a call that times out is not counted as a failure.
TimesOutIgnored(e) ==
  /\ ClientTimeout
  /\ phase[e] = "wait"
  /\ answers' = answers \ AnswersTo(e)
  /\ Advance(e, TRUE)
  /\ UNCHANGED <<net, cache, accepted, restarts>>

\* ... or the client's timeout fires, and the SET may still be on its way.
TimesOut(e) ==
  /\ ClientTimeout
  /\ phase[e] = "wait"
  /\ answers' = answers \ AnswersTo(e)
  /\ Advance(e, FALSE)
  /\ UNCHANGED <<net, cache, accepted, restarts>>

\* Emit returns the first error, nil if there was none.
Return(e) ==
  /\ phase[e] = "push" /\ next[e] > N
  /\ result' = [result EXCEPT ![id[e]] = IF firstErr[e] = 0 THEN "nil" ELSE "error"]
  /\ phase' = [phase EXCEPT ![e] = "idle"]
  /\ UNCHANGED <<id, next, firstErr, net, answers, cache, log, failed, accepted, restarts>>

-----------------------------------------------------------------------------
(* Receiver.                                                               *)

\* Defect: a restoration does not lift the revocation.
ApplySticky(revoked, event) ==
  IF event.type = "session-revoked" THEN revoked \cup {event.sub} ELSE revoked

\* An event of an unknown type changes nothing.
Apply(revoked, event) ==
  CASE event.type = "session-revoked"  -> revoked \cup {event.sub}
    [] event.type = "session-restored" -> revoked \ {event.sub}
    [] OTHER                           -> revoked

Verifies(r) == r \notin OtherSecret

\* The status reaches the caller only if it still waits for this call.
Answer(m, status) ==
  answers' = answers \cup
    {[emit |-> m.emit, from |-> m.to, status |-> status] :
       e \in {x \in Emitters : phase[x] = "wait" /\ Message(x) = m}}

\* The handler verifies the signature, applies the event and answers; or the body
\* cannot be read to its end.
Receive(m) ==
  /\ net' = net \ {m}
  /\ \/ /\ Verifies(m.to)
        /\ cache' = [cache EXCEPT ![m.to] = Apply(@, log[m.emit])]
        /\ accepted' = [accepted EXCEPT ![m.emit] = @ \cup {m.to}]
        /\ Answer(m, 202)
     \/ /\ ~Verifies(m.to)
        /\ UNCHANGED <<cache, accepted>>
        /\ Answer(m, 401)
     \/ /\ UNCHANGED <<cache, accepted>>
        /\ Answer(m, 400)
  /\ UNCHANGED <<emitVars, restarts>>

\* The PEP restarts with an empty cache; its connections are broken.
RestartReceiver(r) ==
  /\ restarts[r] < MaxRestarts
  /\ restarts' = [restarts EXCEPT ![r] = @ + 1]
  /\ cache' = [cache EXCEPT ![r] = {}]
  /\ net' = {m \in net : m.to # r}
  /\ answers' = {a \in answers : a.from # r}
  /\ UNCHANGED <<emitVars, accepted>>

Next ==
  \/ \E e \in Emitters : \/ Emit(e) \/ Push(e) \/ Answered(e)
                         \/ ConnectionLost(e) \/ TimesOut(e) \/ Return(e)
  \/ \E m \in net : Receive(m)
  \/ \E r \in Receivers : RestartReceiver(r)

Spec == Init /\ [][Next]_vars

Broken(e) == phase[e] = "wait" /\ Message(e) \notin net /\ AnswersTo(e) = {}

\* The transmitter's own steps are not delayed for ever, a broken connection is
\* noticed, and a client that has a timeout gives up.  Receivers owe nothing.
Fairness ==
  \A e \in Emitters :
    /\ WF_vars(Push(e)) /\ WF_vars(Return(e))
    /\ WF_vars(Answered(e) \/ TimesOut(e))
    /\ WF_vars(Broken(e) /\ ConnectionLost(e))

FairSpec == Spec /\ Fairness

-----------------------------------------------------------------------------
(* Properties.                                                             *)

\* Type invariant.
TypeOK ==
  /\ phase \in [Emitters -> {"idle", "push", "wait"}]
  /\ id \in [Emitters -> 0 .. MaxEmits]
  /\ next \in [Emitters -> 0 .. N + 1]
  /\ firstErr \in [Emitters -> 0 .. N]
  /\ net \subseteq [emit : Emissions, to : Receivers]
  /\ answers \subseteq [emit : Emissions, from : Receivers, status : {202, 400, 401}]
  /\ cache \in [Receivers -> SUBSET Subjects]
  /\ log \in Seq([type : EventTypes, sub : Subjects]) /\ Len(log) <= MaxEmits
  /\ result \in [Emissions -> {"pending", "nil", "error"}]
  /\ failed \in [Emissions -> SUBSET (1 .. N)]
  /\ accepted \in [Emissions -> SUBSET Receivers]
  /\ restarts \in [Receivers -> 0 .. MaxRestarts]

\* Emit returning nil means every subscriber's receiver verified and applied
\* the SET, however many timeouts and late answers of other calls there were.
NilMeansApplied ==
  \A i \in Emissions : result[i] = "nil" => accepted[i] = Receivers

\* The error Emit returns is that of the first subscriber that failed, and a
\* failure does not keep the later subscribers from being tried: one that
\* neither failed nor applied the SET does not exist.
FirstErrorReported ==
  \A e \in Emitters : phase[e] = "push" /\ next[e] > N =>
    LET f == failed[id[e]] IN
    /\ firstErr[e] = 0 <=> f = {}
    /\ f # {} => firstErr[e] \in f /\ \A i \in f : firstErr[e] <= i
    /\ \A i \in 1 .. N : i \in f \/ Subscribers[i] \in accepted[id[e]]

\* What the log says: the last revocation or restoration of a subject counts.
Deciding == {i \in DOMAIN log : log[i].type \in {"session-revoked", "session-restored"}}
Effect == {s \in Subjects : \E i \in Deciding :
             /\ log[i] = [type |-> "session-revoked", sub |-> s]
             /\ \A j \in Deciding : j > i => log[j].sub # s}

Quiescent == net = {} /\ \A e \in Emitters : phase[e] = "idle"
AllNil    == \A i \in DOMAIN log : result[i] = "nil"

\* With one caller at a time and no failed Emit, the caches that did not restart
\* hold exactly the subjects revoked last, between two calls.
SerialEmitsConverge ==
  Cardinality(Emitters) = 1 /\ Quiescent /\ AllNil =>
    \A r \in Receivers : restarts[r] = 0 => cache[r] = Effect

\* Every Emit call returns, although a subscriber never answers.
EmitReturns ==
  \A e \in Emitters : phase[e] # "idle" ~> phase[e] = "idle"

-----------------------------------------------------------------------------
(* Statements of the repository that the code does not meet.               *)

\* "a PEP's in-memory view of currently-revoked subjects, kept current by SETs"
\* (signals/caep/cache.go): once everything was delivered and nobody restarted,
\* a receiver that applied every SET holds what the log says.
CacheCurrent ==
  Quiescent => \A r \in Receivers :
    restarts[r] = 0 /\ (\A i \in DOMAIN log : r \in accepted[i]) => cache[r] = Effect

=============================================================================
