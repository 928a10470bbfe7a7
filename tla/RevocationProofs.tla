-------------------------- MODULE RevocationProofs --------------------------
(***************************************************************************)
(* Proofs about Revocation, for every list of subscribers, any number of   *)
(* concurrent Emit calls and of requests at the watched PEP.               *)
(***************************************************************************)
EXTENDS Revocation, CAEPProofs

-----------------------------------------------------------------------------
(* The inductive invariant.                                                *)

\* Emission i can no longer reach the watched receiver.
Over(i) == result[i] # "pending" /\ [emit |-> i, to |-> Watched] \notin net

\* No restoration of s can reach the watched receiver any more.
Unrestored(s) == \A j \in DOMAIN log : log[j] = Restores(s) => Over(j)

\* A standing revocation is in the cache as soon as it was applied, and nothing
\* that is under way takes it out.
StandsOK(i) ==
  /\ i \in DOMAIN log /\ log[i].type = "session-revoked"
  /\ Unrestored(log[i].sub)
  /\ Watched \in accepted[i] => log[i].sub \in cache[Watched]

\* The subject of a doomed request is barred, and stays barred.
DoomedOK(h) ==
  doomed[h] => /\ asked[h].subject \in cache[Watched]
               /\ Unrestored(asked[h].subject)
               /\ stage[h] \in {"asked", "denied"}

GateTypeOK ==
  /\ stage \in [Handlers -> Gate!Stages]
  /\ asked \in [Handlers -> Requests \cup {NoAsk}]
  /\ doomed \in [Handlers -> BOOLEAN]

GatedInv ==
  /\ IInv
  /\ GateTypeOK
  /\ \A i \in standing : StandsOK(i)
  /\ \A h \in Handlers : DoomedOK(h)

-----------------------------------------------------------------------------
(* The loop.                                                               *)

\* The composition adds nothing to the loop: its steps are CAEP's.
LEMMA LoopSteps == NextGated => [Next]_vars
<1> SUFFICES ASSUME NextGated PROVE Next \/ UNCHANGED vars
  OBVIOUS
<1>1. ASSUME NEW e \in Emitters, Transmits(e) PROVE Next
  BY <1>1, Zenon DEF Transmits, Next
<1>2. ASSUME NEW m \in net, Receives(m) PROVE Next
  BY <1>2, Zenon DEF Receives, Next
<1>3. ASSUME NEW r \in Receivers, Restarts(r) PROVE Next
  BY <1>3, Zenon DEF Restarts, Next
<1>4. ASSUME NEW h \in Handlers, Asks(h) \/ Climbs(h) \/ Finishes(h) PROVE UNCHANGED vars
  BY <1>4 DEF Asks, Climbs, Finishes
<1>5. QED
  BY <1>1, <1>2, <1>3, <1>4, Zenon DEF NextGated

\* What is judged stands on an emission that was made, and nobody has heard of the
\* ones to come.
LEMMA SignedFacts ==
  ASSUME IInv
  PROVE  /\ Len(log) \in Nat /\ Len(log) <= MaxEmits /\ DOMAIN log = 1 .. Len(log)
         /\ DOMAIN log \subseteq Emissions
         /\ \A i \in DOMAIN log : log[i] \in [type : EventTypes, sub : Subjects]
         /\ Len(log) < MaxEmits => accepted[Len(log) + 1] = {}
<1>1. TypeOK /\ UnsignedOK
  BY DEF IInv
<1>2. /\ Len(log) \in Nat /\ Len(log) <= MaxEmits /\ DOMAIN log = 1 .. Len(log)
      /\ \A i \in DOMAIN log : log[i] \in [type : EventTypes, sub : Subjects]
  <2>1. log \in Seq([type : EventTypes, sub : Subjects]) /\ Len(log) <= MaxEmits
    BY <1>1 DEF TypeOK
  <2>2. \A i \in 1 .. Len(log) : log[i] \in [type : EventTypes, sub : Subjects]
    BY <2>1, ElementOfSeq
  <2>3. QED
    BY <2>1, <2>2
<1>3. MaxEmits \in Nat
  BY SubscriberFacts
<1>4. QED
  BY <1>1, <1>2, <1>3 DEF UnsignedOK, Emissions

\* Signing adds one event to the log.
LEMMA Signs ==
  ASSUME IInv, NEW e \in Emitters, Emit(e)
  PROVE  /\ DOMAIN log' = DOMAIN log \cup {Len(log')} /\ Len(log') = Len(log) + 1
         /\ Len(log') \notin DOMAIN log
         /\ \A i \in DOMAIN log : log'[i] = log[i]
         /\ log'[Len(log')] \in [type : EventTypes, sub : Subjects]
         /\ UNCHANGED <<net, result, accepted, cache>>
<1>1. PICK type \in EventTypes, sub \in Subjects :
        log' = Append(log, [type |-> type, sub |-> sub])
  BY DEF Emit
<1>2. log \in Seq([type : EventTypes, sub : Subjects])
  BY DEF IInv, TypeOK
<1>3. [type |-> type, sub |-> sub] \in [type : EventTypes, sub : Subjects]
  OBVIOUS
<1>4. /\ Len(log') = Len(log) + 1 /\ Len(log) \in Nat
      /\ log'[Len(log) + 1] = [type |-> type, sub |-> sub]
      /\ \A i \in 1 .. Len(log) : log'[i] = log[i]
      /\ DOMAIN log = 1 .. Len(log) /\ DOMAIN log' = 1 .. Len(log) + 1
  BY <1>1, <1>2, <1>3
<1>5. QED
  BY <1>3, <1>4 DEF Emit

\* Between signing and the answer the emitter works on a pending emission; what is
\* over stays over.
LEMMA TransmitterFacts ==
  ASSUME IInv, NEW e \in Emitters,
         Push(e) \/ Answered(e) \/ ConnectionLost(e) \/ TimesOut(e) \/ Return(e)
  PROVE  /\ UNCHANGED <<log, cache, accepted>>
         /\ \A i \in DOMAIN log : Over(i) => Over(i)'
<1>1. UNCHANGED <<log, cache, accepted>>
  BY DEF Push, Answered, ConnectionLost, TimesOut, Return, Advance
<1>2. Busy(e) /\ id[e] \in Emissions /\ result[id[e]] = "pending"
  BY BusyFacts DEF Busy, Push, Answered, ConnectionLost, TimesOut, Return, ProgressOK
<1>3. net' \subseteq net \cup {Message(e)}
  BY DEF Push, Answered, ConnectionLost, TimesOut, Return, Advance
<1>4. \A i \in DOMAIN log : i # id[e] => result'[i] = result[i]
  <2>1. result \in [Emissions -> {"pending", "nil", "error"}]
    BY DEF IInv, TypeOK
  <2>2. QED
    BY <2>1, SignedFacts DEF Push, Answered, ConnectionLost, TimesOut, Return, Advance
<1>5. ASSUME NEW i \in DOMAIN log, Over(i) PROVE Over(i)'
  <2>1. i # id[e]
    BY <1>2, <1>5 DEF Over
  <2>2. [emit |-> i, to |-> Watched] # Message(e)
    BY <2>1 DEF Message
  <2>3. QED
    BY <1>3, <1>4, <1>5, <2>1, <2>2 DEF Over
<1>6. QED
  BY <1>1, <1>5

\* The receivers only take from the network.  No SET but a restoration takes a
\* subject out of the watched cache, and one that is over is not received.
LEMMA ReceiverFacts ==
  ASSUME IInv, NEW m \in net, Receive(m)
  PROVE  /\ UNCHANGED <<log, result>> /\ net' \subseteq net
         /\ \A s \in cache[Watched] : Unrestored(s) => s \in cache'[Watched]
         /\ \A i \in DOMAIN log :
              Watched \in accepted'[i] /\ log[i].type = "session-revoked" =>
                Watched \in accepted[i] \/ log[i].sub \in cache'[Watched]
<1>1. UNCHANGED <<log, result>> /\ net' \subseteq net
  BY DEF Receive, emitVars
<1>2. TypeOK /\ m \in [emit : Emissions, to : Receivers] /\ m.emit \in DOMAIN log
  BY SignedFacts DEF IInv, TypeOK, TransitOK, Emissions
<1>3. m = [emit |-> m.emit, to |-> m.to] /\ m.emit \in Emissions /\ m.to \in Receivers
  BY <1>2
<1>4. CASE UNCHANGED <<cache, accepted>> \/ m.to # Watched
  <2>1. cache'[Watched] = cache[Watched]
    BY <1>2, <1>3, <1>4, WatchedAssumption DEF Receive, TypeOK
  <2>2. \A i \in DOMAIN log : Watched \in accepted'[i] => Watched \in accepted[i]
    <3>1. accepted \in [Emissions -> SUBSET Receivers]
      BY <1>2 DEF TypeOK
    <3>2. QED
      BY <1>3, <1>4, <3>1, SignedFacts DEF Receive
  <2>3. QED
    BY <1>1, <2>1, <2>2
<1>5. CASE /\ cache' = [cache EXCEPT ![m.to] = Apply(cache[m.to], log[m.emit])]
           /\ accepted' = [accepted EXCEPT ![m.emit] = accepted[m.emit] \cup {m.to}]
           /\ m.to = Watched
  <2>1. PICK event \in [type : EventTypes, sub : Subjects] : event = log[m.emit]
    BY <1>2, SignedFacts
  <2>2. cache'[Watched] = Apply(cache[Watched], event)
    <3>1. cache \in [Receivers -> SUBSET Subjects]
      BY <1>2 DEF TypeOK
    <3>2. QED
      BY <1>5, <2>1, <3>1, WatchedAssumption
  <2>3. accepted' = [accepted EXCEPT ![m.emit] = accepted[m.emit] \cup {m.to}]
    BY <1>5
  <2>4. ASSUME NEW s \in cache[Watched], Unrestored(s) PROVE s \in cache'[Watched]
    <3>1. event # Restores(s)
      BY <1>2, <1>3, <1>5, <2>1, <2>4 DEF Unrestored, Over
    <3>2. CASE event.type = "session-revoked"
      BY <2>2, <2>4, <3>2 DEF Apply
    <3>3. CASE event.type = "session-restored"
      <4>1. event = [type |-> event.type, sub |-> event.sub]
        OBVIOUS
      <4>2. event.sub # s
        BY <3>1, <3>3, <4>1 DEF Restores
      <4>3. QED
        BY <2>2, <2>4, <3>3, <4>2 DEF Apply
    <3>4. CASE event.type \notin {"session-revoked", "session-restored"}
      BY <2>2, <2>4, <3>4 DEF Apply
    <3>5. QED
      BY <3>2, <3>3, <3>4
  <2>5. ASSUME NEW i \in DOMAIN log, Watched \in accepted'[i], log[i].type = "session-revoked"
        PROVE  Watched \in accepted[i] \/ log[i].sub \in cache'[Watched]
    <3>1. CASE i = m.emit
      BY <2>1, <2>2, <2>5, <3>1 DEF Apply
    <3>2. CASE i # m.emit
      BY <2>3, <2>5, <3>2
    <3>3. QED
      BY <3>1, <3>2
  <2>6. QED
    BY <1>1, <2>4, <2>5
<1>6. QED
  BY <1>4, <1>5 DEF Receive

-----------------------------------------------------------------------------
(* The steps.                                                              *)

\* Revocations stand, and requests are doomed, as long as what was over stays over
\* and the cache keeps what nothing takes out.
LEMMA GateFrame ==
  ASSUME GatedInv, log' = log, UNCHANGED gateVars,
         \A i \in DOMAIN log : Over(i) => Over(i)',
         \A s \in cache[Watched] : Unrestored(s) => s \in cache'[Watched],
         \A i \in DOMAIN log :
           Watched \in accepted'[i] /\ log[i].type = "session-revoked" =>
             Watched \in accepted[i] \/ log[i].sub \in cache'[Watched]
  PROVE  /\ GateTypeOK'
         /\ \A i \in standing' : StandsOK(i)'
         /\ \A h \in Handlers : DoomedOK(h)'
<1>1. UNCHANGED <<stage, asked, standing, doomed>>
  BY DEF gateVars
<1>2. GateTypeOK'
  BY <1>1 DEF GatedInv, GateTypeOK
<1>3. \A s : Unrestored(s) => \A j \in DOMAIN log' : log'[j] = Restores(s) => Over(j)'
  BY DEF Unrestored
<1>4. ASSUME NEW i \in standing PROVE StandsOK(i)'
  <2>1. StandsOK(i)
    BY <1>4 DEF GatedInv
  <2>2. QED
    BY <1>3, <2>1 DEF StandsOK, Unrestored
<1>5. ASSUME NEW h \in Handlers PROVE DoomedOK(h)'
  <2>1. DoomedOK(h)
    BY DEF GatedInv
  <2>2. QED
    BY <1>1, <1>3, <2>1 DEF DoomedOK, Unrestored
<1>6. QED
  BY <1>1, <1>2, <1>4, <1>5

\* Signing a revocation makes it stand only if no restoration can overtake it, and a
\* restoration ends what it may undo (Judge).
LEMMA SignsStep ==
  ASSUME GatedInv, NEW e \in Emitters, Emit(e), Judge(log'[Len(log')]),
         UNCHANGED <<stage, asked>>
  PROVE  /\ GateTypeOK'
         /\ \A i \in standing' : StandsOK(i)'
         /\ \A h \in Handlers : DoomedOK(h)'
<1>1. IInv /\ GateTypeOK
  BY DEF GatedInv
<1>2. PICK n, event :
        /\ n = Len(log') /\ event = log'[n] /\ event \in [type : EventTypes, sub : Subjects]
        /\ DOMAIN log' = DOMAIN log \cup {n} /\ n \notin DOMAIN log
        /\ \A i \in DOMAIN log : log'[i] = log[i]
        /\ UNCHANGED <<net, result, accepted, cache>>
  BY <1>1, Signs
<1>3. accepted[n] = {}
  <2>1. Len(log) < MaxEmits /\ n = Len(log) + 1
    BY <1>1, <1>2, Signs DEF Emit
  <2>2. QED
    BY <1>1, <2>1, SignedFacts
<1>4. Judge(event)
  BY <1>2
<1>5. \A i \in standing' :
        \/ i \in standing /\ event # Restores(log[i].sub)
        \/ i = n /\ event.type = "session-revoked" /\ ~OnItsWay(event.sub)
  <2>1. CASE event.type = "session-revoked"
    <3>1. \A s : event # Restores(s)
      BY <2>1 DEF Restores
    <3>2. CASE OnItsWay(event.sub)
      <4>1. standing' = standing
        BY <1>4, <2>1, <3>2, Zenon DEF Judge
      <4>2. QED
        BY <3>1, <4>1
    <3>3. CASE ~OnItsWay(event.sub)
      <4>1. standing' = standing \cup {n}
        BY <1>2, <1>4, <2>1, <3>3, Zenon DEF Judge
      <4>2. QED
        BY <2>1, <3>1, <3>3, <4>1
    <3>4. QED
      BY <3>2, <3>3
  <2>2. CASE event.type = "session-restored"
    <3>1. standing' = {i \in standing : log[i].sub # event.sub}
      BY <1>4, <2>2, Zenon DEF Judge
    <3>2. QED
      BY <3>1 DEF Restores
  <2>3. CASE event.type \notin {"session-revoked", "session-restored"}
    <3>1. standing' = standing
      BY <1>4, <2>3, Zenon DEF Judge
    <3>2. QED
      BY <2>3, <3>1 DEF Restores
  <2>4. QED
    BY <2>1, <2>2, <2>3
<1>6. ASSUME NEW s, Unrestored(s), event # Restores(s) PROVE Unrestored(s)'
  BY <1>2, <1>6 DEF Unrestored, Over
<1>7. ASSUME NEW i \in standing, event # Restores(log[i].sub) PROVE StandsOK(i)'
  <2>1. StandsOK(i)
    BY DEF GatedInv
  <2>2. PICK s : s = log[i].sub /\ s = log'[i].sub
    BY <1>2, <2>1 DEF StandsOK
  <2>3. Unrestored(s)'
    BY <1>6, <1>7, <2>1, <2>2 DEF StandsOK
  <2>4. QED
    BY <1>2, <2>1, <2>2, <2>3 DEF StandsOK, Unrestored
<1>8. ASSUME event.type = "session-revoked", ~OnItsWay(event.sub) PROVE StandsOK(n)'
  <2>1. Unrestored(event.sub) /\ event # Restores(event.sub)
    BY <1>8 DEF OnItsWay, Unrestored, Over, Restores
  <2>2. Unrestored(event.sub)'
    BY <1>6, <2>1
  <2>3. QED
    BY <1>2, <1>3, <1>8, <2>2 DEF StandsOK, Unrestored
<1>9. ASSUME NEW h \in Handlers PROVE DoomedOK(h)'
  <2>1. DoomedOK(h)
    BY DEF GatedInv
  <2>2. doomed'[h] => doomed[h] /\ event # Restores(asked[h].subject)
    BY <1>4 DEF Judge
  <2>3. PICK s : s = asked[h].subject /\ s = asked'[h].subject
    OBVIOUS
  <2>4. doomed'[h] => Unrestored(s)'
    BY <1>6, <2>1, <2>2, <2>3 DEF DoomedOK
  <2>5. QED
    BY <1>2, <2>1, <2>2, <2>3, <2>4 DEF DoomedOK, Unrestored
<1>10. GateTypeOK'
  <2>1. \A h \in Handlers : doomed[h] \in BOOLEAN
    BY <1>1 DEF GateTypeOK
  <2>2. doomed' \in [Handlers -> BOOLEAN]
    BY <1>4, <2>1 DEF Judge
  <2>3. QED
    BY <1>1, <2>2 DEF GateTypeOK
<1>11. QED
  BY <1>5, <1>7, <1>8, <1>9, <1>10

\* What is claimed of the gate after a step.
GateOK ==
  /\ GateTypeOK
  /\ \A i \in standing : StandsOK(i)
  /\ \A h \in Handlers : DoomedOK(h)

\* The steps of Emit, the receivers and their restarts.
LEMMA LoopStep ==
  ASSUME GatedInv,
         \/ \E e \in Emitters : Transmits(e)
         \/ \E m \in net : Receives(m)
         \/ \E r \in Receivers : Restarts(r)
  PROVE  GateOK'
<1>1. IInv /\ GateTypeOK
  BY DEF GatedInv
<1>2. ASSUME NEW e \in Emitters, Transmits(e) PROVE GateOK'
  <2>1. CASE Emit(e) /\ Judge(log'[Len(log')]) /\ UNCHANGED <<stage, asked>>
    BY <2>1, SignsStep DEF GateOK
  <2>2. CASE /\ Push(e) \/ Answered(e) \/ ConnectionLost(e) \/ TimesOut(e) \/ Return(e)
             /\ UNCHANGED gateVars
    <3>1. /\ UNCHANGED <<log, cache, accepted>>
          /\ \A i \in DOMAIN log : Over(i) => Over(i)'
      BY <1>1, <2>2, TransmitterFacts
    <3>2. QED
      BY <2>2, <3>1, GateFrame DEF GateOK
  <2>3. QED
    BY <1>2, <2>1, <2>2 DEF Transmits
<1>3. ASSUME NEW m \in net, Receives(m) PROVE GateOK'
  <2>1. Receive(m) /\ UNCHANGED gateVars
    BY <1>3 DEF Receives
  <2>2. /\ UNCHANGED <<log, result>> /\ net' \subseteq net
        /\ \A s \in cache[Watched] : Unrestored(s) => s \in cache'[Watched]
        /\ \A i \in DOMAIN log :
             Watched \in accepted'[i] /\ log[i].type = "session-revoked" =>
               Watched \in accepted[i] \/ log[i].sub \in cache'[Watched]
    BY <1>1, <2>1, ReceiverFacts
  <2>3. \A i \in DOMAIN log : Over(i) => Over(i)'
    BY <2>2 DEF Over
  <2>4. QED
    BY <2>1, <2>2, <2>3, GateFrame DEF GateOK
<1>4. ASSUME NEW r \in Receivers, Restarts(r), r = Watched PROVE GateOK'
  <2>1. /\ stage' = [h \in Handlers |-> "idle"] /\ asked' = [h \in Handlers |-> NoAsk]
        /\ standing' = {} /\ doomed' = [h \in Handlers |-> FALSE]
    BY <1>4 DEF Restarts
  <2>2. QED
    BY <2>1 DEF GateOK, GateTypeOK, DoomedOK, Gate!Stages
<1>5. ASSUME NEW r \in Receivers, Restarts(r), r # Watched PROVE GateOK'
  <2>1. RestartReceiver(r) /\ UNCHANGED gateVars
    BY <1>5 DEF Restarts
  <2>2. UNCHANGED <<log, result, accepted>> /\ net' \subseteq net
    BY <2>1 DEF RestartReceiver, emitVars
  <2>3. cache'[Watched] = cache[Watched]
    <3>1. cache \in [Receivers -> SUBSET Subjects]
      BY <1>1 DEF IInv, TypeOK
    <3>2. QED
      BY <1>5, <2>1, <3>1, WatchedAssumption DEF RestartReceiver
  <2>4. \A i \in DOMAIN log : Over(i) => Over(i)'
    BY <2>2 DEF Over
  <2>5. QED
    BY <2>1, <2>2, <2>3, <2>4, GateFrame DEF GateOK
<1>6. QED
  BY <1>2, <1>3, <1>4, <1>5

\* A request that comes after a revocation was reported as delivered finds its
\* subject in the cache (Enforcement's Ask and Clear).
LEMMA HandlerStep ==
  ASSUME GatedInv, NEW g \in Handlers, Asks(g) \/ Climbs(g) \/ Finishes(g)
  PROVE  GateOK'
<1>1. IInv /\ GateTypeOK
  BY DEF GatedInv
<1>2. /\ UNCHANGED <<phase, id, next, firstErr, net, answers, cache, log, result, failed,
                     accepted, restarts>>
      /\ standing' = standing
  BY DEF Asks, Climbs, Finishes, vars
<1>3. \A i \in standing' : StandsOK(i)'
  BY <1>2 DEF GatedInv, StandsOK, Unrestored, Over
<1>4. \A s : Unrestored(s) => \A j \in DOMAIN log' : log'[j] = Restores(s) => Over(j)'
  BY <1>2 DEF Unrestored, Over
<1>5. ASSUME NEW h \in Handlers, doomed'[h] = doomed[h], asked'[h] = asked[h],
             doomed[h] => stage'[h] \in {"asked", "denied"}
      PROVE  DoomedOK(h)'
  <2>1. DoomedOK(h)
    BY DEF GatedInv
  <2>2. QED
    BY <1>2, <1>4, <1>5, <2>1 DEF DoomedOK, Unrestored
<1>6. CASE Asks(g)
  <2>1. PICK a \in Requests :
          /\ stage' = [stage EXCEPT ![g] = "asked"]
          /\ asked' = [asked EXCEPT ![g] = a]
          /\ doomed' = [doomed EXCEPT ![g] = Delivered(asked'[g].subject)]
    BY <1>6 DEF Asks, Gate!Ask
  <2>2. PICK s : s = a.subject
    OBVIOUS
  <2>3. asked'[g] = a /\ stage'[g] = "asked" /\ doomed'[g] = Delivered(s)
    BY <1>1, <2>1, <2>2 DEF GateTypeOK
  <2>4. ASSUME Delivered(s) PROVE s \in cache[Watched] /\ Unrestored(s)
    <3>1. PICK i \in standing : log[i] = Revokes(s) /\ result[i] = "nil"
      BY <2>4 DEF Delivered
    <3>2. StandsOK(i) /\ log[i].sub = s
      BY <3>1 DEF GatedInv, Revokes
    <3>3. accepted[i] = Receivers
      BY <1>1, <3>1, <3>2, SignedFacts DEF IInv, NilMeansApplied, StandsOK
    <3>4. QED
      BY <3>2, <3>3, WatchedAssumption DEF StandsOK
  <2>5. DoomedOK(g)'
    BY <1>2, <1>4, <2>2, <2>3, <2>4 DEF DoomedOK, Unrestored
  <2>6. ASSUME NEW h \in Handlers, h # g PROVE DoomedOK(h)'
    <3>1. stage'[h] = stage[h] /\ asked'[h] = asked[h] /\ doomed'[h] = doomed[h]
      BY <1>1, <2>1, <2>6 DEF GateTypeOK
    <3>2. QED
      BY <1>5, <3>1 DEF GatedInv, DoomedOK
  <2>7. GateTypeOK'
    <3>1. Delivered(asked'[g].subject) \in BOOLEAN
      BY DEF Delivered
    <3>2. QED
      BY <1>1, <2>1, <3>1 DEF GateTypeOK, Gate!Stages
  <2>8. QED
    BY <1>3, <2>5, <2>6, <2>7 DEF GateOK
<1>7. CASE Climbs(g)
  <2>1. PICK st \in Gate!Stages :
          /\ stage' = [stage EXCEPT ![g] = st] /\ UNCHANGED <<asked, doomed>>
          /\ \/ stage[g] = "asked" /\ asked[g].subject \notin cache[Watched]
             \/ stage[g] \in {"cleared", "relying"}
             \/ stage[g] = "asked" /\ st = "denied"
    BY <1>7 DEF Climbs, Gate!Clear, Gate!Rely, Gate!Allow, Gate!Deny, Gate!Stages
  <2>2. ASSUME NEW h \in Handlers PROVE DoomedOK(h)'
    <3>1. DoomedOK(h)
      BY DEF GatedInv
    <3>2. doomed[h] => stage'[h] \in {"asked", "denied"}
      BY <1>1, <2>1, <3>1 DEF DoomedOK, GateTypeOK
    <3>3. QED
      BY <1>5, <2>1, <3>2
  <2>3. GateTypeOK'
    BY <1>1, <2>1 DEF GateTypeOK
  <2>4. QED
    BY <1>3, <2>2, <2>3 DEF GateOK
<1>8. CASE Finishes(g)
  <2>1. /\ stage' = [stage EXCEPT ![g] = "idle"] /\ asked' = [asked EXCEPT ![g] = NoAsk]
        /\ doomed' = [doomed EXCEPT ![g] = FALSE]
    BY <1>8 DEF Finishes, Gate!Finish
  <2>2. ASSUME NEW h \in Handlers, h # g PROVE DoomedOK(h)'
    <3>1. stage'[h] = stage[h] /\ asked'[h] = asked[h] /\ doomed'[h] = doomed[h]
      BY <1>1, <2>1, <2>2 DEF GateTypeOK
    <3>2. QED
      BY <1>5, <3>1 DEF GatedInv, DoomedOK
  <2>3. ~doomed'[g]
    BY <1>1, <2>1 DEF GateTypeOK
  <2>4. GateTypeOK'
    BY <1>1, <2>1 DEF GateTypeOK, Gate!Stages
  <2>5. QED
    BY <1>3, <2>2, <2>3, <2>4 DEF GateOK, DoomedOK
<1>9. QED
  BY <1>6, <1>7, <1>8

-----------------------------------------------------------------------------
(* The theorems.                                                           *)

\* A revocation that stands is in the watched cache once it was applied there, and
\* nothing on the network undoes it.
THEOREM RevocationInvariant == GatedSpec => []GatedInv
<1>1. InitGated => GatedInv
  <2> SUFFICES ASSUME InitGated PROVE GatedInv
    OBVIOUS
  <2>1. IInv
    BY InitIInv DEF InitGated
  <2>2. QED
    BY <2>1 DEF InitGated, GatedInv, GateTypeOK, DoomedOK, Gate!Stages
<1>2. GatedInv /\ [NextGated]_<<vars, gateVars>> => GatedInv'
  <2> SUFFICES ASSUME GatedInv, [NextGated]_<<vars, gateVars>> PROVE GatedInv'
    OBVIOUS
  <2>1. IInv'
    <3>1. [Next]_vars
      BY LoopSteps
    <3>2. QED
      BY <3>1, NextIInv DEF GatedInv
  <2>2. CASE NextGated
    <3>1. GateOK'
      BY <2>2, LoopStep, HandlerStep DEF NextGated
    <3>2. QED
      BY <2>1, <3>1 DEF GateOK, GatedInv
  <2>3. CASE UNCHANGED <<vars, gateVars>>
    <3>1. UNCHANGED <<log, result, net, cache, accepted, gateVars>>
      BY <2>3 DEF vars
    <3>2. \A i \in DOMAIN log : Over(i) => Over(i)'
      BY <3>1 DEF Over
    <3>3. GateOK'
      BY <3>1, <3>2, GateFrame DEF GateOK
    <3>4. QED
      BY <2>1, <3>3 DEF GateOK, GatedInv
  <2>4. QED
    BY <2>2, <2>3
<1>3. QED
  BY <1>1, <1>2, PTL DEF GatedSpec

\* Once Emit has reported a revocation as delivered, no request of the subject that
\* comes afterwards is allowed, for any number of emitters, receivers and requests,
\* until a restoration is signed or the PEP restarts.
THEOREM DeliveredRevocationHolds == GatedSpec => []RevokedEverywhere
<1>1. GatedInv => RevokedEverywhere
  BY DEF GatedInv, DoomedOK, RevokedEverywhere
<1>2. QED
  BY <1>1, RevocationInvariant, PTL
=============================================================================
