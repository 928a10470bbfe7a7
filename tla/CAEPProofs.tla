----------------------------- MODULE CAEPProofs -----------------------------
(***************************************************************************)
(* Proofs about CAEP, for every list of subscribers, any number of         *)
(* concurrent Emit calls and receiver restarts, with or without a client   *)
(* timeout.                                                                *)
(***************************************************************************)
EXTENDS CAEP, SequenceTheorems, FiniteSetTheorems, TLAPS

-----------------------------------------------------------------------------
(* The inductive invariant: what a fan-out knows half way.                 *)

\* The deliveries behind next[e] are accounted for, and the error kept is that of
\* the first that failed.
ProgressOK(e) ==
  LET f == failed[id[e]] IN
  /\ id[e] \in 1 .. Len(log)
  /\ next[e] \in 1 .. N + 1 /\ (phase[e] = "wait" => next[e] <= N)
  /\ result[id[e]] = "pending"
  /\ f \subseteq 1 .. next[e] - 1
  /\ firstErr[e] = 0 <=> f = {}
  /\ f # {} => firstErr[e] \in f /\ \A i \in f : firstErr[e] <= i
  /\ \A i \in 1 .. next[e] - 1 : i \in f \/ Subscribers[i] \in accepted[id[e]]

Busy(e) == phase[e] # "idle"

EmittersOK ==
  /\ \A e \in Emitters : Busy(e) => ProgressOK(e)
  /\ \A d, e \in Emitters : d # e /\ Busy(d) /\ Busy(e) => id[d] # id[e]

\* Only what was signed is in transit; a 202 comes from a receiver that applied
\* the SET.
TransitOK ==
  /\ \A m \in net : m.emit <= Len(log)
  /\ \A a \in answers : a.status = 202 => a.from \in accepted[a.emit]

\* Nothing is known of emissions to come.
UnsignedOK ==
  \A i \in Emissions : i > Len(log) =>
    result[i] = "pending" /\ failed[i] = {} /\ accepted[i] = {}

IInv == TypeOK /\ EmittersOK /\ TransitOK /\ UnsignedOK /\ NilMeansApplied

-----------------------------------------------------------------------------
(* Subscribers and events.                                                 *)

\* The subscriber list is finite and its members are the receivers.
LEMMA SubscriberFacts ==
  /\ N \in Nat
  /\ \A i \in 1 .. N : Subscribers[i] \in Receivers
  /\ \A r \in Receivers : \E i \in 1 .. N : r = Subscribers[i]
  /\ \A i, j \in 1 .. N : Subscribers[i] = Subscribers[j] => i = j
  /\ MaxEmits \in Nat /\ MaxRestarts \in Nat
<1>1. N \in Nat /\ DOMAIN Subscribers = 1 .. N
  BY CAEPAssumption DEF N
<1>2. QED
  BY <1>1, CAEPAssumption DEF Receivers

\* A busy emitter performs a signed emission.
LEMMA BusyFacts ==
  ASSUME IInv, NEW e \in Emitters, Busy(e)
  PROVE  /\ id[e] \in Emissions /\ id[e] \in DOMAIN log /\ id[e] <= Len(log)
         /\ next[e] \in 1 .. N + 1 /\ next[e] \in Nat
         /\ ProgressOK(e)
<1>1. ProgressOK(e) /\ TypeOK
  BY DEF IInv, EmittersOK
<1>2. Len(log) \in Nat /\ Len(log) <= MaxEmits /\ DOMAIN log = 1 .. Len(log)
  BY <1>1 DEF TypeOK
<1>3. QED
  BY <1>1, <1>2, SubscriberFacts DEF ProgressOK, Emissions

\* Applying an event to a cache yields a set of subjects.
LEMMA ApplyType ==
  ASSUME NEW revoked \in SUBSET Subjects, NEW event \in [type : EventTypes, sub : Subjects]
  PROVE  Apply(revoked, event) \in SUBSET Subjects
<1>1. CASE event.type = "session-revoked"
  BY <1>1 DEF Apply
<1>2. CASE event.type = "session-restored"
  BY <1>2 DEF Apply
<1>3. CASE event.type \notin {"session-revoked", "session-restored"}
  BY <1>3 DEF Apply
<1>4. QED
  BY <1>1, <1>2, <1>3

-----------------------------------------------------------------------------
(* The steps.                                                              *)

\* An emitter keeps its progress while its own state and its emission's record
\* stay; the receivers may only apply more.
LEMMA ProgressFrame ==
  ASSUME NEW e, ProgressOK(e),
         phase'[e] = phase[e], id'[e] = id[e], next'[e] = next[e],
         firstErr'[e] = firstErr[e], failed'[id[e]] = failed[id[e]],
         result'[id[e]] = result[id[e]], accepted[id[e]] \subseteq accepted'[id[e]],
         Len(log) \in Nat, Len(log') \in Nat, Len(log) <= Len(log')
  PROVE  ProgressOK(e)'
BY DEF ProgressOK

\* So only the emitter that moves matters.
LEMMA EmittersFrame ==
  ASSUME IInv, NEW e \in Emitters,
         Busy(e)' => ProgressOK(e)',
         \A d \in Emitters \ {e} :
           /\ phase'[d] = phase[d] /\ id'[d] = id[d] /\ next'[d] = next[d]
           /\ firstErr'[d] = firstErr[d]
           /\ Busy(d) => /\ failed'[id[d]] = failed[id[d]]
                         /\ result'[id[d]] = result[id[d]]
                         /\ accepted[id[d]] \subseteq accepted'[id[d]]
                         /\ Busy(e)' => id'[e] # id[d],
         Len(log') \in Nat, Len(log) <= Len(log')
  PROVE  EmittersOK'
<1>1. Len(log) \in Nat /\ EmittersOK
  BY DEF IInv, TypeOK
<1>2. \A d \in Emitters \ {e} : Busy(d)' <=> Busy(d)
  BY DEF Busy
<1>3. ASSUME NEW d \in Emitters, Busy(d)' PROVE ProgressOK(d)'
  <2>1. CASE d = e
    BY <1>3, <2>1
  <2>2. CASE d # e
    BY <1>1, <1>2, <1>3, <2>2, ProgressFrame DEF EmittersOK
  <2>3. QED
    BY <2>1, <2>2
<1>4. ASSUME NEW c \in Emitters, NEW d \in Emitters, c # d, Busy(c)', Busy(d)'
      PROVE  id'[c] # id'[d]
  <2>1. CASE c # e /\ d # e
    BY <1>1, <1>2, <1>4, <2>1 DEF EmittersOK
  <2>2. CASE c = e \/ d = e
    BY <1>2, <1>4, <2>2
  <2>3. QED
    BY <2>1, <2>2
<1>5. QED
  BY <1>3, <1>4 DEF EmittersOK

\* Going on to the next subscriber keeps the accounts: the delivery failed, or the
\* receiver has applied the SET.
LEMMA AdvanceStep ==
  ASSUME IInv, NEW e \in Emitters, NEW ok \in BOOLEAN, Advance(e, ok),
         Busy(e), next[e] <= N,
         ok => Subscribers[next[e]] \in accepted[id[e]],
         net' \subseteq net, answers' \subseteq answers,
         UNCHANGED <<cache, accepted, restarts>>
  PROVE  IInv'
<1> DEFINE i == id[e]
           n == next[e]
           f == failed[i]
<1>1. TypeOK /\ ProgressOK(e) /\ i \in Emissions /\ n \in 1 .. N /\ N \in Nat
  BY BusyFacts, SubscriberFacts DEF IInv
<1>2. /\ phase' = [phase EXCEPT ![e] = "push"]
      /\ next' = [next EXCEPT ![e] = n + 1]
      /\ firstErr' = [firstErr EXCEPT ![e] = IF ~ok /\ firstErr[e] = 0 THEN n ELSE firstErr[e]]
      /\ failed' = [failed EXCEPT ![i] = IF ok THEN f ELSE f \cup {n}]
      /\ UNCHANGED <<id, log, result>>
  BY DEF Advance
<1>3. /\ phase'[e] = "push" /\ next'[e] = n + 1
      /\ firstErr'[e] = (IF ~ok /\ firstErr[e] = 0 THEN n ELSE firstErr[e])
      /\ failed'[i] = (IF ok THEN f ELSE f \cup {n})
      /\ \A d \in Emitters \ {e} : /\ phase'[d] = phase[d] /\ next'[d] = next[d]
                                   /\ firstErr'[d] = firstErr[d]
      /\ \A j \in Emissions \ {i} : failed'[j] = failed[j]
  BY <1>1, <1>2 DEF TypeOK
<1>4. /\ f \subseteq 1 .. n - 1
      /\ firstErr[e] = 0 <=> f = {}
      /\ f # {} => firstErr[e] \in f /\ \A k \in f : firstErr[e] <= k
      /\ \A k \in 1 .. n - 1 : k \in f \/ Subscribers[k] \in accepted[i]
      /\ i \in 1 .. Len(log) /\ result[i] = "pending"
  BY <1>1 DEF ProgressOK
<1>5. TypeOK'
  <2>1. phase' \in [Emitters -> {"idle", "push", "wait"}]
    BY <1>1, <1>2 DEF TypeOK
  <2>2. next' \in [Emitters -> 0 .. N + 1]
    BY <1>1, <1>2 DEF TypeOK
  <2>3. firstErr' \in [Emitters -> 0 .. N]
    BY <1>1, <1>2 DEF TypeOK
  <2>4. failed' \in [Emissions -> SUBSET (1 .. N)]
    BY <1>1, <1>2 DEF TypeOK
  <2>5. QED
    BY <1>1, <1>2, <2>1, <2>2, <2>3, <2>4 DEF TypeOK
<1>6. ProgressOK(e)'
  <2> DEFINE g == failed'[i]
  <2>1. g \subseteq 1 .. n
    BY <1>1, <1>3, <1>4
  <2>2. /\ firstErr'[e] = 0 <=> g = {}
        /\ g # {} => firstErr'[e] \in g /\ \A k \in g : firstErr'[e] <= k
    <3>1. CASE ok
      BY <1>3, <1>4, <3>1
    <3>2. CASE ~ok /\ f = {}
      <4>1. firstErr'[e] = n /\ g = {n} /\ n \in Nat \ {0}
        BY <1>1, <1>3, <1>4, <3>2
      <4>2. QED
        BY <4>1
    <3>3. CASE ~ok /\ f # {}
      BY <1>1, <1>3, <1>4, <3>3
    <3>4. QED
      BY <3>1, <3>2, <3>3
  <2>3. \A k \in 1 .. n : k \in g \/ Subscribers[k] \in accepted[i]
    BY <1>1, <1>3, <1>4
  <2>4. (n + 1) - 1 = n /\ n + 1 \in 1 .. N + 1
    BY <1>1
  <2>5. QED
    BY <1>2, <1>3, <1>4, <2>1, <2>2, <2>3, <2>4 DEF ProgressOK
<1>7. EmittersOK'
  <2>1. \A d \in Emitters \ {e} : Busy(d) => id[d] # i /\ id[d] \in Emissions
    BY BusyFacts DEF IInv, EmittersOK
  <2>2. Len(log) \in Nat
    BY <1>1 DEF TypeOK
  <2>3. QED
    BY <1>2, <1>3, <1>6, <2>1, <2>2, EmittersFrame
<1>8. TransitOK' /\ NilMeansApplied'
  BY <1>2 DEF IInv, TransitOK, NilMeansApplied
<1>9. UnsignedOK'
  <2>1. Len(log) \in Nat
    BY <1>1 DEF TypeOK
  <2>2. \A j \in Emissions : j > Len(log) => j # i
    BY <1>4, <2>1 DEF Emissions
  <2>3. QED
    BY <1>2, <1>3, <2>2 DEF IInv, UnsignedOK
<1>10. QED
  BY <1>5, <1>7, <1>8, <1>9 DEF IInv

\* A new emission starts with nothing behind it.
LEMMA EmitStep ==
  ASSUME IInv, NEW e \in Emitters, Emit(e)
  PROVE  IInv'
<1> DEFINE n == Len(log)
<1>1. TypeOK /\ n \in Nat /\ n < MaxEmits /\ MaxEmits \in Nat /\ N \in Nat
  BY SubscriberFacts DEF IInv, TypeOK, Emit
<1>2. PICK event \in [type : EventTypes, sub : Subjects] : log' = Append(log, event)
  BY DEF Emit
<1>3. /\ id' = [id EXCEPT ![e] = n + 1]
      /\ next' = [next EXCEPT ![e] = 1]
      /\ firstErr' = [firstErr EXCEPT ![e] = 0]
      /\ phase' = [phase EXCEPT ![e] = "push"]
      /\ UNCHANGED <<net, answers, cache, result, failed, accepted, restarts>>
  BY DEF Emit
<1>4. /\ log' \in Seq([type : EventTypes, sub : Subjects])
      /\ Len(log') = n + 1
  BY <1>1, <1>2 DEF TypeOK
<1>5. n + 1 \in Emissions
  BY <1>1 DEF Emissions
<1>6. /\ id'[e] = n + 1 /\ next'[e] = 1 /\ firstErr'[e] = 0 /\ phase'[e] = "push"
      /\ \A d \in Emitters \ {e} : /\ phase'[d] = phase[d] /\ next'[d] = next[d]
                                   /\ firstErr'[d] = firstErr[d] /\ id'[d] = id[d]
  BY <1>1, <1>3 DEF TypeOK
<1>7. TypeOK'
  BY <1>1, <1>3, <1>4 DEF TypeOK
<1>8. result[n + 1] = "pending" /\ failed[n + 1] = {}
  BY <1>1, <1>5 DEF IInv, UnsignedOK
<1>9. ProgressOK(e)'
  BY <1>1, <1>3, <1>4, <1>6, <1>8 DEF ProgressOK
<1>10. EmittersOK'
  <2>1. \A d \in Emitters \ {e} : Busy(d) => id[d] # n + 1
    BY <1>1, BusyFacts
  <2>2. QED
    BY <1>1, <1>3, <1>4, <1>6, <1>9, <2>1, EmittersFrame
<1>11. TransitOK'
  <2>1. \A m \in net : m.emit \in Nat
    BY <1>1 DEF TypeOK, Emissions
  <2>2. QED
    BY <1>1, <1>3, <1>4, <2>1 DEF IInv, TransitOK
<1>12. UnsignedOK' /\ NilMeansApplied'
  BY <1>1, <1>3, <1>4 DEF IInv, UnsignedOK, NilMeansApplied, Emissions
<1>13. QED
  BY <1>7, <1>10, <1>11, <1>12 DEF IInv

\* A bad URL is a failed delivery; otherwise the SET of a signed emission leaves.
LEMMA PushStep ==
  ASSUME IInv, NEW e \in Emitters, Push(e)
  PROVE  IInv'
<1>1. Busy(e) /\ next[e] <= N /\ phase[e] = "push" /\ TypeOK
  BY DEF Push, Busy, IInv
<1>2. CASE Advance(e, FALSE) /\ UNCHANGED net
  BY <1>1, <1>2, AdvanceStep DEF Push
<1>3. CASE /\ net' = net \cup {Message(e)}
           /\ phase' = [phase EXCEPT ![e] = "wait"]
           /\ UNCHANGED <<id, next, firstErr, log, result, failed>>
  <2>1. UNCHANGED <<answers, cache, accepted, restarts>>
    BY DEF Push
  <2>2. /\ id[e] \in Emissions /\ id[e] <= Len(log) /\ ProgressOK(e)
        /\ Subscribers[next[e]] \in Receivers
    BY <1>1, BusyFacts, SubscriberFacts
  <2>3. /\ phase'[e] = "wait"
        /\ \A d \in Emitters \ {e} : phase'[d] = phase[d]
        /\ phase' \in [Emitters -> {"idle", "push", "wait"}]
    BY <1>1, <1>3 DEF TypeOK
  <2>4. Message(e) \in [emit : Emissions, to : Receivers] /\ Message(e).emit = id[e]
    BY <2>2 DEF Message
  <2>5. TypeOK'
    BY <1>1, <1>3, <2>1, <2>3, <2>4 DEF TypeOK
  <2>6. ProgressOK(e)'
    BY <1>1, <1>3, <2>1, <2>2, <2>3 DEF ProgressOK
  <2>7. EmittersOK'
    <3>1. Len(log) \in Nat
      BY <1>1 DEF TypeOK
    <3>2. \A d \in Emitters \ {e} : Busy(d) => id[d] # id[e]
      BY <1>1 DEF IInv, EmittersOK
    <3>3. QED
      BY <1>3, <2>1, <2>3, <2>6, <3>1, <3>2, EmittersFrame
  <2>8. TransitOK'
    BY <1>3, <2>1, <2>2, <2>4 DEF IInv, TransitOK
  <2>9. UnsignedOK' /\ NilMeansApplied'
    BY <1>3, <2>1 DEF IInv, UnsignedOK, NilMeansApplied
  <2>10. QED
    BY <2>5, <2>7, <2>8, <2>9 DEF IInv
<1>4. QED
  BY <1>2, <1>3 DEF Push

\* A 202 comes from a receiver that has applied this SET; any other end of the
\* call counts as a failure.
LEMMA CallEndsStep ==
  ASSUME IInv, NEW e \in Emitters, Answered(e) \/ ConnectionLost(e) \/ TimesOut(e)
  PROVE  IInv'
<1>1. Busy(e) /\ phase[e] = "wait"
  BY DEF Answered, ConnectionLost, TimesOut, Busy
<1>2. next[e] <= N
  BY <1>1, BusyFacts DEF ProgressOK
<1>3. CASE Answered(e)
  <2>1. PICK a \in AnswersTo(e) : /\ answers' = answers \ {a}
                                  /\ Advance(e, a.status = 202)
    BY <1>3 DEF Answered
  <2>2. a.status = 202 => Subscribers[next[e]] \in accepted[id[e]]
    BY <2>1 DEF AnswersTo, IInv, TransitOK
  <2>3. UNCHANGED <<net, cache, accepted, restarts>>
    BY <1>3 DEF Answered
  <2> DEFINE ok == a.status = 202
  <2>4. ok \in BOOLEAN /\ Advance(e, ok) /\ (ok => Subscribers[next[e]] \in accepted[id[e]])
    BY <2>1, <2>2
  <2> HIDE DEF ok
  <2>5. QED
    BY <1>1, <1>2, <2>1, <2>3, <2>4, AdvanceStep
<1>4. CASE ConnectionLost(e) \/ TimesOut(e)
  <2>1. /\ Advance(e, FALSE) /\ net' \subseteq net /\ answers' \subseteq answers
        /\ UNCHANGED <<cache, accepted, restarts>>
    BY <1>4 DEF ConnectionLost, TimesOut
  <2>2. QED
    BY <1>1, <1>2, <2>1, AdvanceStep
<1>5. QED
  BY <1>3, <1>4

\* Emit returns nil only if no delivery failed, and then everybody applied.
LEMMA ReturnStep ==
  ASSUME IInv, NEW e \in Emitters, Return(e)
  PROVE  IInv'
<1> DEFINE i == id[e]
           out == IF firstErr[e] = 0 THEN "nil" ELSE "error"
<1>1. TypeOK /\ Busy(e) /\ next[e] > N
  BY DEF IInv, Return, Busy
<1>2. i \in Emissions /\ i <= Len(log) /\ ProgressOK(e) /\ next[e] = N + 1 /\ N \in Nat
  BY <1>1, BusyFacts, SubscriberFacts
<1>3. /\ result' = [result EXCEPT ![i] = out]
      /\ phase' = [phase EXCEPT ![e] = "idle"]
      /\ UNCHANGED <<id, next, firstErr, net, answers, cache, log, failed, accepted, restarts>>
  BY DEF Return
<1>4. /\ result'[i] = out /\ \A j \in Emissions \ {i} : result'[j] = result[j]
      /\ phase'[e] = "idle" /\ \A d \in Emitters \ {e} : phase'[d] = phase[d]
  BY <1>1, <1>2, <1>3 DEF TypeOK
<1>5. TypeOK'
  BY <1>1, <1>2, <1>3 DEF TypeOK
<1>6. EmittersOK'
  <2>1. ~Busy(e)'
    BY <1>4 DEF Busy
  <2>2. \A d \in Emitters \ {e} : Busy(d) => id[d] # i /\ id[d] \in Emissions
    BY <1>1, BusyFacts DEF IInv, EmittersOK
  <2>3. Len(log) \in Nat
    BY <1>1 DEF TypeOK
  <2>4. QED
    BY <1>3, <1>4, <2>1, <2>2, <2>3, EmittersFrame
<1>7. TransitOK'
  BY <1>3 DEF IInv, TransitOK
<1>8. UnsignedOK'
  <2>1. \A j \in Emissions : j > Len(log) => j # i
    BY <1>1, <1>2 DEF TypeOK, Emissions
  <2>2. QED
    BY <1>3, <1>4, <2>1 DEF IInv, UnsignedOK
<1>9. out = "nil" => accepted[i] = Receivers
  <2>1. SUFFICES ASSUME firstErr[e] = 0 PROVE accepted[i] = Receivers
    OBVIOUS
  <2>2. \A k \in 1 .. N : Subscribers[k] \in accepted[i]
    BY <1>2, <2>1 DEF ProgressOK
  <2>3. accepted[i] \subseteq Receivers
    BY <1>1, <1>2 DEF TypeOK
  <2>4. QED
    BY <2>2, <2>3, SubscriberFacts
<1> HIDE DEF out
<1>10. NilMeansApplied'
  <2>1. ASSUME NEW j \in Emissions, result'[j] = "nil" PROVE accepted[j] = Receivers
    BY <1>4, <1>9, <2>1 DEF IInv, NilMeansApplied
  <2>2. QED
    BY <1>3, <2>1 DEF NilMeansApplied
<1>11. QED
  BY <1>5, <1>6, <1>7, <1>8, <1>10 DEF IInv

\* A step that leaves the emitters alone.
LEMMA OthersStep ==
  ASSUME IInv, UNCHANGED emitVars, TypeOK', TransitOK',
         \A i \in Emissions : accepted[i] \subseteq accepted'[i],
         \A i \in Emissions : i > Len(log) => accepted'[i] = accepted[i]
  PROVE  IInv'
<1>1. UNCHANGED <<phase, id, next, firstErr, result, failed, log>>
  BY DEF emitVars
<1>2. EmittersOK'
  <2>1. ASSUME NEW e \in Emitters, Busy(e)' PROVE ProgressOK(e)'
    <3>1. Busy(e)
      BY <1>1, <2>1 DEF Busy
    <3>2. ProgressOK(e) /\ id[e] \in Emissions /\ Len(log) \in Nat
      BY <3>1, BusyFacts DEF IInv, TypeOK
    <3>3. QED
      BY <1>1, <3>2, ProgressFrame
  <2>2. QED
    BY <1>1, <2>1 DEF IInv, EmittersOK, Busy
<1>3. UnsignedOK'
  BY <1>1 DEF IInv, UnsignedOK
<1>4. NilMeansApplied'
  BY <1>1 DEF IInv, NilMeansApplied, TypeOK
<1>5. QED
  BY <1>2, <1>3, <1>4 DEF IInv

\* A receiver answers 202 only after it has applied the SET.
LEMMA ReceiveStep ==
  ASSUME IInv, NEW m \in net, Receive(m)
  PROVE  IInv'
<1>1. TypeOK /\ m \in [emit : Emissions, to : Receivers] /\ m.emit <= Len(log)
  BY DEF IInv, TypeOK, TransitOK
<1>2. net' = net \ {m} /\ UNCHANGED emitVars /\ UNCHANGED restarts
  BY DEF Receive
<1>3. UNCHANGED <<phase, id, next, firstErr, result, failed, log>>
  BY <1>2 DEF emitVars
<1>4. log[m.emit] \in [type : EventTypes, sub : Subjects]
  <2>1. log \in Seq([type : EventTypes, sub : Subjects]) /\ m.emit \in Nat \ {0}
    BY <1>1 DEF TypeOK, Emissions
  <2>2. m.emit \in 1 .. Len(log)
    BY <1>1, <2>1
  <2>3. QED
    BY <2>1, <2>2, ElementOfSeq
<1>5. PICK status \in {202, 400, 401} :
        /\ Answer(m, status)
        /\ \/ /\ cache' = [cache EXCEPT ![m.to] = Apply(cache[m.to], log[m.emit])]
              /\ accepted' = [accepted EXCEPT ![m.emit] = accepted[m.emit] \cup {m.to}]
           \/ UNCHANGED <<cache, accepted>> /\ status # 202
  BY DEF Receive
<1>6. \A a \in answers' : \/ a \in answers
                          \/ a = [emit |-> m.emit, from |-> m.to, status |-> status]
  BY <1>5 DEF Answer
<1>7. answers' \subseteq [emit : Emissions, from : Receivers, status : {202, 400, 401}]
  BY <1>1, <1>6 DEF TypeOK
<1>8. CASE /\ cache' = [cache EXCEPT ![m.to] = Apply(cache[m.to], log[m.emit])]
           /\ accepted' = [accepted EXCEPT ![m.emit] = accepted[m.emit] \cup {m.to}]
  <2>1. cache' \in [Receivers -> SUBSET Subjects]
    <3>1. Apply(cache[m.to], log[m.emit]) \in SUBSET Subjects
      BY <1>1, <1>4, ApplyType DEF TypeOK
    <3>2. QED
      BY <1>1, <1>8, <3>1 DEF TypeOK
  <2>2. accepted' \in [Emissions -> SUBSET Receivers]
    BY <1>1, <1>8 DEF TypeOK
  <2>3. TypeOK'
    BY <1>1, <1>2, <1>3, <1>7, <2>1, <2>2 DEF TypeOK
  <2>4. /\ accepted'[m.emit] = accepted[m.emit] \cup {m.to}
        /\ \A i \in Emissions \ {m.emit} : accepted'[i] = accepted[i]
    BY <1>1, <1>8 DEF TypeOK
  <2>5. TransitOK'
    <3>1. \A a \in answers : a.emit \in Emissions
      BY <1>1 DEF TypeOK
    <3>2. ASSUME NEW a \in answers', a.status = 202 PROVE a.from \in accepted'[a.emit]
      <4>1. CASE a \in answers
        BY <2>4, <3>1, <3>2, <4>1 DEF IInv, TransitOK
      <4>2. CASE a = [emit |-> m.emit, from |-> m.to, status |-> status]
        <5>1. a.emit = m.emit /\ a.from = m.to
          BY <4>2
        <5>2. QED
          BY <2>4, <5>1
      <4>3. QED
        BY <1>6, <4>1, <4>2
    <3>3. QED
      BY <1>2, <1>3, <3>2 DEF IInv, TransitOK
  <2>6. \A i \in Emissions : i > Len(log) => i # m.emit
    BY <1>1 DEF Emissions, TypeOK
  <2>7. QED
    BY <1>2, <2>3, <2>4, <2>5, <2>6, OthersStep
<1>9. CASE UNCHANGED <<cache, accepted>> /\ status # 202
  <2>1. TypeOK'
    BY <1>1, <1>2, <1>3, <1>7, <1>9 DEF TypeOK
  <2>2. TransitOK'
    <3>1. \A a \in answers' : a.status = 202 => a \in answers
      BY <1>6, <1>9
    <3>2. QED
      BY <1>2, <1>3, <1>9, <3>1 DEF IInv, TransitOK
  <2>3. QED
    BY <1>2, <1>9, <2>1, <2>2, OthersStep
<1>10. QED
  BY <1>5, <1>8, <1>9

\* A restart loses what is in transit, and the cache.
LEMMA RestartStep ==
  ASSUME IInv, NEW r \in Receivers, RestartReceiver(r)
  PROVE  IInv'
<1>1. TypeOK /\ MaxRestarts \in Nat
  BY SubscriberFacts DEF IInv
<1>2. /\ restarts[r] < MaxRestarts
      /\ restarts' = [restarts EXCEPT ![r] = restarts[r] + 1]
      /\ cache' = [cache EXCEPT ![r] = {}]
      /\ net' \subseteq net /\ answers' \subseteq answers
      /\ UNCHANGED emitVars /\ accepted' = accepted
  BY DEF RestartReceiver
<1>3. UNCHANGED <<phase, id, next, firstErr, result, failed, log>>
  BY <1>2 DEF emitVars
<1>4. cache' \in [Receivers -> SUBSET Subjects] /\ restarts' \in [Receivers -> 0 .. MaxRestarts]
  BY <1>1, <1>2 DEF TypeOK
<1>5. TypeOK'
  BY <1>1, <1>2, <1>3, <1>4 DEF TypeOK
<1>6. TransitOK'
  BY <1>2, <1>3 DEF IInv, TransitOK
<1>7. QED
  BY <1>2, <1>5, <1>6, OthersStep

-----------------------------------------------------------------------------
(* The theorems.                                                           *)

\* Initially nothing was emitted.
LEMMA InitIInv == Init => IInv
<1> SUFFICES ASSUME Init PROVE IInv
  OBVIOUS
<1>1. N \in Nat /\ MaxEmits \in Nat /\ MaxRestarts \in Nat
  BY SubscriberFacts
<1>2. log = <<>> /\ Len(log) = 0 /\ log \in Seq([type : EventTypes, sub : Subjects])
  BY DEF Init
<1>3. TypeOK
  BY <1>1, <1>2 DEF Init, TypeOK
<1>4. EmittersOK /\ TransitOK /\ UnsignedOK /\ NilMeansApplied
  BY DEF Init, EmittersOK, Busy, TransitOK, UnsignedOK, NilMeansApplied
<1>5. QED
  BY <1>3, <1>4 DEF IInv

\* Every step keeps the accounts.
LEMMA NextIInv == IInv /\ [Next]_vars => IInv'
<1> SUFFICES ASSUME IInv, [Next]_vars PROVE IInv'
  OBVIOUS
<1>1. CASE UNCHANGED vars
  <2>1. UNCHANGED <<phase, id, next, firstErr, net, answers, cache, log, result, failed,
                    accepted, restarts>>
    BY <1>1 DEF vars
  <2>2. TypeOK' /\ TransitOK'
    BY <2>1 DEF IInv, TypeOK, TransitOK
  <2>3. QED
    BY <2>1, <2>2, OthersStep DEF emitVars
<1>2. QED
  BY <1>1, EmitStep, PushStep, CallEndsStep, ReturnStep, ReceiveStep, RestartStep DEF Next

\* The accounts of every fan-out always hold.
THEOREM FanOutInvariant == Spec => []IInv
BY InitIInv, NextIInv, PTL DEF Spec

\* Type correctness.
THEOREM TypeCorrect == Spec => []TypeOK
<1>1. IInv => TypeOK
  BY DEF IInv
<1>2. QED
  BY <1>1, FanOutInvariant, PTL

\* A nil from Emit means that every subscriber's receiver verified and applied
\* the SET, for every interleaving of calls, timeouts and late answers.
THEOREM NilAlwaysMeansApplied == Spec => []NilMeansApplied
<1>1. IInv => NilMeansApplied
  BY DEF IInv
<1>2. QED
  BY <1>1, FanOutInvariant, PTL

\* The error Emit is about to return is that of the first delivery that failed,
\* and every subscriber was tried.
THEOREM FirstErrorAlwaysReported == Spec => []FirstErrorReported
<1>1. IInv => FirstErrorReported
  <2> SUFFICES ASSUME IInv, NEW e \in Emitters, phase[e] = "push", next[e] > N
               PROVE  LET f == failed[id[e]] IN
                      /\ firstErr[e] = 0 <=> f = {}
                      /\ f # {} => firstErr[e] \in f /\ \A i \in f : firstErr[e] <= i
                      /\ \A i \in 1 .. N : i \in f \/ Subscribers[i] \in accepted[id[e]]
    BY DEF FirstErrorReported
  <2>1. Busy(e)
    BY DEF Busy
  <2>2. ProgressOK(e) /\ N \in Nat /\ next[e] \in 1 .. N + 1
    BY <2>1, BusyFacts, SubscriberFacts
  <2>3. next[e] - 1 = N
    BY <2>2
  <2>4. QED
    BY <2>2, <2>3 DEF ProgressOK
<1>2. QED
  BY <1>1, FanOutInvariant, PTL

-----------------------------------------------------------------------------
(* Serial emissions.  What a cache holds is the effect of a prefix of the  *)
(* log, as long as there is one emitter and no delivery has failed.        *)

\* The effect of the first n events.
DecidingUpTo(n) == {i \in Deciding : i <= n}
LastRevoked(s, n) ==
  \E i \in DecidingUpTo(n) :
    /\ log[i] = [type |-> "session-revoked", sub |-> s]
    /\ \A j \in DecidingUpTo(n) : j > i => log[j].sub # s
EffectUpTo(n) == {s \in Subjects : LastRevoked(s, n)}

\* No delivery has failed.
Unfailing == \A i \in DOMAIN log : failed[i] = {}

\* The part of the log that has reached r: all of it, except the emission under
\* way if r has not applied it yet.
Reached(r) == IF log # <<>> /\ r \notin accepted[Len(log)] THEN Len(log) - 1 ELSE Len(log)

\* The emitter e has delivered what it emitted; nothing of an earlier emission is
\* under way, and the SET under way has not been applied.
DeliveredSoFar(e) ==
  /\ \A m \in net : phase[e] = "wait" /\ m = Message(e)
  /\ ~Busy(e) /\ log # <<>> => accepted[Len(log)] = Receivers
  /\ Busy(e) => \A i \in next[e] .. N :
       Subscribers[i] \in accepted[id[e]] => i = next[e] /\ phase[e] = "wait" /\ net = {}
  /\ \A r \in Receivers : restarts[r] = 0 => cache[r] = EffectUpTo(Reached(r))

SerialOK ==
  \A e \in Emitters : Emitters = {e} =>
    /\ Busy(e) => id[e] = Len(log)
    /\ \A i \in DOMAIN log : result[i] = "nil" => failed[i] = {}
    /\ Unfailing => DeliveredSoFar(e)

\* The log's domain and elements.
LEMMA LogFacts ==
  ASSUME TypeOK
  PROVE  /\ Len(log) \in Nat /\ DOMAIN log = 1 .. Len(log)
         /\ log # <<>> <=> Len(log) > 0
         /\ Len(log) <= MaxEmits /\ MaxEmits \in Nat
         /\ \A i \in 1 .. Len(log) : log[i] \in [type : EventTypes, sub : Subjects]
<1>1. log \in Seq([type : EventTypes, sub : Subjects]) /\ Len(log) <= MaxEmits
  BY DEF TypeOK
<1>2. \A i \in 1 .. Len(log) : log[i] \in [type : EventTypes, sub : Subjects]
  BY <1>1, ElementOfSeq
<1>3. QED
  BY <1>1, <1>2, SubscriberFacts, EmptySeq

\* The next event of the log has the effect that the cache gives it.
LEMMA EffectStep ==
  ASSUME TypeOK, NEW n \in 1 .. Len(log)
  PROVE  EffectUpTo(n) = Apply(EffectUpTo(n - 1), log[n])
<1> DEFINE event == log[n]
<1>1. /\ n \in Nat \ {0} /\ DOMAIN log = 1 .. Len(log) /\ Len(log) \in Nat
      /\ event \in [type : EventTypes, sub : Subjects]
  BY LogFacts
<1>2. DecidingUpTo(n - 1) = {i \in DecidingUpTo(n) : i # n}
  BY <1>1 DEF DecidingUpTo, Deciding
<1>3. \A i \in DecidingUpTo(n) : i \in 1 .. n
  BY <1>1 DEF DecidingUpTo, Deciding
<1>4. CASE event.type = "session-revoked"
  <2>1. n \in DecidingUpTo(n)
    BY <1>1, <1>4 DEF DecidingUpTo, Deciding
  <2>2. event = [type |-> "session-revoked", sub |-> event.sub]
    BY <1>1, <1>4
  <2>3. LastRevoked(event.sub, n)
    BY <1>1, <1>3, <2>1, <2>2 DEF LastRevoked
  <2>4. ASSUME NEW s \in Subjects, s # event.sub
        PROVE  LastRevoked(s, n) <=> LastRevoked(s, n - 1)
    <3>1. \A i \in DecidingUpTo(n) : log[i] = [type |-> "session-revoked", sub |-> s] => i # n
      BY <2>4
    <3>2. QED
      BY <1>2, <2>4, <3>1 DEF LastRevoked
  <2>5. Apply(EffectUpTo(n - 1), event) = EffectUpTo(n - 1) \cup {event.sub}
    BY <1>4 DEF Apply
  <2>6. event.sub \in Subjects
    BY <1>1
  <2>7. QED
    BY <2>3, <2>4, <2>5, <2>6 DEF EffectUpTo
<1>5. CASE event.type = "session-restored"
  <2>1. n \in DecidingUpTo(n)
    BY <1>1, <1>5 DEF DecidingUpTo, Deciding
  <2>2. \A s : event # [type |-> "session-revoked", sub |-> s]
    BY <1>5
  <2>3. ~LastRevoked(event.sub, n)
    BY <1>1, <1>3, <2>1, <2>2 DEF LastRevoked
  <2>4. ASSUME NEW s \in Subjects, s # event.sub
        PROVE  LastRevoked(s, n) <=> LastRevoked(s, n - 1)
    BY <1>2, <2>2, <2>4 DEF LastRevoked
  <2>5. Apply(EffectUpTo(n - 1), event) = EffectUpTo(n - 1) \ {event.sub}
    BY <1>5 DEF Apply
  <2>6. QED
    BY <2>3, <2>4, <2>5 DEF EffectUpTo
<1>6. CASE event.type \notin {"session-revoked", "session-restored"}
  <2>1. n \notin DecidingUpTo(n)
    BY <1>6 DEF DecidingUpTo, Deciding
  <2>2. DecidingUpTo(n - 1) = DecidingUpTo(n)
    BY <1>2, <2>1
  <2>3. EffectUpTo(n) = EffectUpTo(n - 1)
    BY <2>2 DEF EffectUpTo, LastRevoked
  <2>4. QED
    BY <1>6, <2>3 DEF Apply
<1>7. QED
  BY <1>4, <1>5, <1>6

\* The effect of a prefix stays when an event is signed.
LEMMA EffectPrefix ==
  ASSUME TypeOK, NEW n \in 0 .. Len(log),
         NEW event, log' = Append(log, event)
  PROVE  EffectUpTo(n)' = EffectUpTo(n)
<1>1. /\ Len(log) \in Nat /\ DOMAIN log = 1 .. Len(log)
      /\ log \in Seq([type : EventTypes, sub : Subjects])
  BY LogFacts DEF TypeOK
<1>2. DOMAIN log' = 1 .. Len(log) + 1 /\ \A i \in 1 .. Len(log) : log'[i] = log[i]
  BY <1>1
<1>3. DecidingUpTo(n)' = DecidingUpTo(n)
  BY <1>1, <1>2 DEF DecidingUpTo, Deciding
<1>4. \A i \in DecidingUpTo(n) : log'[i] = log[i]
  BY <1>1, <1>2 DEF DecidingUpTo, Deciding
<1>5. QED
  BY <1>3, <1>4 DEF EffectUpTo, LastRevoked

\* The effect of the whole log is its Effect.
LEMMA EffectWhole ==
  ASSUME TypeOK
  PROVE  EffectUpTo(Len(log)) = Effect
<1>1. DecidingUpTo(Len(log)) = Deciding
  BY LogFacts DEF DecidingUpTo, Deciding
<1>2. QED
  BY <1>1 DEF EffectUpTo, LastRevoked, Effect

\* What holds of the only emitter in every state.
LEMMA SerialFacts ==
  ASSUME IInv, SerialOK, NEW e \in Emitters, Emitters = {e}
  PROVE  /\ TypeOK
         /\ Busy(e) => id[e] = Len(log) /\ log # <<>> /\ ProgressOK(e)
         /\ \A i \in DOMAIN log : result[i] = "nil" => failed[i] = {}
         /\ Unfailing => DeliveredSoFar(e)
<1>1. TypeOK /\ (Busy(e) => ProgressOK(e) /\ id[e] \in 1 .. Len(log))
  BY BusyFacts DEF IInv, ProgressOK
<1>2. QED
  BY <1>1, LogFacts DEF SerialOK

\* A new emission follows one that everybody has applied.
LEMMA EmitSerial ==
  ASSUME IInv, SerialOK, NEW e \in Emitters, Emitters = {e}, Emit(e)
  PROVE  SerialOK'
<1>0. PICK n \in Nat : n = Len(log)
  BY LogFacts, SerialFacts
<1>1. /\ TypeOK /\ n \in Nat /\ DOMAIN log = 1 .. n /\ n + 1 \in Emissions /\ n < MaxEmits
      /\ phase[e] = "idle" /\ ~Busy(e)
  BY <1>0, SerialFacts, LogFacts DEF Emit, Emissions, Busy
<1>2. PICK event : log' = Append(log, event)
  BY DEF Emit
<1>3. /\ id'[e] = n + 1 /\ next'[e] = 1 /\ phase'[e] = "push"
      /\ UNCHANGED <<net, answers, cache, result, failed, accepted, restarts>>
  BY <1>0, <1>1 DEF Emit, TypeOK
<1>4. /\ Len(log') = n + 1 /\ DOMAIN log' = 1 .. n + 1 /\ log' # <<>>
  <2>1. log \in Seq([type : EventTypes, sub : Subjects])
    BY <1>1 DEF TypeOK
  <2>2. QED
    BY <1>0, <1>1, <1>2, <2>1
<1>5. result[n + 1] = "pending" /\ failed[n + 1] = {} /\ accepted[n + 1] = {}
  BY <1>0, <1>1 DEF IInv, UnsignedOK
<1>6. \A i \in DOMAIN log' : result'[i] = "nil" => failed'[i] = {}
  BY <1>1, <1>3, <1>4, <1>5, SerialFacts
<1>7. ASSUME Unfailing' PROVE DeliveredSoFar(e)'
  <2>1. Unfailing
    BY <1>1, <1>3, <1>4, <1>7 DEF Unfailing
  <2>2. DeliveredSoFar(e)
    BY <2>1, SerialFacts
  <2>3. net = {} /\ (log # <<>> => accepted[n] = Receivers)
    BY <1>0, <1>1, <2>2 DEF DeliveredSoFar
  <2>4. Busy(e)'
    BY <1>3 DEF Busy
  <2>5. ASSUME NEW r \in Receivers, restarts'[r] = 0
        PROVE  cache'[r] = EffectUpTo(Reached(r))'
    <3>1. cache[r] = EffectUpTo(n)
      BY <1>0, <1>3, <2>2, <2>3, <2>5 DEF DeliveredSoFar, Reached
    <3>2. Reached(r)' = n
      BY <1>1, <1>3, <1>4, <1>5 DEF Reached
    <3>3. n \in 0 .. Len(log)
      BY <1>0
    <3>4. EffectUpTo(n)' = EffectUpTo(n)
      BY <1>1, <1>2, <3>3, EffectPrefix
    <3>5. EffectUpTo(Reached(r))' = EffectUpTo(n)'
      BY <3>2 DEF EffectUpTo, LastRevoked, DecidingUpTo
    <3>6. QED
      BY <1>3, <3>1, <3>4, <3>5
  <2>6. QED
    BY <1>3, <1>5, <2>3, <2>4, <2>5 DEF DeliveredSoFar
<1>8. QED
  BY <1>3, <1>4, <1>6, <1>7 DEF SerialOK

\* The caches of a state with the same log and applications.
LEMMA CachesKept ==
  ASSUME NEW e, DeliveredSoFar(e), UNCHANGED <<log, cache, accepted, restarts>>
  PROVE  \A r \in Receivers : restarts'[r] = 0 => cache'[r] = EffectUpTo(Reached(r))'
<1>1. \A r \in Receivers : EffectUpTo(Reached(r))' = EffectUpTo(Reached(r))
  BY DEF EffectUpTo, LastRevoked, DecidingUpTo, Deciding, Reached
<1>2. QED
  BY <1>1 DEF DeliveredSoFar

\* A SET leaves for a subscriber that has not applied it.
LEMMA PushSerial ==
  ASSUME IInv, SerialOK, NEW e \in Emitters, Emitters = {e}, Push(e),
         phase' = [phase EXCEPT ![e] = "wait"],
         net' = net \cup {Message(e)},
         UNCHANGED <<id, next, firstErr, log, result, failed>>
  PROVE  SerialOK'
<1>1. /\ phase[e] = "push" /\ Busy(e) /\ phase'[e] = "wait" /\ Busy(e)'
      /\ UNCHANGED <<answers, cache, accepted, restarts>>
  BY DEF Push, Busy, IInv, TypeOK
<1>2. id[e] = Len(log) /\ \A i \in DOMAIN log : result[i] = "nil" => failed[i] = {}
  BY <1>1, SerialFacts
<1>3. ASSUME Unfailing' PROVE DeliveredSoFar(e)'
  <2>1. DeliveredSoFar(e)
    BY <1>3, SerialFacts DEF Unfailing
  <2>2. Message(e)' = Message(e) /\ net = {}
    BY <1>1, <2>1 DEF Message, DeliveredSoFar
  <2>3. \A i \in next[e] .. N : Subscribers[i] \notin accepted[id[e]]
    BY <1>1, <2>1 DEF DeliveredSoFar
  <2>4. QED
    BY <1>1, <2>1, <2>2, <2>3, CachesKept DEF DeliveredSoFar
<1>4. QED
  BY <1>1, <1>2, <1>3 DEF SerialOK

\* Emit goes on: without a failure only after the receiver has applied the SET.
LEMMA AdvanceSerial ==
  ASSUME IInv, SerialOK, NEW e \in Emitters, Emitters = {e},
         NEW ok \in BOOLEAN, Advance(e, ok), Busy(e), next[e] <= N,
         ok => phase[e] = "wait" /\ Subscribers[next[e]] \in accepted[id[e]],
         net' \subseteq net,
         UNCHANGED <<cache, accepted, restarts>>
  PROVE  SerialOK'
<1> DEFINE i == id[e]
           n == next[e]
<1>1. /\ TypeOK /\ i = Len(log) /\ i \in Emissions /\ i \in DOMAIN log /\ n \in 1 .. N /\ N \in Nat
      /\ result[i] = "pending"
  BY BusyFacts, SerialFacts, SubscriberFacts DEF ProgressOK
<1>2. /\ phase'[e] = "push" /\ next'[e] = n + 1 /\ id' = id /\ log' = log /\ result' = result
      /\ failed'[i] = (IF ok THEN failed[i] ELSE failed[i] \cup {n})
      /\ \A j \in Emissions \ {i} : failed'[j] = failed[j]
  BY <1>1 DEF Advance, TypeOK
<1>3. DOMAIN log \subseteq Emissions
  BY <1>1, LogFacts DEF Emissions
<1>4. Busy(e)'
  BY <1>2 DEF Busy
<1>5. \A j \in DOMAIN log' : result'[j] = "nil" => failed'[j] = {}
  <2>1. ASSUME NEW j \in DOMAIN log, result[j] = "nil" PROVE failed'[j] = {}
    <3>1. j # i /\ failed[j] = {}
      BY <1>1, <2>1, SerialFacts
    <3>2. QED
      BY <1>2, <1>3, <3>1
  <2>2. QED
    BY <1>2, <2>1
<1>6. ASSUME Unfailing' PROVE DeliveredSoFar(e)'
  <2>1. failed'[i] = {}
    BY <1>1, <1>2, <1>6 DEF Unfailing
  <2>2. ok
    BY <1>2, <2>1
  <2>3. Unfailing
    BY <1>2, <1>3, <1>6, <2>2 DEF Unfailing
  <2>4. DeliveredSoFar(e)
    BY <2>3, SerialFacts
  <2>5. net = {}
    BY <1>1, <2>2, <2>4 DEF DeliveredSoFar
  <2>6. \A k \in n + 1 .. N : Subscribers[k] \notin accepted[i]
    BY <1>1, <2>4 DEF DeliveredSoFar
  <2>7. net' = {}
    BY <2>5
  <2>8. QED
    BY <1>2, <1>4, <2>4, <2>6, <2>7, CachesKept DEF DeliveredSoFar
<1>7. QED
  BY <1>1, <1>2, <1>4, <1>5, <1>6 DEF SerialOK

\* The fan-out ends; without a failure everybody has applied the event.
LEMMA ReturnSerial ==
  ASSUME IInv, SerialOK, NEW e \in Emitters, Emitters = {e}, Return(e)
  PROVE  SerialOK'
<1> DEFINE i == id[e]
           out == IF firstErr[e] = 0 THEN "nil" ELSE "error"
<1>1. TypeOK /\ Busy(e) /\ phase[e] = "push" /\ next[e] > N
  BY DEF IInv, Return, Busy
<1>2. /\ i = Len(log) /\ i \in Emissions /\ i \in DOMAIN log /\ ProgressOK(e)
      /\ next[e] - 1 = N /\ N \in Nat
  BY <1>1, BusyFacts, SerialFacts, SubscriberFacts
<1>3. /\ result'[i] = out /\ \A j \in Emissions \ {i} : result'[j] = result[j]
      /\ phase'[e] = "idle"
      /\ UNCHANGED <<id, next, firstErr, net, answers, cache, log, failed, accepted, restarts>>
  BY <1>1, <1>2 DEF Return, TypeOK
<1>4. out = "nil" => failed[i] = {}
  BY <1>2 DEF ProgressOK
<1> HIDE DEF out
<1>5. \A j \in DOMAIN log' : result'[j] = "nil" => failed'[j] = {}
  <2>1. ASSUME NEW j \in DOMAIN log, result'[j] = "nil" PROVE failed[j] = {}
    <3>1. j \in Emissions
      BY <1>1, LogFacts DEF Emissions
    <3>2. CASE j = i
      BY <1>3, <1>4, <2>1, <3>2
    <3>3. CASE j # i
      BY <1>3, <2>1, <3>1, <3>3, SerialFacts
    <3>4. QED
      BY <3>2, <3>3
  <2>2. QED
    BY <1>3, <2>1
<1>6. ASSUME Unfailing' PROVE DeliveredSoFar(e)'
  <2>1. Unfailing
    BY <1>3, <1>6 DEF Unfailing
  <2>2. DeliveredSoFar(e) /\ failed[i] = {}
    BY <1>2, <2>1, SerialFacts DEF Unfailing
  <2>3. net = {}
    BY <1>1, <2>2 DEF DeliveredSoFar
  <2>4. accepted[i] = Receivers
    <3>1. \A k \in 1 .. N : Subscribers[k] \in accepted[i]
      BY <1>2, <2>2 DEF ProgressOK
    <3>2. accepted[i] \subseteq Receivers
      BY <1>1, <1>2 DEF TypeOK
    <3>3. QED
      BY <3>1, <3>2, SubscriberFacts
  <2>5. ~Busy(e)'
    BY <1>3 DEF Busy
  <2>6. QED
    BY <1>2, <1>3, <2>2, <2>3, <2>4, <2>5, CachesKept DEF DeliveredSoFar
<1>7. ~Busy(e)'
  BY <1>3 DEF Busy
<1>8. QED
  BY <1>5, <1>6, <1>7 DEF SerialOK

\* The SET under way is the newest event, and is applied to a cache that holds the
\* effect of all the events before it.
LEMMA ReceiveSerial ==
  ASSUME IInv, SerialOK, NEW e \in Emitters, Emitters = {e}, NEW m \in net, Receive(m)
  PROVE  SerialOK'
<1>1. TypeOK /\ m \in [emit : Emissions, to : Receivers]
  BY DEF IInv, TypeOK
<1>2. /\ net' = net \ {m} /\ restarts' = restarts
      /\ UNCHANGED <<phase, id, next, firstErr, result, failed, log>>
  BY DEF Receive, emitVars
<1>3. Busy(e)' <=> Busy(e)
  BY <1>2 DEF Busy
<1>4. /\ Busy(e) => id[e] = Len(log)
      /\ \A i \in DOMAIN log : result[i] = "nil" => failed[i] = {}
  BY SerialFacts
<1>5. ASSUME Unfailing' PROVE DeliveredSoFar(e)'
  <2>1. DeliveredSoFar(e)
    BY <1>2, <1>5, SerialFacts DEF Unfailing
  <2>2. phase[e] = "wait" /\ m = Message(e) /\ net' = {} /\ Busy(e)
    BY <1>2, <2>1 DEF DeliveredSoFar, Busy
  <2>3. /\ id[e] = Len(log) /\ log # <<>> /\ ProgressOK(e) /\ Len(log) \in 1 .. Len(log)
        /\ next[e] \in 1 .. N /\ N \in Nat /\ Len(log) \in Nat
    BY <1>1, <2>2, SerialFacts, LogFacts, SubscriberFacts DEF ProgressOK
  <2>4. m.emit = Len(log) /\ m.to = Subscribers[next[e]]
    BY <2>2, <2>3 DEF Message
  <2>5. CASE UNCHANGED <<cache, accepted>>
    BY <1>2, <2>1, <2>2, <2>5, CachesKept DEF DeliveredSoFar, Busy
  <2>6. CASE /\ cache' = [cache EXCEPT ![m.to] = Apply(cache[m.to], log[m.emit])]
             /\ accepted' = [accepted EXCEPT ![m.emit] = accepted[m.emit] \cup {m.to}]
    <3>1. /\ accepted'[id[e]] = accepted[id[e]] \cup {m.to}
          /\ cache'[m.to] = Apply(cache[m.to], log[m.emit])
          /\ \A r \in Receivers \ {m.to} : cache'[r] = cache[r]
      BY <1>1, <2>3, <2>4, <2>6 DEF TypeOK
    <3>2. m.to \notin accepted[id[e]]
      BY <2>1, <2>2, <2>3, <2>4 DEF DeliveredSoFar
    <3>3. ASSUME NEW i \in next[e] .. N, Subscribers[i] \in accepted'[id[e]]
          PROVE  i = next[e]
      <4>1. CASE Subscribers[i] = m.to
        BY <2>3, <2>4, <3>3, <4>1, SubscriberFacts
      <4>2. CASE Subscribers[i] # m.to
        BY <2>1, <2>2, <3>1, <3>3, <4>2 DEF DeliveredSoFar
      <4>3. QED
        BY <4>1, <4>2
    <3>4. ASSUME NEW r \in Receivers, restarts[r] = 0
          PROVE  cache'[r] = EffectUpTo(Reached(r))'
      <4>1. EffectUpTo(Reached(r))' = EffectUpTo(Reached(r)')
        BY <1>2 DEF EffectUpTo, LastRevoked, DecidingUpTo, Deciding
      <4>2. cache[r] = EffectUpTo(Reached(r))
        BY <2>1, <3>4 DEF DeliveredSoFar
      <4>3. CASE r = m.to
        <5>1. Reached(r) = Len(log) - 1
          BY <2>3, <3>2, <4>3 DEF Reached
        <5>2. Reached(r)' = Len(log)
          BY <1>2, <2>3, <3>1, <4>3 DEF Reached
        <5>3. EffectUpTo(Len(log)) = Apply(EffectUpTo(Len(log) - 1), log[Len(log)])
          BY <1>1, <2>3, EffectStep
        <5>4. QED
          BY <2>4, <3>1, <4>1, <4>2, <4>3, <5>1, <5>2, <5>3
      <4>4. CASE r # m.to
        <5>1. Reached(r)' = Reached(r)
          BY <1>2, <2>3, <3>1, <4>4 DEF Reached
        <5>2. QED
          BY <3>1, <4>1, <4>2, <4>4, <5>1
      <4>5. QED
        BY <4>3, <4>4
    <3>5. QED
      BY <1>2, <1>3, <2>2, <3>3, <3>4 DEF DeliveredSoFar
  <2>7. QED
    BY <2>5, <2>6 DEF Receive
<1>6. QED
  BY <1>2, <1>3, <1>4, <1>5 DEF SerialOK

\* A restart breaks connections and puts one cache out of consideration.
LEMMA RestartSerial ==
  ASSUME IInv, SerialOK, NEW e \in Emitters, Emitters = {e},
         NEW r \in Receivers, RestartReceiver(r)
  PROVE  SerialOK'
<1>1. /\ restarts' = [restarts EXCEPT ![r] = restarts[r] + 1]
      /\ cache' = [cache EXCEPT ![r] = {}]
      /\ net' \subseteq net /\ accepted' = accepted
      /\ UNCHANGED <<phase, id, next, firstErr, result, failed, log>>
  BY DEF RestartReceiver, emitVars
<1>2. TypeOK /\ restarts[r] \in Nat
  BY DEF IInv, TypeOK
<1>3. /\ restarts'[r] # 0
      /\ \A q \in Receivers \ {r} : restarts'[q] = restarts[q] /\ cache'[q] = cache[q]
  BY <1>1, <1>2 DEF TypeOK
<1>4. Busy(e)' <=> Busy(e)
  BY <1>1 DEF Busy
<1>5. /\ Busy(e) => id[e] = Len(log)
      /\ \A i \in DOMAIN log : result[i] = "nil" => failed[i] = {}
  BY SerialFacts
<1>6. ASSUME Unfailing' PROVE DeliveredSoFar(e)'
  <2>1. DeliveredSoFar(e)
    BY <1>1, <1>6, SerialFacts DEF Unfailing
  <2>2. \A q \in Receivers : EffectUpTo(Reached(q))' = EffectUpTo(Reached(q))
    BY <1>1 DEF EffectUpTo, LastRevoked, DecidingUpTo, Deciding, Reached
  <2>3. \A q \in Receivers : restarts'[q] = 0 => cache'[q] = EffectUpTo(Reached(q))'
    BY <1>3, <2>1, <2>2 DEF DeliveredSoFar
  <2>4. Message(e)' = Message(e) /\ (net = {} => net' = {})
    BY <1>1 DEF Message
  <2>5. QED
    BY <1>1, <1>4, <2>1, <2>3, <2>4 DEF DeliveredSoFar
<1>7. QED
  BY <1>1, <1>4, <1>5, <1>6 DEF SerialOK

\* Every step of a system with one emitter keeps the order of its events.
LEMMA NextSerial == IInv /\ SerialOK /\ [Next]_vars => SerialOK'
<1> SUFFICES ASSUME IInv, SerialOK, [Next]_vars, NEW e \in Emitters, Emitters = {e}
             PROVE  SerialOK'
  BY DEF SerialOK
<1>1. CASE Emit(e)
  BY <1>1, EmitSerial
<1>2. CASE Push(e)
  <2>1. Busy(e) /\ next[e] <= N
    BY <1>2 DEF Push, Busy
  <2>2. CASE Advance(e, FALSE) /\ UNCHANGED net
    BY <1>2, <2>1, <2>2, AdvanceSerial DEF Push
  <2>3. CASE ~(Advance(e, FALSE) /\ UNCHANGED net)
    BY <1>2, <2>3, PushSerial DEF Push
  <2>4. QED
    BY <2>2, <2>3
<1>3. CASE Answered(e) \/ ConnectionLost(e) \/ TimesOut(e)
  <2>1. Busy(e) /\ phase[e] = "wait"
    BY <1>3 DEF Answered, ConnectionLost, TimesOut, Busy
  <2>2. next[e] <= N
    BY <2>1, BusyFacts DEF ProgressOK
  <2>3. CASE Answered(e)
    <3>1. PICK a \in AnswersTo(e) : Advance(e, a.status = 202)
      BY <2>3 DEF Answered
    <3> DEFINE ok == a.status = 202
    <3>2. ok \in BOOLEAN /\ Advance(e, ok) /\ (ok => Subscribers[next[e]] \in accepted[id[e]])
      BY <3>1 DEF AnswersTo, IInv, TransitOK
    <3>3. UNCHANGED <<net, cache, accepted, restarts>>
      BY <2>3 DEF Answered
    <3> HIDE DEF ok
    <3>4. QED
      BY <2>1, <2>2, <3>2, <3>3, AdvanceSerial
  <2>4. CASE ConnectionLost(e) \/ TimesOut(e)
    <3>1. /\ Advance(e, FALSE) /\ net' \subseteq net
          /\ UNCHANGED <<cache, accepted, restarts>>
      BY <2>4 DEF ConnectionLost, TimesOut
    <3>2. QED
      BY <2>1, <2>2, <3>1, AdvanceSerial
  <2>5. QED
    BY <1>3, <2>3, <2>4
<1>4. CASE Return(e)
  BY <1>4, ReturnSerial
<1>5. CASE \E m \in net : Receive(m)
  BY <1>5, ReceiveSerial
<1>6. CASE \E r \in Receivers : RestartReceiver(r)
  BY <1>6, RestartSerial
<1>7. CASE UNCHANGED vars
  <2>1. UNCHANGED <<phase, id, next, firstErr, net, answers, cache, log, result, failed,
                    accepted, restarts>>
    BY <1>7 DEF vars
  <2>2. Unfailing' <=> Unfailing
    BY <2>1 DEF Unfailing
  <2>3. DeliveredSoFar(e) => DeliveredSoFar(e)'
    <3>1. DeliveredSoFar(e) =>
            \A r \in Receivers : restarts'[r] = 0 => cache'[r] = EffectUpTo(Reached(r))'
      BY <2>1, CachesKept
    <3>2. QED
      BY <2>1, <3>1 DEF DeliveredSoFar, Busy, Message
  <2>4. QED
    BY <2>1, <2>2, <2>3 DEF SerialOK, Busy
<1>8. QED
  BY <1>1, <1>2, <1>3, <1>4, <1>5, <1>6, <1>7 DEF Next

\* With one caller at a time and no failed Emit, the caches that did not restart
\* hold exactly the subjects revoked last, between two calls, for every sequence
\* of events and any number of receivers.
THEOREM SerialEmitsAlwaysConverge == Spec => []SerialEmitsConverge
<1>1. Init => SerialOK
  <2> SUFFICES ASSUME Init, NEW e \in Emitters PROVE ~Busy(e) /\ DeliveredSoFar(e) /\ DOMAIN log = {}
    BY DEF SerialOK
  <2>1. ~Busy(e) /\ log = <<>> /\ Len(log) = 0 /\ DOMAIN log = {}
    BY DEF Init, Busy
  <2>2. \A r \in Receivers : EffectUpTo(Reached(r)) = {}
    BY <2>1 DEF EffectUpTo, LastRevoked, DecidingUpTo, Deciding
  <2>3. QED
    BY <2>1, <2>2 DEF Init, DeliveredSoFar
<1>2. IInv /\ SerialOK => SerialEmitsConverge
  <2> SUFFICES ASSUME IInv, SerialOK, Cardinality(Emitters) = 1, Quiescent, AllNil,
                      NEW r \in Receivers, restarts[r] = 0
               PROVE  cache[r] = Effect
    BY DEF SerialEmitsConverge
  <2>1. PICK e : Emitters = {e}
    BY FS_Singleton, CAEPAssumption
  <2>2. TypeOK /\ ~Busy(e)
    BY <2>1 DEF IInv, Quiescent, Busy
  <2>3. Unfailing
    BY <2>1, SerialFacts DEF Unfailing, AllNil
  <2>4. DeliveredSoFar(e)
    BY <2>1, <2>3, SerialFacts
  <2>5. Reached(r) = Len(log)
    BY <2>2, <2>4 DEF DeliveredSoFar, Reached
  <2>6. QED
    BY <2>2, <2>4, <2>5, EffectWhole DEF DeliveredSoFar
<1>3. QED
  BY <1>1, <1>2, NextSerial, FanOutInvariant, PTL DEF Spec
=============================================================================
