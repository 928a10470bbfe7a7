--------------------------- MODULE IdentityProofs ---------------------------
(***************************************************************************)
(* Proofs about Identity, for any clocks, intervals, delays and lifetimes  *)
(* that leave the rotation loop the room it needs (IdentityAssumption),    *)
(* any sources and any certificate authorities.                            *)
(***************************************************************************)
EXTENDS Identity, TLAPS

-----------------------------------------------------------------------------
(* The inductive invariant.                                                *)

\* An SVID that the loop rotates: how old it is, the time to the next tick and the
\* delay of the last one make up the interval.
OnTime(s, t) ==
  IF t.fired THEN s.age <= Every + t.since ELSE s.age + t.due <= Every

\* What workload w serves: a certificate with its key, and if it is the product of
\* a rotation that works, then one the loop will replace in time.  It trusts the CA
\* that issued the certificate, unless it came up on a torn set of files.
ServedOK(w, e, st, s, b, t) ==
  /\ s.ca = "" <=> st = "down"
  /\ t.on <=> e = "rotating" /\ st = "up"
  /\ t.fired => t.on
  /\ s.gen = s.key
  /\ s.from = "rotating" /\ ~s.kept => t.on /\ s.off = Offset[w] /\ OnTime(s, t)
  /\ st # "down" /\ ~s.torn => b = s.ca
  /\ st # "down" /\ e # "files" => b = FirstCA

\* No rotated certificate is in a file, and what is no certificate is the truncated one.
CertOK(s) == s.from # "rotating" /\ (s.ca = "" => s = Truncated)

\* From its certificate on, a run of the tool writes a set of one CA.
FilesOK(f, i) ==
  /\ CertOK(f.cert)
  /\ i.file = "none" => f.bundle = f.cert.ca
  /\ i.file \in {"key", "bundle"} => f.cert.ca = i.ca

\* What has been read: while no other run has begun, the certificate in the files.
LoadingOK(e, l, f, i) ==
  /\ l.file # "none" => e = "files"
  /\ CertOK(l.cert)
  /\ l.file = "bundle" => l.cert # Truncated /\ l.cert.gen = l.cert.key
  /\ l.run <= i.gen
  /\ l.run = i.gen => i.file = "none" /\ l.cert.ca = f.cert.ca

\* What is on its way is older than what is served by at most the handshake.
ShownOK(c) ==
  /\ c.shown.gen = c.shown.key
  /\ c.shown.from = "rotating" /\ ~c.shown.kept =>
       /\ c.shown.age <= Every + Lag + c.took
       /\ \E w \in Workloads : c.shown.off = Offset[w]

\* Why v refuses s, by what it trusts.
Reason(v, s) ==
  \/ s.ca # bundle[v]
  \/ Age(v, s) > Life /\ (s.from # "rotating" \/ s.kept)

Refusals ==
  /\ conn.st = "refused_by_client" => Reason(Client, conn.shown)
  /\ conn.st = "refused_by_server" => Reason(Server, conn.shown)

IInv ==
  /\ TypeOK
  /\ \A w \in Workloads : ServedOK(w, env[w], status[w], svid[w], bundle[w], ticker[w])
  /\ \A w \in Workloads : FilesOK(files[w], issuing[w])
  /\ \A w \in Workloads : LoadingOK(env[w], loading[w], files[w], issuing[w])
  /\ ShownOK(conn)
  /\ conn.st # "none" => \A w \in Workloads : status[w] # "down"
  /\ Refusals

Gens  == 0 .. MaxIssued
PEMs  == [cert : SVIDs, key : 0 .. MaxIssued, bundle : CAs \cup {""}]
Runs  == [ca : CAs, gen : 1 .. MaxIssued, file : {"none", "cert", "key", "bundle"}]
Loads == [file : {"none", "key", "bundle"}, cert : SVIDs, run : 0 .. MaxIssued]
Conns == [st : {"none", "hello", "presented", "answered", "open",
                "refused_by_client", "refused_by_server"},
          shown : SVIDs, took : 0 .. Duration]

-----------------------------------------------------------------------------
(* SVIDs.                                                                  *)

LEMMA Numbers ==
  /\ Life \in Nat /\ Backdate \in Nat /\ Every \in Nat /\ Lag \in Nat /\ Duration \in Nat
  /\ Every > 0 /\ MaxIssued \in Nat /\ MaxIssued > 0
  /\ AgeCap \in Nat /\ AgeCap = Life + Backdate + 1
<1>1. /\ Life \in Nat /\ Backdate \in Nat /\ Every \in Nat /\ Lag \in Nat /\ Duration \in Nat
      /\ MaxIssued \in Nat
  BY IdentityAssumption, Zenon
<1>2. Every > 0 /\ MaxIssued > 0
  BY IdentityAssumption, Zenon
<1>3. QED
  BY <1>1, <1>2 DEF AgeCap

LEMMA Names ==
  Server \in Workloads /\ Client \in Workloads /\ FirstCA \in CAs /\ "" \notin CAs
BY IdentityAssumption, Zenon DEF Workloads

\* How far the clocks may be apart, and what room the interval leaves.
LEMMA Clocks ==
  ASSUME NEW v \in Workloads, NEW w \in Workloads
  PROVE  /\ Offset[v] \in Int /\ Offset[w] \in Int
         /\ - Offset[v] <= Backdate /\ Offset[w] - Offset[v] <= Backdate
         /\ Every + Lag + Duration + Offset[v] - Offset[w] <= Life
BY IdentityAssumption, Zenon

\* The certificate that is none.
LEMMA NoSVIDFacts ==
  /\ NoSVID \in SVIDs /\ Truncated = NoSVID
  /\ NoSVID.ca = "" /\ NoSVID.gen = 0 /\ NoSVID.key = 0 /\ NoSVID.from = ""
  /\ NoSVID.age = AgeCap
<1>1. AgeCap \in 0 .. AgeCap /\ 0 \in 0 .. MaxIssued
  BY Numbers
<1>2. NoSVID \in SVIDs
  BY <1>1 DEF NoSVID, SVIDs
<1>3. QED
  BY <1>2 DEF NoSVID, Truncated

\* The certificates that the agent, the loop and the issuing tool mint.
LEMMA AgentMint ==
  ASSUME NEW w \in Workloads, NEW s, s = Mint(FirstCA, w, 0, 0, "agent")
  PROVE  s \in SVIDs /\ s.ca = FirstCA /\ s.ca # "" /\ s.gen = s.key /\ s.from = "agent"
<1>1. 0 \in 0 .. MaxIssued /\ 0 \in 0 .. AgeCap
  BY Numbers
<1>2. FirstCA \in CAs /\ FirstCA # ""
  BY Names, Zenon
<1>3. s \in SVIDs
  BY <1>1, <1>2 DEF Mint, SVIDs, Sources
<1>4. QED
  BY <1>2, <1>3 DEF Mint

LEMMA LoopMint ==
  ASSUME NEW w \in Workloads, NEW s, s = Mint(FirstCA, w, Offset[w], 0, "rotating")
  PROVE  /\ s \in SVIDs /\ s.ca = FirstCA /\ s.ca # "" /\ s.gen = s.key
         /\ s.off = Offset[w] /\ s.age = 0
<1>1. 0 \in 0 .. MaxIssued /\ 0 \in 0 .. AgeCap
  BY Numbers
<1>2. FirstCA \in CAs /\ FirstCA # ""
  BY Names, Zenon
<1>3. s \in SVIDs
  BY <1>1, <1>2 DEF Mint, SVIDs, Sources
<1>4. QED
  BY <1>2, <1>3 DEF Mint

LEMMA ToolMint ==
  ASSUME NEW ca \in CAs, NEW w \in Workloads, NEW gen \in Gens,
         NEW s, s = Mint(ca, w, 0, gen, "files")
  PROVE  s \in SVIDs
<1>1. 0 \in 0 .. AgeCap
  BY Numbers
<1>2. QED
  BY <1>1 DEF Mint, SVIDs, Sources, Gens

\* A certificate gets older, by one at most, until nobody can tell.
LEMMA OlderFacts ==
  ASSUME NEW s \in SVIDs
  PROVE  /\ Older(s) \in SVIDs /\ s.age \in 0 .. AgeCap
         /\ Older(s).age <= s.age + 1 /\ Older(s).age \in Nat
         /\ Older(s).ca = s.ca /\ Older(s).off = s.off /\ Older(s).from = s.from
         /\ Older(s).gen = s.gen /\ Older(s).key = s.key /\ Older(s).kept = s.kept
         /\ Older(s).torn = s.torn
         /\ s = Truncated => Older(s) = Truncated
<1>1. s.age \in 0 .. AgeCap /\ AgeCap \in Nat
  BY Numbers DEF SVIDs
<1>2. PICK a : a = IF s.age < AgeCap THEN s.age + 1 ELSE s.age
  OBVIOUS
<1>3. a \in 0 .. AgeCap /\ a <= s.age + 1
  BY <1>1, <1>2
<1>4. Older(s) = [s EXCEPT !.age = a]
  BY <1>2, Zenon DEF Older
<1>5. /\ Older(s) \in SVIDs /\ Older(s).age = a
      /\ Older(s).ca = s.ca /\ Older(s).off = s.off /\ Older(s).from = s.from
      /\ Older(s).gen = s.gen /\ Older(s).key = s.key /\ Older(s).kept = s.kept
      /\ Older(s).torn = s.torn
  BY <1>3, <1>4 DEF SVIDs
<1>6. ASSUME s = Truncated PROVE Older(s) = Truncated
  <2>1. s.age = AgeCap
    BY <1>6, NoSVIDFacts
  <2>2. a = s.age
    BY <1>1, <1>2, <2>1
  <2>3. [s EXCEPT !.age = s.age] = s
    BY DEF SVIDs
  <2>4. QED
    BY <1>4, <1>6, <2>2, <2>3
<1>7. QED
  BY <1>1, <1>3, <1>5, <1>6

\* A rotation that fails marks the certificate and leaves it what it is.
LEMMA KeptFacts ==
  ASSUME NEW s \in SVIDs
  PROVE  /\ [s EXCEPT !.kept = TRUE] \in SVIDs /\ [s EXCEPT !.kept = TRUE].kept = TRUE
         /\ [s EXCEPT !.kept = TRUE].ca = s.ca
         /\ [s EXCEPT !.kept = TRUE].gen = s.gen /\ [s EXCEPT !.kept = TRUE].key = s.key
         /\ [s EXCEPT !.kept = TRUE].torn = s.torn
BY DEF SVIDs

-----------------------------------------------------------------------------
(* Numbers in records.                                                     *)

LEMMA SVIDNumbers ==
  ASSUME NEW s \in SVIDs
  PROVE  s.age \in Nat /\ (s.off = 0 \/ \E w \in Workloads : s.off = Offset[w])
<1>1. s.age \in 0 .. AgeCap /\ s.off \in {Offset[w] : w \in Workloads} \cup {0}
  BY DEF SVIDs
<1>2. QED
  BY <1>1, Numbers

LEMMA ConnNumbers ==
  ASSUME NEW c \in Conns
  PROVE  c.shown \in SVIDs /\ c.took \in 0 .. Duration /\ c.took \in Nat /\ c.took <= Duration
<1>1. c.shown \in SVIDs /\ c.took \in 0 .. Duration
  BY DEF Conns
<1>2. QED
  BY <1>1, Numbers

LEMMA TickerNumbers ==
  ASSUME NEW t \in Tickers
  PROVE  /\ t.since \in Nat /\ t.since <= Lag
         /\ t.due \in Nat /\ t.due >= 1 /\ t.due <= Every
<1>1. t.since \in 0 .. Lag /\ t.due \in 1 .. Every
  BY DEF Tickers
<1>2. QED
  BY <1>1, Numbers

LEMMA NoConnFacts ==
  NoConn \in Conns /\ NoConn.st = "none" /\ NoConn.shown = NoSVID
<1>1. 0 \in 0 .. Duration
  BY Numbers
<1>2. QED
  BY <1>1, NoSVIDFacts DEF NoConn, Conns

-----------------------------------------------------------------------------
(* The ticker.                                                             *)

LEMMA TickerFacts ==
  /\ Ticking \in Tickers /\ Ticking.on = TRUE /\ Ticking.fired = FALSE /\ Ticking.due = Every
  /\ Stopped \in Tickers /\ Stopped.on = FALSE /\ Stopped.fired = FALSE
  /\ \A t \in Tickers : /\ Handled(t) \in Tickers /\ Handled(t).on = t.on
                        /\ Handled(t).fired = FALSE /\ Handled(t).due = t.due
<1>1. Every \in 1 .. Every /\ 0 \in 0 .. Lag
  BY Numbers
<1>2. Ticking \in Tickers /\ Stopped \in Tickers
  BY <1>1 DEF Ticking, Stopped, Tickers
<1>3. ASSUME NEW t \in Tickers
      PROVE  /\ Handled(t) \in Tickers /\ Handled(t).on = t.on
             /\ Handled(t).fired = FALSE /\ Handled(t).due = t.due
  BY <1>1 DEF Handled, Tickers
<1>4. QED
  BY <1>2, <1>3 DEF Ticking, Stopped

\* What has just been minted is on time.
LEMMA NewOnTime ==
  ASSUME NEW s, s.age = 0, NEW t \in Tickers, t.fired = FALSE
  PROVE  OnTime(s, t)
BY TickerNumbers, Numbers DEF OnTime

\* Time passes: what was on time is on time, the tick that falls due included.
LEMMA TickedFacts ==
  ASSUME NEW t \in Tickers, t.fired => t.since < Lag
  PROVE  /\ Ticked(t) \in Tickers /\ Ticked(t).on = t.on
         /\ (t.fired => t.on) => (Ticked(t).fired => Ticked(t).on)
         /\ \A s \in SVIDs : t.on /\ OnTime(s, t) => OnTime(Older(s), Ticked(t))
<1>1. /\ t.on \in BOOLEAN /\ t.fired \in BOOLEAN /\ t.due \in 1 .. Every /\ t.since \in 0 .. Lag
      /\ Every \in Nat /\ Every > 0 /\ Lag \in Nat
  BY Numbers DEF Tickers
<1>2. CASE ~t.on
  <2>1. Ticked(t) = t
    BY <1>2 DEF Ticked
  <2>2. QED
    BY <1>2, <2>1
<1>3. CASE t.on
  <2> DEFINE due   == IF t.due = 1 THEN Every ELSE t.due - 1
             fired == t.fired \/ t.due = 1
             since == IF t.fired THEN t.since + 1 ELSE 0
  <2>1. Ticked(t) = [on |-> TRUE, due |-> due, fired |-> fired, since |-> since]
    BY <1>3, Zenon DEF Ticked
  <2>2. due \in 1 .. Every /\ fired \in BOOLEAN /\ since \in 0 .. Lag
    BY <1>1
  <2> HIDE DEF due, fired, since
  <2>3. Ticked(t) \in Tickers /\ Ticked(t).on = TRUE
    BY <2>1, <2>2 DEF Tickers
  <2>4. Ticked(t).due = due /\ (Ticked(t).fired <=> fired) /\ Ticked(t).since = since
    BY <2>1
  <2>5. ASSUME NEW s \in SVIDs, OnTime(s, t) PROVE OnTime(Older(s), Ticked(t))
    <3>1. PICK a \in Nat : a = s.age /\ Older(s).age <= a + 1 /\ Older(s).age \in Nat
      BY OlderFacts, Numbers
    <3>2. IF t.fired THEN a <= Every + t.since ELSE a + t.due <= Every
      BY <2>5, <3>1 DEF OnTime
    <3>3. IF fired THEN a + 1 <= Every + since ELSE a + 1 + due <= Every
      <4>1. CASE t.fired
        BY <1>1, <3>1, <3>2, <4>1 DEF fired, since
      <4>2. CASE ~t.fired /\ t.due = 1
        BY <1>1, <3>1, <3>2, <4>2 DEF fired, since
      <4>3. CASE ~t.fired /\ t.due # 1
        BY <1>1, <3>1, <3>2, <4>3 DEF fired, due
      <4>4. QED
        BY <4>1, <4>2, <4>3
    <3>4. IF fired THEN Older(s).age <= Every + since ELSE Older(s).age + due <= Every
      BY <1>1, <2>2, <3>1, <3>3
    <3>5. QED
      BY <2>4, <3>4 DEF OnTime
  <2>6. QED
    BY <1>1, <1>3, <2>3, <2>5
<1>4. QED
  BY <1>1, <1>2, <1>3

-----------------------------------------------------------------------------
(* The steps of a workload.                                                *)

\* The types of what a workload has.
LEMMA WorkloadFacts ==
  ASSUME IInv, NEW w \in Workloads
  PROVE  /\ env[w] \in Sources /\ status[w] \in {"down", "up", "closed"}
         /\ svid[w] \in SVIDs /\ bundle[w] \in CAs \cup {""} /\ ticker[w] \in Tickers
         /\ files[w] \in PEMs /\ issuing[w] \in Runs /\ loading[w] \in Loads /\ conn \in Conns
         /\ ServedOK(w, env[w], status[w], svid[w], bundle[w], ticker[w])
         /\ FilesOK(files[w], issuing[w]) /\ LoadingOK(env[w], loading[w], files[w], issuing[w])
BY DEF IInv, TypeOK, PEMs, Runs, Loads, Conns

\* A process that is not about to come up has read nothing.
LEMMA NotLoadingFacts ==
  /\ NotLoading \in Loads
  /\ \A e, f : \A i \in Runs : LoadingOK(e, NotLoading, f, i)
<1>1. NotLoading.file = "none" /\ NotLoading.cert = NoSVID /\ NotLoading.run = 0
  BY DEF NotLoading
<1>2. 0 \in 0 .. MaxIssued
  BY Numbers
<1>3. NotLoading \in Loads
  BY <1>2, NoSVIDFacts DEF NotLoading, Loads
<1>4. CertOK(NoSVID)
  BY NoSVIDFacts DEF CertOK
<1>5. ASSUME NEW i \in Runs PROVE 0 <= i.gen /\ i.gen # 0
  <2>1. i.gen \in 1 .. MaxIssued
    BY DEF Runs
  <2>2. QED
    BY <2>1, Numbers
<1>6. ASSUME NEW e, NEW f, NEW i \in Runs PROVE LoadingOK(e, NotLoading, f, i)
  BY <1>1, <1>4, <1>5 DEF LoadingOK
<1>7. QED
  BY <1>3, <1>6

\* One workload changes; a connection is dropped, or its peers stay up and go on
\* trusting the CA they trusted.
LEMMA WorkloadStep ==
  ASSUME IInv, NEW w \in Workloads,
         NEW st \in {"down", "up", "closed"}, NEW s \in SVIDs, NEW b \in CAs \cup {""},
         NEW t \in Tickers, NEW f \in PEMs, NEW i \in Runs, NEW l \in Loads,
         env' = env,
         status' = [status EXCEPT ![w] = st], svid' = [svid EXCEPT ![w] = s],
         bundle' = [bundle EXCEPT ![w] = b], ticker' = [ticker EXCEPT ![w] = t],
         files' = [files EXCEPT ![w] = f], issuing' = [issuing EXCEPT ![w] = i],
         loading' = [loading EXCEPT ![w] = l],
         ServedOK(w, env[w], st, s, b, t), FilesOK(f, i), LoadingOK(env[w], l, f, i),
         \/ conn' = NoConn
         \/ /\ conn' = conn
            /\ conn.st # "none" => st # "down" /\ b = bundle[w]
  PROVE  IInv'
<1>1. /\ env \in [Workloads -> Sources] /\ status \in [Workloads -> {"down", "up", "closed"}]
      /\ svid \in [Workloads -> SVIDs] /\ bundle \in [Workloads -> CAs \cup {""}]
      /\ ticker \in [Workloads -> Tickers] /\ files \in [Workloads -> PEMs]
      /\ issuing \in [Workloads -> Runs] /\ loading \in [Workloads -> Loads] /\ conn \in Conns
  BY DEF IInv, TypeOK, PEMs, Runs, Loads, Conns
<1>2. /\ status' \in [Workloads -> {"down", "up", "closed"}]
      /\ svid' \in [Workloads -> SVIDs] /\ bundle' \in [Workloads -> CAs \cup {""}]
      /\ ticker' \in [Workloads -> Tickers] /\ files' \in [Workloads -> PEMs]
      /\ issuing' \in [Workloads -> Runs] /\ loading' \in [Workloads -> Loads]
  BY <1>1
<1>3. /\ status'[w] = st /\ svid'[w] = s /\ bundle'[w] = b /\ ticker'[w] = t
      /\ files'[w] = f /\ issuing'[w] = i /\ loading'[w] = l
  BY <1>1
<1>4. ASSUME NEW v \in Workloads, v # w
      PROVE  /\ status'[v] = status[v] /\ svid'[v] = svid[v] /\ bundle'[v] = bundle[v]
             /\ ticker'[v] = ticker[v] /\ files'[v] = files[v] /\ issuing'[v] = issuing[v]
             /\ loading'[v] = loading[v]
  BY <1>1, <1>4
<1>5. /\ NoConn \in Conns /\ NoConn.st = "none" /\ NoConn.shown = NoSVID
  BY NoConnFacts
<1>6. conn' \in Conns
  BY <1>1, <1>5
<1>7. \A v \in Workloads : ServedOK(v, env'[v], status'[v], svid'[v], bundle'[v], ticker'[v])
  <2>1. ASSUME NEW v \in Workloads
        PROVE  ServedOK(v, env'[v], status'[v], svid'[v], bundle'[v], ticker'[v])
    <3>1. CASE v = w
      BY <1>3, <3>1
    <3>2. CASE v # w
      BY <1>4, <3>2, WorkloadFacts
    <3>3. QED
      BY <3>1, <3>2
  <2>2. QED
    BY <2>1
<1>8. \A v \in Workloads : /\ FilesOK(files'[v], issuing'[v])
                           /\ LoadingOK(env'[v], loading'[v], files'[v], issuing'[v])
  BY <1>3, <1>4, WorkloadFacts
<1>9. /\ \A v \in Workloads : svid'[v].ca = "" <=> status'[v] = "down"
      /\ \A v \in Workloads : ticker'[v].on <=> env'[v] = "rotating" /\ status'[v] = "up"
  BY <1>7 DEF ServedOK
<1>10. TypeOK'
  BY <1>1, <1>2, <1>6, <1>9 DEF TypeOK, PEMs, Runs, Loads, Conns
<1>11. ShownOK(conn')
  <2>1. ShownOK(NoConn)
    BY <1>5, NoSVIDFacts DEF ShownOK
  <2>2. QED
    BY <2>1 DEF IInv
<1>12. conn'.st # "none" => \A v \in Workloads : status'[v] # "down"
  BY <1>3, <1>4, <1>5 DEF IInv
<1>13. Refusals'
  <2>1. CASE conn' = NoConn
    BY <1>5, <2>1 DEF Refusals
  <2>2. CASE conn' = conn /\ conn.st = "none"
    BY <2>2 DEF Refusals
  <2>3. CASE conn' = conn /\ conn.st # "none" /\ b = bundle[w]
    <3>1. bundle' = bundle
      BY <1>1, <2>3
    <3>2. QED
      BY <2>3, <3>1 DEF Refusals, Reason, IInv
  <2>4. QED
    BY <2>1, <2>2, <2>3
<1>14. QED
  BY <1>7, <1>8, <1>10, <1>11, <1>12, <1>13 DEF IInv

\* The bundle of a set that is whole is that of the certificate that has been read.
LEMMA WholeSet ==
  ASSUME NEW l \in Loads, NEW i \in Runs, NEW e, NEW f,
         FilesOK(f, i), LoadingOK(e, l, f, i), l.run # 0, l.run = WholeRun(i)
  PROVE  l.cert.ca = f.bundle
BY DEF WholeRun, FilesOK, LoadingOK

\* What is served of the files that have been read.
LEMMA LoadedFacts ==
  ASSUME NEW c \in SVIDs, CertOK(c), c # Truncated, c.gen = c.key, NEW torn \in BOOLEAN
  PROVE  LET s == [c EXCEPT !.torn = torn]
         IN  /\ s \in SVIDs /\ s.ca = c.ca /\ s.ca # "" /\ s.gen = s.key
             /\ s.from # "rotating" /\ s.torn = torn
<1>1. PICK s : s = [c EXCEPT !.torn = torn]
  OBVIOUS
<1>2. /\ s \in SVIDs /\ s.ca = c.ca /\ s.gen = c.gen /\ s.key = c.key /\ s.from = c.from
      /\ s.torn = torn
  BY <1>1 DEF SVIDs
<1>3. QED
  BY <1>1, <1>2 DEF CertOK

\* A process comes up with an SVID from its source.
LEMMA ServeStep ==
  ASSUME IInv, NEW w \in Workloads, NEW s \in SVIDs, NEW b \in CAs \cup {""},
         NEW t \in Tickers, NEW l \in Loads,
         Serve(w, s, b), ticker' = [ticker EXCEPT ![w] = t],
         loading' = [loading EXCEPT ![w] = l],
         ServedOK(w, env[w], "up", s, b, t), LoadingOK(env[w], l, files[w], issuing[w])
  PROVE  IInv'
<1>1. /\ env' = env /\ conn' = conn /\ status[w] = "down"
      /\ status' = [status EXCEPT ![w] = "up"] /\ svid' = [svid EXCEPT ![w] = s]
      /\ bundle' = [bundle EXCEPT ![w] = b]
      /\ files' = [files EXCEPT ![w] = files[w]] /\ issuing' = [issuing EXCEPT ![w] = issuing[w]]
  BY DEF Serve, IInv, TypeOK
<1>2. conn.st = "none"
  BY <1>1 DEF IInv
<1>3. QED
  BY <1>1, <1>2, WorkloadFacts, WorkloadStep

\* Something is read, or what was read is refused.
LEMMA LoadStep ==
  ASSUME IInv, NEW w \in Workloads, NEW l \in Loads, Load(w, l),
         LoadingOK(env[w], l, files[w], issuing[w])
  PROVE  IInv'
<1>1. /\ env' = env /\ conn' = conn
      /\ status' = [status EXCEPT ![w] = status[w]] /\ svid' = [svid EXCEPT ![w] = svid[w]]
      /\ bundle' = [bundle EXCEPT ![w] = bundle[w]] /\ ticker' = [ticker EXCEPT ![w] = ticker[w]]
      /\ files' = [files EXCEPT ![w] = files[w]] /\ issuing' = [issuing EXCEPT ![w] = issuing[w]]
      /\ loading' = [loading EXCEPT ![w] = l]
  BY DEF Load, IInv, TypeOK
<1>2. conn.st # "none" => status[w] # "down"
  BY DEF IInv
<1>3. QED
  BY <1>1, <1>2, WorkloadFacts, WorkloadStep

LEMMA StartStep ==
  ASSUME IInv, NEW w \in Workloads,
         \/ StartFromAgent(w) \/ StartRotating(w)
         \/ ReadCert(w) \/ ReadKey(w) \/ ReadBundle(w)
  PROVE  IInv'
<1>1. /\ env[w] \in Sources /\ ticker[w] \in Tickers /\ files[w] \in PEMs /\ issuing[w] \in Runs
      /\ loading[w] \in Loads /\ FilesOK(files[w], issuing[w])
      /\ LoadingOK(env[w], loading[w], files[w], issuing[w])
  BY WorkloadFacts
<1>2. /\ ticker = [ticker EXCEPT ![w] = ticker[w]] /\ loading = [loading EXCEPT ![w] = loading[w]]
  BY DEF IInv, TypeOK
<1>3. status[w] = "down" => ~ticker[w].on /\ ~ticker[w].fired
  BY WorkloadFacts DEF ServedOK
<1>4. CASE StartFromAgent(w)
  <2>1. PICK s : s = Mint(FirstCA, w, 0, 0, "agent")
    OBVIOUS
  <2>2. s \in SVIDs /\ s.ca = FirstCA /\ s.ca # "" /\ s.gen = s.key /\ s.from = "agent"
    BY <2>1, AgentMint
  <2>3. env[w] = "agent" /\ Serve(w, s, FirstCA) /\ ticker' = ticker /\ loading' = loading
    BY <1>4, <2>1 DEF StartFromAgent
  <2>4. ServedOK(w, env[w], "up", s, FirstCA, ticker[w])
    BY <1>3, <2>2, <2>3 DEF ServedOK, Serve
  <2>5. PICK t, l : t = ticker[w] /\ l = loading[w]
    OBVIOUS
  <2>6. /\ t \in Tickers /\ l \in Loads /\ LoadingOK(env[w], l, files[w], issuing[w])
        /\ ticker' = [ticker EXCEPT ![w] = t] /\ loading' = [loading EXCEPT ![w] = l]
        /\ ServedOK(w, env[w], "up", s, FirstCA, t)
    BY <1>1, <1>2, <2>3, <2>4, <2>5
  <2>7. QED
    BY <2>2, <2>3, <2>6, Names, ServeStep
<1>5. CASE StartRotating(w)
  <2>1. PICK s : s = Mint(FirstCA, w, Offset[w], 0, "rotating")
    OBVIOUS
  <2>2. /\ s \in SVIDs /\ s.ca = FirstCA /\ s.ca # "" /\ s.gen = s.key
        /\ s.off = Offset[w] /\ s.age = 0
    BY <2>1, LoopMint
  <2>3. OnTime(s, Ticking)
    BY <2>2, TickerFacts, NewOnTime
  <2>4. /\ env[w] = "rotating" /\ Serve(w, s, FirstCA)
        /\ ticker' = [ticker EXCEPT ![w] = Ticking] /\ loading' = loading
    BY <1>5, <2>1 DEF StartRotating
  <2>5. ServedOK(w, env[w], "up", s, FirstCA, Ticking)
    BY <2>2, <2>3, <2>4, TickerFacts DEF ServedOK
  <2>6. QED
    BY <1>1, <1>2, <2>2, <2>4, <2>5, TickerFacts, Names, ServeStep
<1>6. CASE ReadCert(w)
  <2>1. PICK c : c = files[w].cert
    OBVIOUS
  <2>2. PICK run : run = WholeRun(issuing[w])
    OBVIOUS
  <2>3. PICK l : l = [file |-> "key", cert |-> c, run |-> run]
    OBVIOUS
  <2>4. Load(w, l) /\ env[w] = "files"
    BY <1>6, <2>1, <2>2, <2>3 DEF ReadCert
  <2>5. c \in SVIDs /\ CertOK(c)
    BY <1>1, <2>1 DEF FilesOK, PEMs
  <2>6. issuing[w].gen \in 1 .. MaxIssued
    BY <1>1 DEF Runs
  <2>7. run \in 0 .. MaxIssued /\ run <= issuing[w].gen
        /\ (run = issuing[w].gen => issuing[w].file = "none")
    <3>1. CASE issuing[w].file = "none"
      <4>1. run = issuing[w].gen
        BY <2>2, <3>1, Zenon DEF WholeRun
      <4>2. QED
        BY <2>6, <3>1, <4>1, Numbers
    <3>2. CASE issuing[w].file # "none"
      <4>1. run = 0
        BY <2>2, <3>2, Zenon DEF WholeRun
      <4>2. QED
        BY <2>6, <4>1, Numbers
    <3>3. QED
      BY <3>1, <3>2
  <2>8. l \in Loads /\ l.file = "key" /\ l.cert = c /\ l.run = run
    BY <2>3, <2>5, <2>7 DEF Loads
  <2>9. LoadingOK(env[w], l, files[w], issuing[w])
    BY <2>1, <2>4, <2>5, <2>7, <2>8 DEF LoadingOK
  <2>10. QED
    BY <2>4, <2>8, <2>9, LoadStep
<1>7. CASE ReadKey(w)
  <2>1. PICK l : l = loading[w]
    OBVIOUS
  <2>2. PICK c : c = [l.cert EXCEPT !.key = files[w].key]
    OBVIOUS
  <2>3. PICK m : m = [[l EXCEPT !.file = "bundle"] EXCEPT !.cert = c]
    OBVIOUS
  <2>4. l \in Loads /\ l.cert \in SVIDs /\ CertOK(l.cert) /\ files[w].key \in 0 .. MaxIssued
    BY <1>1, <2>1 DEF LoadingOK, Loads, PEMs
  <2>5. CASE l.cert # Truncated /\ l.cert.gen = files[w].key
    <3>1. Load(w, m)
      <4>1. m = [l EXCEPT !.file = "bundle", !.cert.key = files[w].key]
        BY <2>2, <2>3, <2>4 DEF Loads
      <4>2. QED
        BY <1>7, <2>1, <2>5, <4>1, Zenon DEF ReadKey
    <3>2. /\ c \in SVIDs /\ c.ca = l.cert.ca /\ c.from = l.cert.from /\ c.gen = files[w].key
          /\ c.key = files[w].key
      BY <2>2, <2>4, <2>5 DEF SVIDs
    <3>3. c.ca # "" /\ CertOK(c) /\ c # Truncated
      BY <2>4, <2>5, <3>2, NoSVIDFacts DEF CertOK
    <3>4. m \in Loads /\ m.file = "bundle" /\ m.cert = c /\ m.run = l.run
      BY <2>3, <2>4, <3>2 DEF Loads
    <3>5. LoadingOK(env[w], m, files[w], issuing[w])
      <4>1. loading[w].file = "key"
        BY <1>7 DEF ReadKey
      <4>2. QED
        BY <1>1, <2>1, <3>2, <3>3, <3>4, <4>1 DEF LoadingOK
    <3>6. QED
      BY <3>1, <3>4, <3>5, LoadStep
  <2>6. CASE ~(l.cert # Truncated /\ l.cert.gen = files[w].key)
    <3>1. Load(w, NotLoading)
      BY <1>7, <2>1, <2>6, Zenon DEF ReadKey
    <3>2. QED
      BY <1>1, <3>1, NotLoadingFacts, LoadStep
  <2>7. QED
    BY <2>5, <2>6
<1>8. CASE ReadBundle(w)
  <2>1. CASE Load(w, NotLoading)
    BY <1>1, <2>1, NotLoadingFacts, LoadStep
  <2>2. CASE ~Load(w, NotLoading)
    <3>1. PICK l : l = loading[w]
      OBVIOUS
    <3>2. PICK torn \in BOOLEAN : torn <=> l.run = 0 \/ l.run # WholeRun(issuing[w])
      OBVIOUS
    <3>3. PICK s : s = [l.cert EXCEPT !.torn = torn]
      OBVIOUS
    <3>4. PICK b : b = files[w].bundle
      OBVIOUS
    <3>5. /\ l.file = "bundle" /\ Serve(w, s, b) /\ ticker' = ticker
          /\ loading' = [loading EXCEPT ![w] = NotLoading]
      <4>1. (l.run = 0 \/ l.run # WholeRun(issuing[w])) = torn
        BY <3>2
      <4>2. QED
        BY <1>8, <2>2, <3>1, <3>3, <3>4, <4>1, Zenon DEF ReadBundle
    <3>6. /\ l \in Loads /\ l.cert \in SVIDs /\ CertOK(l.cert) /\ l.cert # Truncated
          /\ l.cert.gen = l.cert.key /\ env[w] = "files" /\ b \in CAs \cup {""}
      BY <1>1, <3>1, <3>4, <3>5 DEF LoadingOK, Loads, PEMs
    <3>7. /\ s \in SVIDs /\ s.ca = l.cert.ca /\ s.ca # "" /\ s.gen = s.key
          /\ s.from # "rotating" /\ s.torn = torn
      BY <3>3, <3>6, LoadedFacts
    <3>8. ~s.torn => b = s.ca
      BY <1>1, <3>1, <3>2, <3>4, <3>6, <3>7, WholeSet
    <3>9. ServedOK(w, env[w], "up", s, b, ticker[w])
      BY <1>3, <3>5, <3>6, <3>7, <3>8 DEF ServedOK, Serve
    <3>10. QED
      BY <1>1, <1>2, <3>5, <3>6, <3>7, <3>9, NotLoadingFacts, ServeStep
  <2>3. QED
    BY <2>1, <2>2
<1>9. QED
  BY <1>4, <1>5, <1>6, <1>7, <1>8

\* A process ends, or closes its source.
LEMMA StopStep ==
  ASSUME IInv, NEW w \in Workloads, Stop(w) \/ Close(w)
  PROVE  IInv'
<1>1. /\ files' = [files EXCEPT ![w] = files[w]] /\ issuing' = [issuing EXCEPT ![w] = issuing[w]]
      /\ loading' = [loading EXCEPT ![w] = loading[w]] /\ env' = env
  BY DEF Stop, Close, IInv, TypeOK
<1>2. CASE Stop(w)
  <2>1. ServedOK(w, env[w], "down", NoSVID, "", Stopped)
    BY NoSVIDFacts, TickerFacts DEF ServedOK
  <2>2. /\ status' = [status EXCEPT ![w] = "down"] /\ svid' = [svid EXCEPT ![w] = NoSVID]
        /\ bundle' = [bundle EXCEPT ![w] = ""] /\ ticker' = [ticker EXCEPT ![w] = Stopped]
        /\ conn' = NoConn
    BY <1>2 DEF Stop
  <2>3. QED
    BY <1>1, <2>1, <2>2, NoSVIDFacts, TickerFacts, WorkloadFacts, WorkloadStep
<1>3. CASE Close(w)
  <2>1. PICK s : s = [svid[w] EXCEPT !.kept = TRUE]
    OBVIOUS
  <2>2. /\ s \in SVIDs /\ s.kept = TRUE /\ s.ca = svid[w].ca /\ s.gen = svid[w].gen
        /\ s.key = svid[w].key /\ s.torn = svid[w].torn
    BY <2>1, KeptFacts, WorkloadFacts
  <2>3. /\ status[w] = "up" /\ status' = [status EXCEPT ![w] = "closed"]
        /\ svid' = [svid EXCEPT ![w] = s] /\ bundle' = [bundle EXCEPT ![w] = bundle[w]]
        /\ ticker' = [ticker EXCEPT ![w] = Stopped] /\ conn' = conn
    BY <1>3, <2>1 DEF Close, IInv, TypeOK
  <2>4. ServedOK(w, env[w], "closed", s, bundle[w], Stopped)
    BY <2>2, <2>3, TickerFacts, WorkloadFacts DEF ServedOK
  <2>5. QED
    BY <1>1, <2>2, <2>3, <2>4, TickerFacts, WorkloadFacts, WorkloadStep
<1>4. QED
  BY <1>2, <1>3

\* The loop, or the agent, replaces the SVID; or the loop keeps it.
LEMMA RotateStep ==
  ASSUME IInv, NEW w \in Workloads, Rotate(w) \/ RotateFails(w) \/ AgentRotates(w)
  PROVE  IInv'
<1>1. /\ env' = env /\ conn' = conn
      /\ status' = [status EXCEPT ![w] = status[w]] /\ bundle' = [bundle EXCEPT ![w] = bundle[w]]
      /\ files' = [files EXCEPT ![w] = files[w]] /\ issuing' = [issuing EXCEPT ![w] = issuing[w]]
      /\ loading' = [loading EXCEPT ![w] = loading[w]]
  <2>1. UNCHANGED <<env, status, bundle, files, issuing, loading, conn>>
    BY DEF Rotate, RotateFails, AgentRotates
  <2>2. QED
    BY <2>1 DEF IInv, TypeOK
<1>2. status[w] # "down" /\ status[w] \in {"down", "up", "closed"}
  <2>1. CASE Rotate(w) \/ RotateFails(w)
    BY <2>1, WorkloadFacts DEF Rotate, RotateFails, ServedOK
  <2>2. CASE AgentRotates(w)
    BY <2>2 DEF AgentRotates
  <2>3. QED
    BY <2>1, <2>2, WorkloadFacts
<1>3. PICK s \in SVIDs, t \in Tickers :
        /\ svid' = [svid EXCEPT ![w] = s] /\ ticker' = [ticker EXCEPT ![w] = t]
        /\ ServedOK(w, env[w], status[w], s, bundle[w], t)
  <2>1. PICK t : t = Handled(ticker[w])
    OBVIOUS
  <2>2. /\ t \in Tickers /\ t.on = ticker[w].on /\ t.fired = FALSE
    BY <2>1, TickerFacts, WorkloadFacts
  <2>3. CASE Rotate(w)
    <3>1. PICK s : s = Mint(FirstCA, w, Offset[w], 0, "rotating")
      OBVIOUS
    <3>2. /\ s \in SVIDs /\ s.ca = FirstCA /\ s.ca # "" /\ s.gen = s.key
          /\ s.off = Offset[w] /\ s.age = 0
      BY <3>1, LoopMint
    <3>3. OnTime(s, t)
      BY <2>2, <3>2, NewOnTime
    <3>4. ServedOK(w, env[w], status[w], s, bundle[w], t)
      <4>1. ticker[w].fired /\ ServedOK(w, env[w], status[w], svid[w], bundle[w], ticker[w])
        BY <2>3, WorkloadFacts DEF Rotate
      <4>2. QED
        BY <1>2, <2>2, <3>2, <3>3, <4>1 DEF ServedOK
    <3>5. svid' = [svid EXCEPT ![w] = s] /\ ticker' = [ticker EXCEPT ![w] = t]
      BY <2>1, <2>3, <3>1 DEF Rotate
    <3>6. QED
      BY <2>2, <3>2, <3>4, <3>5
  <2>4. CASE RotateFails(w)
    <3>1. PICK s : s = [svid[w] EXCEPT !.kept = TRUE]
      OBVIOUS
    <3>2. /\ s \in SVIDs /\ s.kept = TRUE /\ s.ca = svid[w].ca /\ s.gen = svid[w].gen
          /\ s.key = svid[w].key /\ s.torn = svid[w].torn
      BY <3>1, KeptFacts, WorkloadFacts
    <3>3. ServedOK(w, env[w], status[w], s, bundle[w], t)
      BY <2>2, <3>2, WorkloadFacts DEF ServedOK
    <3>4. svid' = [svid EXCEPT ![w] = s] /\ ticker' = [ticker EXCEPT ![w] = t]
      BY <2>1, <2>4, <3>1 DEF RotateFails
    <3>5. QED
      BY <2>2, <3>2, <3>3, <3>4
  <2>5. CASE AgentRotates(w)
    <3>1. PICK s : s = Mint(FirstCA, w, 0, 0, "agent")
      OBVIOUS
    <3>2. s \in SVIDs /\ s.ca = FirstCA /\ s.ca # "" /\ s.gen = s.key /\ s.from = "agent"
      BY <3>1, AgentMint
    <3>3. ServedOK(w, env[w], status[w], s, bundle[w], ticker[w])
      BY <1>2, <2>5, <3>2, WorkloadFacts DEF ServedOK, AgentRotates
    <3>4. svid' = [svid EXCEPT ![w] = s] /\ ticker' = [ticker EXCEPT ![w] = ticker[w]]
      BY <2>5, <3>1 DEF AgentRotates, IInv, TypeOK
    <3>5. QED
      BY <3>2, <3>3, <3>4, WorkloadFacts
  <2>6. QED
    BY <2>3, <2>4, <2>5
<1>4. PICK l : l = loading[w]
  OBVIOUS
<1>5. /\ bundle[w] \in CAs \cup {""} /\ files[w] \in PEMs /\ issuing[w] \in Runs /\ l \in Loads
      /\ FilesOK(files[w], issuing[w]) /\ LoadingOK(env[w], l, files[w], issuing[w])
  BY <1>4, WorkloadFacts
<1>6. QED
  BY <1>1, <1>2, <1>3, <1>4, <1>5, WorkloadStep

\* Files are emptied and written one after the other; who has begun to read knows
\* another run.
LEMMA IssueStep ==
  ASSUME IInv, NEW w \in Workloads, Issue(w) \/ EmptyFile(w) \/ WriteFile(w)
  PROVE  IInv'
<1>1. /\ env' = env /\ conn' = conn
      /\ status' = [status EXCEPT ![w] = status[w]] /\ bundle' = [bundle EXCEPT ![w] = bundle[w]]
      /\ svid' = [svid EXCEPT ![w] = svid[w]] /\ ticker' = [ticker EXCEPT ![w] = ticker[w]]
      /\ loading' = [loading EXCEPT ![w] = loading[w]]
  <2>1. UNCHANGED <<env, status, svid, bundle, ticker, loading, conn>>
    BY DEF Issue, EmptyFile, WriteFile
  <2>2. QED
    BY <2>1 DEF IInv, TypeOK
<1>2. PICK f0 : f0 = files[w]
  OBVIOUS
<1>3. PICK i0 : i0 = issuing[w]
  OBVIOUS
<1>4. PICK l : l = loading[w]
  OBVIOUS
<1>5. /\ f0 \in PEMs /\ FilesOK(f0, i0) /\ i0 \in Runs /\ l \in Loads /\ LoadingOK(env[w], l, f0, i0)
  BY <1>2, <1>3, <1>4, WorkloadFacts
<1>6. /\ f0.cert \in SVIDs /\ f0.key \in Gens /\ f0.bundle \in CAs \cup {""}
      /\ i0.ca \in CAs /\ i0.gen \in 1 .. MaxIssued /\ i0.gen \in Gens
      /\ i0.file \in {"none", "cert", "key", "bundle"} /\ l.run \in 0 .. MaxIssued
  <2>1. /\ f0.cert \in SVIDs /\ f0.key \in Gens /\ f0.bundle \in CAs \cup {""}
        /\ i0.ca \in CAs /\ i0.gen \in 1 .. MaxIssued
        /\ i0.file \in {"none", "cert", "key", "bundle"} /\ l.run \in 0 .. MaxIssued
    BY <1>5 DEF PEMs, Runs, Loads, Gens
  <2>2. i0.gen \in Gens
    <3>1. PICK g : g = i0.gen
      OBVIOUS
    <3>2. g \in 1 .. MaxIssued
      BY <2>1, <3>1
    <3>3. g \in Gens
      BY <3>2, Numbers DEF Gens
    <3>4. QED
      BY <3>1, <3>3
  <2>3. QED
    BY <2>1, <2>2
<1>7. files = [files EXCEPT ![w] = f0] /\ issuing = [issuing EXCEPT ![w] = i0]
  BY <1>2, <1>3 DEF IInv, TypeOK
<1>8. PICK f \in PEMs, i \in Runs :
        /\ files' = [files EXCEPT ![w] = f] /\ issuing' = [issuing EXCEPT ![w] = i]
        /\ FilesOK(f, i) /\ LoadingOK(env[w], l, f, i)
  <2>1. CASE Issue(w)
    <3>1. PICK gen : gen = i0.gen + 1
      OBVIOUS
    <3>2. gen \in 1 .. MaxIssued /\ l.run <= gen /\ l.run # gen
      <4>1. PICK g, run : g = i0.gen /\ run = l.run
        OBVIOUS
      <4>2. g < MaxIssued /\ run <= g
        BY <1>3, <1>5, <2>1, <4>1 DEF Issue, LoadingOK
      <4>3. gen = g + 1 /\ g \in 1 .. MaxIssued /\ run \in 0 .. MaxIssued
        BY <1>6, <3>1, <4>1
      <4>4. gen \in 1 .. MaxIssued /\ run <= gen /\ run # gen
        BY <4>2, <4>3, Numbers
      <4>5. QED
        BY <4>1, <4>4
    <3>3. PICK i \in Runs : /\ i.gen = gen /\ i.file = "cert"
                            /\ issuing' = [issuing EXCEPT ![w] = i]
      <4>1. PICK ca \in CAs :
              issuing' = [issuing EXCEPT ![w] = [ca |-> ca, gen |-> gen, file |-> "cert"]]
        BY <1>3, <2>1, <3>1 DEF Issue
      <4>2. [ca |-> ca, gen |-> gen, file |-> "cert"] \in Runs
        BY <3>2 DEF Runs
      <4>3. QED
        BY <4>1, <4>2
    <3>4. i \in Runs /\ i.gen = gen /\ i.file = "cert"
      BY <3>3
    <3>5. FilesOK(f0, i) /\ LoadingOK(env[w], l, f0, i)
      BY <1>5, <3>2, <3>4 DEF FilesOK, LoadingOK
    <3>6. files' = [files EXCEPT ![w] = f0]
      BY <1>7, <2>1 DEF Issue
    <3>7. QED
      BY <1>5, <3>3, <3>4, <3>5, <3>6
  <2>2. CASE EmptyFile(w)
    <3>1. PICK f : f = Emptied(f0, i0.file)
      OBVIOUS
    <3>2. PICK c, k, b : /\ f = [cert |-> c, key |-> k, bundle |-> b]
                         /\ c = IF i0.file = "cert" THEN Truncated ELSE f0.cert
                         /\ k = IF i0.file = "key" THEN 0 ELSE f0.key
                         /\ b = IF i0.file = "bundle" THEN "" ELSE f0.bundle
      BY <3>1, Zenon DEF Emptied
    <3>3. c \in SVIDs /\ k \in Gens /\ b \in CAs \cup {""}
      <4>1. 0 \in Gens
        BY Numbers DEF Gens
      <4>2. QED
        BY <1>6, <3>2, <4>1, NoSVIDFacts
    <3>4. f \in PEMs /\ f.cert = c /\ f.bundle = b
      BY <3>2, <3>3 DEF PEMs, Gens
    <3>5. CertOK(c)
      BY <1>5, <3>2, NoSVIDFacts DEF CertOK, FilesOK
    <3>6. files' = [files EXCEPT ![w] = f] /\ issuing' = issuing /\ i0.file # "none"
      BY <1>2, <1>3, <2>2, <3>1 DEF EmptyFile
    <3>7. FilesOK(f, i0)
      BY <1>5, <3>2, <3>4, <3>5, <3>6 DEF FilesOK
    <3>8. LoadingOK(env[w], l, f, i0)
      BY <1>5, <3>6 DEF LoadingOK
    <3>9. QED
      BY <1>5, <1>7, <3>4, <3>6, <3>7, <3>8
  <2>3. CASE WriteFile(w)
    <3>1. PICK s : s = Mint(i0.ca, w, 0, i0.gen, "files")
      OBVIOUS
    <3>2. s \in SVIDs /\ s.ca = i0.ca /\ s.ca # "" /\ s.gen = i0.gen /\ s.from = "files"
      <4>1. s \in SVIDs /\ i0.ca # ""
        BY <1>6, <3>1, ToolMint, Names
      <4>2. QED
        BY <3>1, <4>1 DEF Mint
    <3>3. PICK f : f = Filled(f0, i0.file, s)
      OBVIOUS
    <3>4. PICK c, k, b : /\ f = [cert |-> c, key |-> k, bundle |-> b]
                         /\ c = IF i0.file = "cert" THEN s ELSE f0.cert
                         /\ k = IF i0.file = "key" THEN s.gen ELSE f0.key
                         /\ b = IF i0.file = "bundle" THEN s.ca ELSE f0.bundle
      BY <3>3, Zenon DEF Filled
    <3>5. c \in SVIDs /\ k \in Gens /\ b \in CAs \cup {""}
      BY <1>6, <3>2, <3>4
    <3>6. f \in PEMs /\ f.cert = c /\ f.bundle = b
      BY <3>4, <3>5 DEF PEMs, Gens
    <3>7. PICK next : next = After(i0.file)
      OBVIOUS
    <3>8. PICK i : i = [i0 EXCEPT !.file = next]
      OBVIOUS
    <3>9. /\ files' = [files EXCEPT ![w] = f] /\ issuing' = [issuing EXCEPT ![w] = i]
          /\ i0.file # "none"
      BY <1>2, <1>3, <2>3, <3>1, <3>3, <3>7, <3>8 DEF WriteFile
    <3>10. /\ next \in {"key", "bundle", "none"}
           /\ next = "key" => i0.file = "cert"
           /\ next = "bundle" => i0.file = "key"
           /\ next = "none" => i0.file = "bundle"
      BY <1>6, <3>7, <3>9 DEF After
    <3>11. i \in Runs /\ i.ca = i0.ca /\ i.gen = i0.gen /\ i.file = next
      BY <1>5, <3>8, <3>10 DEF Runs
    <3>12. CertOK(c)
      BY <1>5, <3>2, <3>4 DEF CertOK, FilesOK
    <3>13. FilesOK(f, i)
      BY <1>5, <3>2, <3>4, <3>6, <3>10, <3>11, <3>12 DEF FilesOK
    <3>14. LoadingOK(env[w], l, f, i)
      BY <1>5, <3>9, <3>11 DEF LoadingOK
    <3>15. QED
      BY <3>6, <3>9, <3>11, <3>13, <3>14
  <2>4. QED
    BY <2>1, <2>2, <2>3
<1>9. conn.st # "none" => status[w] # "down"
  BY DEF IInv
<1>10. QED
  BY <1>1, <1>4, <1>5, <1>8, <1>9, WorkloadFacts, WorkloadStep

-----------------------------------------------------------------------------
(* The handshake.                                                          *)

\* The connection changes; a refusal has a reason.
LEMMA ConnStep ==
  ASSUME IInv, NEW c \in Conns, Handshake(c), ShownOK(c),
         c.st # "none" => \A w \in Workloads : status[w] # "down",
         c.st = "refused_by_client" => Reason(Client, c.shown),
         c.st = "refused_by_server" => Reason(Server, c.shown)
  PROVE  IInv'
<1>1. conn' = c /\ UNCHANGED <<env, status, svid, bundle, ticker, files, issuing, loading>>
  BY DEF Handshake
<1>2. TypeOK'
  BY <1>1 DEF IInv, TypeOK, Conns
<1>3. Refusals'
  BY <1>1 DEF Refusals, Reason
<1>4. QED
  BY <1>1, <1>2, <1>3 DEF IInv

\* Whoever refuses has a reason: the key is there, and the backdating and the room
\* that the interval leaves make up for clocks, delays and the handshake.
LEMMA Refusal ==
  ASSUME NEW v \in Workloads, NEW c \in Conns, ShownOK(c), ~Accepts(v, c.shown)
  PROVE  Reason(v, c.shown)
<1>1. PICK s : s = c.shown
  OBVIOUS
<1>2. /\ s \in SVIDs /\ s.age \in Nat /\ c.took \in Nat /\ c.took <= Duration
      /\ s.off = 0 \/ \E w \in Workloads : s.off = Offset[w]
  BY <1>1, SVIDNumbers, ConnNumbers
<1>3. s.off \in Int /\ Offset[v] \in Int
  BY <1>2, Clocks
<1>4. - Backdate <= Age(v, s)
  <2>1. Offset[v] - s.off >= - Backdate
    <3>1. CASE s.off = 0
      <4>1. - Offset[v] <= Backdate
        BY Clocks
      <4>2. QED
        BY <1>3, <3>1, <4>1, Numbers
    <3>2. CASE s.off # 0
      <4>1. PICK w \in Workloads : s.off = Offset[w]
        BY <1>2, <3>2
      <4>2. Offset[w] - Offset[v] <= Backdate
        BY Clocks
      <4>3. QED
        BY <1>3, <4>1, <4>2, Numbers
    <3>3. QED
      BY <3>1, <3>2
  <2>2. QED
    BY <1>2, <1>3, <2>1, Numbers DEF Age
<1>5. s.from = "rotating" /\ ~s.kept => Age(v, s) <= Life
  <2> SUFFICES ASSUME s.from = "rotating", ~s.kept PROVE Age(v, s) <= Life
    OBVIOUS
  <2>1. PICK w \in Workloads : s.off = Offset[w]
    BY <1>1 DEF ShownOK
  <2>2. s.age <= Every + Lag + c.took
    BY <1>1 DEF ShownOK
  <2>3. Every + Lag + Duration + Offset[v] - Offset[w] <= Life
    BY Clocks
  <2>4. QED
    BY <1>2, <1>3, <2>1, <2>2, <2>3, Numbers DEF Age
<1>6. s.gen = s.key
  BY <1>1 DEF ShownOK
<1>7. Age(v, s) \in Int
  BY <1>2, <1>3 DEF Age
<1>8. s.ca # bundle[v] \/ Age(v, s) > Life
  BY <1>1, <1>4, <1>6, <1>7, Numbers DEF Accepts, InTime
<1>9. QED
  BY <1>1, <1>5, <1>7, <1>8, Numbers DEF Reason

\* What a workload serves may be shown to a peer.
LEMMA Presented ==
  ASSUME IInv, NEW w \in Workloads, NEW st \in {"presented", "answered"}
  PROVE  LET c == [conn EXCEPT !.st = st, !.shown = svid[w]]
         IN  c \in Conns /\ c.st = st /\ ShownOK(c)
<1>1. PICK s : s = svid[w]
  OBVIOUS
<1>2. PICK t : t = ticker[w]
  OBVIOUS
<1>3. /\ s \in SVIDs /\ t \in Tickers /\ ServedOK(w, env[w], status[w], s, bundle[w], t) /\ conn \in Conns
  BY <1>1, <1>2, WorkloadFacts
<1>4. PICK c : c = [conn EXCEPT !.st = st, !.shown = s]
  OBVIOUS
<1>5. c \in Conns /\ c.st = st /\ c.shown = s /\ c.took \in Nat
  <2>1. c \in Conns /\ c.st = st /\ c.shown = s
    BY <1>3, <1>4 DEF Conns
  <2>2. QED
    BY <2>1, ConnNumbers
<1>6. ASSUME s.from = "rotating", ~s.kept
      PROVE  s.age <= Every + Lag + c.took /\ s.off = Offset[w]
  <2>1. s.off = Offset[w] /\ OnTime(s, t)
    BY <1>3, <1>6 DEF ServedOK
  <2>2. t.since \in Nat /\ t.since <= Lag /\ t.due \in Nat /\ s.age \in Nat
    BY <1>3, TickerNumbers, SVIDNumbers
  <2>3. s.age <= Every + Lag
    BY <2>1, <2>2, Numbers DEF OnTime
  <2>4. QED
    BY <1>5, <2>1, <2>2, <2>3, Numbers
<1>7. ShownOK(c)
  BY <1>3, <1>5, <1>6 DEF ShownOK, ServedOK
<1>8. QED
  BY <1>1, <1>4, <1>5, <1>7

\* The steps of a handshake.
LEMMA HandshakeStep ==
  ASSUME IInv, Dial \/ ServerPresents \/ ClientAnswers \/ ServerVerifies \/ HangUp
  PROVE  IInv'
<1>1. conn \in Conns /\ ShownOK(conn) /\ Server \in Workloads /\ Client \in Workloads
  BY Names, WorkloadFacts DEF IInv
<1>2. /\ NoConn \in Conns /\ NoConn.st = "none" /\ NoConn.shown = NoSVID
  BY NoConnFacts
<1>3. ASSUME NEW st \in {"hello", "open"}
      PROVE  LET c == [NoConn EXCEPT !.st = st]
             IN  c \in Conns /\ c.st = st /\ ShownOK(c)
  <2>1. PICK c : c = [NoConn EXCEPT !.st = st]
    OBVIOUS
  <2>2. c \in Conns /\ c.st = st /\ c.shown = NoSVID
    BY <1>2, <2>1 DEF Conns
  <2>3. ShownOK(c)
    BY <2>2, NoSVIDFacts DEF ShownOK
  <2>4. QED
    BY <2>1, <2>2, <2>3
<1>4. ASSUME NEW v \in Workloads, NEW st \in {"refused_by_client", "refused_by_server"},
             ~Accepts(v, conn.shown)
      PROVE  LET c == [conn EXCEPT !.st = st]
             IN  c \in Conns /\ c.st = st /\ ShownOK(c) /\ Reason(v, c.shown)
  <2>1. PICK c : c = [conn EXCEPT !.st = st]
    OBVIOUS
  <2>2. c \in Conns /\ c.st = st /\ c.shown = conn.shown /\ c.took = conn.took
    BY <1>1, <2>1 DEF Conns
  <2>3. ShownOK(c)
    BY <1>1, <2>2 DEF ShownOK
  <2>4. Reason(v, c.shown)
    BY <1>1, <1>4, <2>2, Refusal
  <2>5. QED
    BY <2>1, <2>2, <2>3, <2>4
<1>5. conn.st # "none" => \A w \in Workloads : status[w] # "down"
  BY DEF IInv
<1>6. CASE Dial
  <2>1. PICK c : c = [NoConn EXCEPT !.st = "hello"]
    OBVIOUS
  <2>2. Handshake(c) /\ \A w \in Workloads : status[w] # "down"
    BY <1>6, <2>1 DEF Dial
  <2>3. QED
    BY <1>3, <2>1, <2>2, ConnStep
<1>7. CASE ServerPresents
  <2>1. PICK c : c = [conn EXCEPT !.st = "presented", !.shown = svid[Server]]
    OBVIOUS
  <2>2. Handshake(c) /\ conn.st = "hello"
    BY <1>7, <2>1 DEF ServerPresents
  <2>3. c \in Conns /\ c.st = "presented" /\ ShownOK(c)
    BY <1>1, <2>1, Presented
  <2>4. QED
    BY <1>5, <2>2, <2>3, ConnStep
<1>8. CASE ClientAnswers
  <2>1. CASE Accepts(Client, conn.shown)
    <3>1. PICK c : c = [conn EXCEPT !.st = "answered", !.shown = svid[Client]]
      OBVIOUS
    <3>2. Handshake(c) /\ conn.st = "presented"
      BY <1>8, <2>1, <3>1 DEF ClientAnswers
    <3>3. c \in Conns /\ c.st = "answered" /\ ShownOK(c)
      BY <1>1, <3>1, Presented
    <3>4. QED
      BY <1>5, <3>2, <3>3, ConnStep
  <2>2. CASE ~Accepts(Client, conn.shown)
    <3>1. PICK c : c = [conn EXCEPT !.st = "refused_by_client"]
      OBVIOUS
    <3>2. Handshake(c) /\ conn.st = "presented"
      BY <1>8, <2>2, <3>1 DEF ClientAnswers
    <3>3. /\ c \in Conns /\ c.st = "refused_by_client" /\ ShownOK(c)
          /\ Reason(Client, c.shown)
      BY <1>1, <1>4, <2>2, <3>1
    <3>4. QED
      BY <1>5, <3>2, <3>3, ConnStep
  <2>3. QED
    BY <2>1, <2>2
<1>9. CASE ServerVerifies
  <2>1. CASE Accepts(Server, conn.shown)
    <3>1. PICK c : c = [NoConn EXCEPT !.st = "open"]
      OBVIOUS
    <3>2. Handshake(c) /\ conn.st = "answered"
      BY <1>9, <2>1, <3>1 DEF ServerVerifies
    <3>3. QED
      BY <1>3, <1>5, <3>1, <3>2, ConnStep
  <2>2. CASE ~Accepts(Server, conn.shown)
    <3>1. PICK c : c = [conn EXCEPT !.st = "refused_by_server"]
      OBVIOUS
    <3>2. Handshake(c) /\ conn.st = "answered"
      BY <1>9, <2>2, <3>1 DEF ServerVerifies
    <3>3. /\ c \in Conns /\ c.st = "refused_by_server" /\ ShownOK(c)
          /\ Reason(Server, c.shown)
      BY <1>1, <1>4, <2>2, <3>1
    <3>4. QED
      BY <1>5, <3>2, <3>3, ConnStep
  <2>3. QED
    BY <2>1, <2>2
<1>10. CASE HangUp
  <2>1. Handshake(NoConn)
    BY <1>10 DEF HangUp
  <2>2. ShownOK(NoConn)
    BY <1>2, NoSVIDFacts DEF ShownOK
  <2>3. QED
    BY <1>2, <2>1, <2>2, ConnStep
<1>11. QED
  BY <1>6, <1>7, <1>8, <1>9, <1>10

-----------------------------------------------------------------------------
(* Time.                                                                   *)

\* The invariant is kept by the clock: each tick of the rotation loop comes in time.
LEMMA TickStep ==
  ASSUME IInv, Tick
  PROVE  IInv'
<1>1. UNCHANGED <<env, status, bundle, issuing>>
  BY DEF Tick
<1>2. ASSUME NEW w \in Workloads
      PROVE  /\ svid'[w] \in SVIDs /\ ticker'[w] \in Tickers
             /\ ServedOK(w, env'[w], status'[w], svid'[w], bundle'[w], ticker'[w])
  <2>1. PICK s : s = svid[w]
    OBVIOUS
  <2>2. PICK t : t = ticker[w]
    OBVIOUS
  <2>3. /\ s \in SVIDs /\ t \in Tickers /\ ServedOK(w, env[w], status[w], s, bundle[w], t)
        /\ t.fired => t.since < Lag
        /\ svid'[w] = Older(s) /\ ticker'[w] = Ticked(t)
    BY <2>1, <2>2, WorkloadFacts DEF Tick
  <2>4. /\ Older(s) \in SVIDs /\ Older(s).ca = s.ca /\ Older(s).off = s.off
        /\ Older(s).from = s.from /\ Older(s).gen = s.gen /\ Older(s).key = s.key
        /\ Older(s).kept = s.kept /\ Older(s).torn = s.torn
    BY <2>3, OlderFacts
  <2>5. /\ Ticked(t) \in Tickers /\ Ticked(t).on = t.on
        /\ Ticked(t).fired => Ticked(t).on
        /\ t.on /\ OnTime(s, t) => OnTime(Older(s), Ticked(t))
    BY <2>3, TickedFacts DEF ServedOK
  <2>6. ServedOK(w, env[w], status[w], Older(s), bundle[w], Ticked(t))
    BY <2>3, <2>4, <2>5 DEF ServedOK
  <2>7. QED
    BY <1>1, <2>3, <2>4, <2>5, <2>6
<1>3. ASSUME NEW w \in Workloads
      PROVE  /\ files'[w] \in PEMs /\ loading'[w] \in Loads
             /\ FilesOK(files'[w], issuing'[w])
             /\ LoadingOK(env'[w], loading'[w], files'[w], issuing'[w])
  <2>1. PICK f : f = files[w]
    OBVIOUS
  <2>2. PICK l : l = loading[w]
    OBVIOUS
  <2>3. /\ f \in PEMs /\ l \in Loads /\ FilesOK(f, issuing[w]) /\ LoadingOK(env[w], l, f, issuing[w])
        /\ files'[w] = [f EXCEPT !.cert = Older(f.cert)]
        /\ loading'[w] = [l EXCEPT !.cert = Older(l.cert)]
    BY <2>1, <2>2, WorkloadFacts DEF Tick
  <2>4. f.cert \in SVIDs /\ l.cert \in SVIDs
    BY <2>3 DEF PEMs, Loads
  <2>5. PICK c : c = Older(f.cert)
    OBVIOUS
  <2>6. PICK d : d = Older(l.cert)
    OBVIOUS
  <2>7. /\ c \in SVIDs /\ c.from = f.cert.from /\ c.ca = f.cert.ca
        /\ f.cert = Truncated => c = Truncated
    BY <2>4, <2>5, OlderFacts
  <2>8. /\ d \in SVIDs /\ d.from = l.cert.from /\ d.ca = l.cert.ca /\ d.gen = l.cert.gen
        /\ d.key = l.cert.key
        /\ l.cert = Truncated => d = Truncated
    BY <2>4, <2>6, OlderFacts
  <2>9. files'[w] \in PEMs /\ files'[w].cert = c /\ files'[w].bundle = f.bundle
    BY <2>3, <2>5, <2>7 DEF PEMs
  <2>10. /\ loading'[w] \in Loads /\ loading'[w].cert = d /\ loading'[w].file = l.file
         /\ loading'[w].run = l.run
    BY <2>3, <2>6, <2>8 DEF Loads
  <2>11. FilesOK(files'[w], issuing'[w])
    BY <1>1, <2>3, <2>7, <2>9 DEF FilesOK, CertOK
  <2>12. l.file = "bundle" => d # Truncated
    BY <2>3, <2>8, NoSVIDFacts DEF LoadingOK, CertOK
  <2>13. LoadingOK(env'[w], loading'[w], files'[w], issuing'[w])
    BY <1>1, <2>3, <2>7, <2>8, <2>9, <2>10, <2>12 DEF LoadingOK, CertOK
  <2>14. QED
    BY <2>9, <2>10, <2>11, <2>13
<1>4. PICK c : c = conn'
  OBVIOUS
<1>5. conn \in Conns /\ ShownOK(conn) /\ conn.took \in 0 .. Duration /\ conn.shown \in SVIDs
  BY WorkloadFacts, ConnNumbers, Names DEF IInv
<1>6. CASE ~Shaking
  <2>1. conn' = conn
    <3>1. conn' = [conn EXCEPT !.took = conn.took, !.shown = conn.shown]
      BY <1>6 DEF Tick
    <3>2. QED
      BY <1>5, <3>1 DEF Conns
  <2>2. Refusals'
    BY <1>1, <2>1 DEF IInv, Refusals, Reason
  <2>3. conn'.st # "none" => \A w \in Workloads : status'[w] # "down"
    BY <1>1, <2>1 DEF IInv
  <2>4. conn' \in Conns /\ ShownOK(conn')
    BY <1>5, <2>1
  <2>5. TypeOK'
    <3>1. /\ svid' = [w \in Workloads |-> svid'[w]] /\ ticker' = [w \in Workloads |-> ticker'[w]]
          /\ files' = [w \in Workloads |-> files'[w]]
          /\ loading' = [w \in Workloads |-> loading'[w]]
      BY DEF Tick
    <3>2. /\ svid' \in [Workloads -> SVIDs] /\ ticker' \in [Workloads -> Tickers]
          /\ files' \in [Workloads -> PEMs] /\ loading' \in [Workloads -> Loads]
      BY <1>2, <1>3, <3>1
    <3>3. \A w \in Workloads : /\ svid'[w].ca = "" <=> status'[w] = "down"
                               /\ ticker'[w].on <=> env'[w] = "rotating" /\ status'[w] = "up"
      BY <1>2 DEF ServedOK
    <3>4. QED
      BY <1>1, <2>4, <3>2, <3>3 DEF IInv, TypeOK, PEMs, Loads, Conns
  <2>6. QED
    BY <1>2, <1>3, <2>2, <2>3, <2>4, <2>5 DEF IInv
<1>7. CASE Shaking
  <2>1. PICK s : s = Older(conn.shown)
    OBVIOUS
  <2>2. PICK k : k = conn.took + 1
    OBVIOUS
  <2>3. conn' = [conn EXCEPT !.took = k, !.shown = s] /\ conn.took < Duration
    BY <1>7, <2>1, <2>2 DEF Tick
  <2>4. k \in 0 .. Duration /\ conn.took \in Nat
    BY <1>5, <2>2, <2>3, Numbers
  <2>5. /\ s \in SVIDs /\ s.age <= conn.shown.age + 1 /\ s.age \in Nat
        /\ conn.shown.age \in Nat /\ s.off = conn.shown.off /\ s.from = conn.shown.from
        /\ s.gen = conn.shown.gen /\ s.key = conn.shown.key /\ s.kept = conn.shown.kept
    BY <1>5, <2>1, OlderFacts, Numbers
  <2>6. conn' \in Conns /\ conn'.st = conn.st /\ conn'.shown = s /\ conn'.took = k
    BY <1>5, <2>3, <2>4, <2>5 DEF Conns
  <2>7. ShownOK(conn')
    <3>1. conn'.shown.gen = conn'.shown.key
      BY <1>5, <2>5, <2>6 DEF ShownOK
    <3>2. ASSUME s.from = "rotating", ~s.kept
          PROVE  s.age <= Every + Lag + k /\ \E w \in Workloads : s.off = Offset[w]
      <4>1. /\ conn.shown.age <= Every + Lag + conn.took
            /\ \E w \in Workloads : conn.shown.off = Offset[w]
        BY <1>5, <2>5, <3>2 DEF ShownOK
      <4>2. s.age <= Every + Lag + k
        BY <2>2, <2>4, <2>5, <4>1, Numbers
      <4>3. QED
        BY <2>5, <4>1, <4>2
    <3>3. QED
      BY <2>6, <3>1, <3>2 DEF ShownOK
  <2>8. Refusals'
    BY <1>7, <2>6 DEF Refusals, Shaking
  <2>9. conn'.st # "none" => \A w \in Workloads : status'[w] # "down"
    BY <1>1, <2>6 DEF IInv
  <2>10. TypeOK'
    <3>1. /\ svid' = [w \in Workloads |-> svid'[w]] /\ ticker' = [w \in Workloads |-> ticker'[w]]
          /\ files' = [w \in Workloads |-> files'[w]]
          /\ loading' = [w \in Workloads |-> loading'[w]]
      BY DEF Tick
    <3>2. /\ svid' \in [Workloads -> SVIDs] /\ ticker' \in [Workloads -> Tickers]
          /\ files' \in [Workloads -> PEMs] /\ loading' \in [Workloads -> Loads]
      BY <1>2, <1>3, <3>1
    <3>3. \A w \in Workloads : /\ svid'[w].ca = "" <=> status'[w] = "down"
                               /\ ticker'[w].on <=> env'[w] = "rotating" /\ status'[w] = "up"
      BY <1>2 DEF ServedOK
    <3>4. QED
      BY <1>1, <2>6, <3>2, <3>3 DEF IInv, TypeOK, PEMs, Loads, Conns
  <2>11. QED
    BY <1>2, <1>3, <2>7, <2>8, <2>9, <2>10 DEF IInv
<1>8. QED
  BY <1>6, <1>7

-----------------------------------------------------------------------------
(* The invariant and the properties.                                       *)

LEMMA InitIInv == Init => IInv
<1> SUFFICES ASSUME Init PROVE IInv
  OBVIOUS
<1>1. env \in [Workloads -> Sources]
  BY IdentityAssumption DEF Init
<1>2. \A w \in Workloads : /\ status[w] = "down" /\ svid[w] = NoSVID /\ bundle[w] = ""
                           /\ ticker[w] = Stopped /\ issuing[w] = NotIssuing
                           /\ loading[w] = NotLoading
  BY DEF Init
<1>3. /\ NoConn \in Conns /\ NoConn.st = "none" /\ NoConn.shown = NoSVID /\ NotIssuing \in Runs
      /\ NotIssuing.file = "none"
  <2>1. 1 \in 1 .. MaxIssued
    BY Numbers
  <2>2. NotIssuing \in Runs
    BY <2>1, Names DEF NotIssuing, Runs
  <2>3. QED
    BY <2>2, NoConnFacts DEF NotIssuing
<1>4. ASSUME NEW w \in Workloads PROVE files[w] \in PEMs /\ FilesOK(files[w], issuing[w])
  <2>1. CASE env[w] = "files"
    <3>1. PICK s : s = Mint(FirstCA, w, 0, 1, "files")
      OBVIOUS
    <3>2. 1 \in 0 .. MaxIssued
      BY Numbers
    <3>3. PICK ca \in CAs, gen \in Gens : ca = FirstCA /\ gen = 1
      BY <3>2, Names DEF Gens
    <3>4. /\ s \in SVIDs /\ s.ca = ca /\ s.ca # "" /\ s.gen = gen /\ s.from = "files"
      <4>1. s = Mint(ca, w, 0, gen, "files") /\ ca # ""
        BY <3>1, <3>3, Names, Zenon
      <4>2. s \in SVIDs
        BY <3>3, <4>1, ToolMint
      <4>3. QED
        BY <4>1, <4>2 DEF Mint
    <3>5. PICK f : f = [cert |-> s, key |-> gen, bundle |-> ca]
      OBVIOUS
    <3>6. f \in PEMs /\ f.cert = s /\ f.bundle = s.ca
      <4>1. s \in SVIDs /\ ca \in CAs /\ gen \in Gens
        BY <3>3, <3>4
      <4>2. QED
        BY <3>4, <3>5, <4>1 DEF PEMs, Gens
    <3>7. files[w] = f
      BY <2>1, <3>1, <3>4, <3>5 DEF Init, Written
    <3>8. QED
      BY <1>2, <1>3, <3>4, <3>6, <3>7 DEF FilesOK, CertOK
  <2>2. CASE env[w] # "files"
    <3>1. files[w] = [cert |-> Truncated, key |-> 0, bundle |-> ""]
      BY <2>2 DEF Init, NoFiles
    <3>2. PICK key \in Gens : key = 0
      BY Numbers DEF Gens
    <3>3. Truncated \in SVIDs /\ Truncated.from = "" /\ Truncated.ca = ""
      BY NoSVIDFacts
    <3>4. PICK f : f = [cert |-> Truncated, key |-> key, bundle |-> ""]
      OBVIOUS
    <3>5. f \in PEMs /\ f.cert = Truncated /\ f.bundle = ""
      BY <3>2, <3>3, <3>4 DEF PEMs, Gens
    <3>6. files[w] = f
      BY <3>1, <3>2, <3>4
    <3>7. QED
      BY <1>2, <1>3, <3>3, <3>5, <3>6 DEF FilesOK, CertOK
  <2>3. QED
    BY <2>1, <2>2
<1>5. \A w \in Workloads : ServedOK(w, env[w], status[w], svid[w], bundle[w], ticker[w])
  BY <1>2, NoSVIDFacts, TickerFacts DEF ServedOK
<1>6. TypeOK
  <2>1. /\ status \in [Workloads -> {"down", "up", "closed"}] /\ svid \in [Workloads -> SVIDs]
        /\ bundle \in [Workloads -> CAs \cup {""}] /\ ticker \in [Workloads -> Tickers]
        /\ issuing \in [Workloads -> Runs] /\ loading \in [Workloads -> Loads]
    BY <1>3, NoSVIDFacts, NotLoadingFacts, TickerFacts DEF Init
  <2>2. files \in [Workloads -> PEMs]
    <3>1. files = [w \in Workloads |-> files[w]]
      BY DEF Init
    <3>2. QED
      BY <1>4, <3>1
  <2>3. conn \in Conns
    BY <1>3 DEF Init
  <2>4. \A w \in Workloads : /\ svid[w].ca = "" <=> status[w] = "down"
                             /\ ticker[w].on <=> env[w] = "rotating" /\ status[w] = "up"
    BY <1>5 DEF ServedOK
  <2>5. QED
    BY <1>1, <2>1, <2>2, <2>3, <2>4 DEF TypeOK, PEMs, Runs, Loads, Conns
<1>7. conn = NoConn
  BY DEF Init
<1>8. ShownOK(conn)
  BY <1>3, <1>7, NoSVIDFacts DEF ShownOK
<1>9. Refusals
  BY <1>3, <1>7 DEF Refusals
<1>10. \A w \in Workloads : LoadingOK(env[w], loading[w], files[w], issuing[w])
  BY <1>2, <1>3, NotLoadingFacts
<1>11. QED
  BY <1>3, <1>4, <1>5, <1>6, <1>7, <1>8, <1>9, <1>10 DEF IInv

LEMMA NextIInv == IInv /\ [Next]_vars => IInv'
<1> SUFFICES ASSUME IInv, [Next]_vars PROVE IInv'
  OBVIOUS
<1>1. CASE UNCHANGED vars
  BY <1>1 DEF vars, IInv, TypeOK, Refusals, Reason
<1>2. ASSUME NEW w \in Workloads,
             \/ StartFromAgent(w) \/ StartRotating(w)
             \/ ReadCert(w) \/ ReadKey(w) \/ ReadBundle(w)
      PROVE  IInv'
  BY <1>2, StartStep
<1>3. ASSUME NEW w \in Workloads, Stop(w) \/ Close(w) PROVE IInv'
  BY <1>3, StopStep
<1>4. ASSUME NEW w \in Workloads, Rotate(w) \/ RotateFails(w) \/ AgentRotates(w) PROVE IInv'
  BY <1>4, RotateStep
<1>5. ASSUME NEW w \in Workloads, Issue(w) \/ EmptyFile(w) \/ WriteFile(w) PROVE IInv'
  BY <1>5, IssueStep
<1>6. CASE Dial \/ ServerPresents \/ ClientAnswers \/ ServerVerifies \/ HangUp
  BY <1>6, HandshakeStep
<1>7. CASE Tick
  BY <1>7, TickStep
<1>8. QED
  BY <1>1, <1>2, <1>3, <1>4, <1>5, <1>6, <1>7 DEF Next

\* Every workload serves a certificate with its key, and the loop (rotating.loop)
\* replaces what it mints before the interval and its delay are over.
THEOREM IdentityInvariant == Spec => []IInv
<1>1. Init => IInv
  BY InitIInv
<1>2. IInv /\ [Next]_vars => IInv'
  BY NextIInv
<1>3. QED
  BY <1>1, <1>2, PTL DEF Spec

\* Type correctness of the workloads, their files and the connection; a loop runs
\* exactly beside a rotating source that is in use and not closed.
THEOREM TypeCorrect == Spec => []TypeOK
<1>1. IInv => TypeOK
  BY DEF IInv
<1>2. QED
  BY <1>1, IdentityInvariant, PTL

\* Every workload serves a certificate with its key (x509svid.Load), and trusts the CA
\* that issued it unless a run of the tool overlapped its start or had been broken off
\* (WriteSVID, WriteBundle and loadStaticSVID go file by file).
THEOREM SetAlwaysConsistent == Spec => []SetConsistent
<1>1. IInv => SetConsistent
  BY DEF IInv, ServedOK, SetConsistent
<1>2. QED
  BY <1>1, IdentityInvariant, PTL

\* A handshake fails only between certificates of different CAs, at a workload that
\* came up on a torn set, or over an SVID that has expired and is not rotated or was
\* kept by a rotation that failed.
THEOREM RotationAlwaysTransparent == Spec => []RotationTransparent
<1>1. IInv => RotationTransparent
  <2> SUFFICES ASSUME IInv PROVE RotationTransparent
    OBVIOUS
  <2>1. ASSUME NEW v \in Workloads, conn.st # "none", Reason(v, conn.shown)
        PROVE  Refusable(v, conn.shown)
    <3>1. ~svid[v].torn => bundle[v] = svid[v].ca
      BY <2>1 DEF IInv, ServedOK
    <3>2. QED
      BY <2>1, <3>1 DEF Reason, Refusable
  <2>2. QED
    BY <2>1, Names DEF IInv, Refusals, RotationTransparent
<1>2. QED
  BY <1>1, IdentityInvariant, PTL
=============================================================================
