------------------------------ MODULE Identity ------------------------------
(***************************************************************************)
(* Workload identity (identity/spiffe, services/mtls.go): two processes    *)
(* take their X509-SVID and trust bundle from a source and shake hands     *)
(* over mTLS.  The source is the in-process CA's rotation loop, PEM files  *)
(* read at start-up, or a SPIRE agent.  The tool that issues the files     *)
(* writes them beside processes that start; rotation runs beside the       *)
(* handshakes: each side reads its current SVID when its turn comes, and   *)
(* each side verifies the other's a moment later, by its own clock.        *)
(*                                                                         *)
(* Time is kept as the age of every SVID, capped where it no longer makes  *)
(* a difference, so that a behaviour may go on for ever.                   *)
(***************************************************************************)
EXTENDS Integers

CONSTANTS
  Server, Client,  \* the two workloads
  Envs,            \* the sources that the workloads' environments may select
  CAs,             \* certificate authorities of the trust domain; it has one
  FirstCA,         \* at a time, which may be replaced
  Life,            \* svidTTL
  Backdate,        \* by how much NotBefore precedes the time of issue
  Every,           \* the rotation interval
  Lag,             \* bound on the delay of the rotation loop
  Duration,        \* bound on the duration of a handshake
  Offset,          \* per workload: its clock, relative to the true time
  MaxIssued        \* bound on the sets of files issued per workload

Workloads == {Server, Client}
Sources   == {"agent", "files", "rotating"}

\* What an operator must see to: the rotation interval leaves room for the loop's
\* delay, a handshake and the difference of the clocks; the clocks differ, from each
\* other and from the issuers', by no more than the backdating.
ASSUME IdentityAssumption ==
  /\ Server # Client
  /\ FirstCA \in CAs /\ "" \notin CAs
  /\ Envs \subseteq [Workloads -> Sources]
  /\ \A n \in {Life, Backdate, Every, Lag, Duration, MaxIssued} : n \in Nat
  /\ Every > 0 /\ MaxIssued > 0
  /\ Offset \in [Workloads -> Int]
  /\ \A v \in Workloads : - Offset[v] <= Backdate
  /\ \A v, w \in Workloads : /\ Offset[v] - Offset[w] <= Backdate
                             /\ Every + Lag + Duration + Offset[v] - Offset[w] <= Life

VARIABLES
  env,      \* per workload: the source its environment selects
  status,   \* per workload: "down", "up", or "closed" (up, Close was called)
  svid,     \* per workload: the SVID its source serves
  bundle,   \* per workload: the CA it trusts
  ticker,   \* per workload: the rotation loop's ticker
  files,    \* per workload: its PEM files
  issuing,  \* per workload: the last run of the issuing tool
  loading,  \* per workload: what it has read of its files
  conn      \* the connection from Client to Server

vars == <<env, status, svid, bundle, ticker, files, issuing, loading, conn>>

-----------------------------------------------------------------------------
\* Beyond this age an SVID has expired by everybody's clock.
AgeCap == Life + Backdate + 1

Older(s) == [s EXCEPT !.age = IF @ < AgeCap THEN @ + 1 ELSE @]

\* gen and key tell whether certificate and private key belong together.  Two
\* fields are histories: kept, of a rotation that should have replaced the SVID and
\* did not; torn, of files loaded that need not be of one complete run of the tool.
NoSVID == [ca |-> "", id |-> "", age |-> AgeCap, off |-> 0, gen |-> 0, key |-> 0,
           from |-> "", kept |-> FALSE, torn |-> FALSE]

\* Issued by ca, stamped with the issuer's clock.
Mint(ca, w, off, gen, from) ==
  [ca |-> ca, id |-> w, age |-> 0, off |-> off, gen |-> gen, key |-> gen,
   from |-> from, kept |-> FALSE, torn |-> FALSE]

Age(v, s) == s.age + Offset[v] - s.off

\* Defect: NotBefore is the time of issue.
InTimeExact(v, s) == 0 <= Age(v, s) /\ Age(v, s) <= Life

InTime(v, s) == - Backdate <= Age(v, s) /\ Age(v, s) <= Life

\* Peer verification: the certificate chains to the verifier's bundle and is in
\* time, and the peer holds its key.
Accepts(v, s) == s.ca = bundle[v] /\ s.gen = s.key /\ InTime(v, s)

-----------------------------------------------------------------------------
(* Files.                                                                  *)

Truncated == NoSVID
NoFiles == [cert |-> Truncated, key |-> 0, bundle |-> ""]

Written(s) == [cert |-> s, key |-> s.gen, bundle |-> s.ca]

\* What os.WriteFile leaves of a file before it has written it.
Emptied(f, file) ==
  [cert   |-> IF file = "cert" THEN Truncated ELSE f.cert,
   key    |-> IF file = "key" THEN 0 ELSE f.key,
   bundle |-> IF file = "bundle" THEN "" ELSE f.bundle]

\* f with one file of the set s.
Filled(f, file, s) ==
  [cert   |-> IF file = "cert" THEN s ELSE f.cert,
   key    |-> IF file = "key" THEN s.gen ELSE f.key,
   bundle |-> IF file = "bundle" THEN s.ca ELSE f.bundle]

\* The first run is complete.
NotIssuing == [ca |-> FirstCA, gen |-> 1, file |-> "none"]

\* The order of WriteSVID and WriteBundle.
After(file) == CASE file = "cert" -> "key" [] file = "key" -> "bundle" [] OTHER -> "none"

NotLoading == [file |-> "none", cert |-> NoSVID, run |-> 0]

\* The run whose complete set the files are, if they are one.
WholeRun(i) == IF i.file = "none" THEN i.gen ELSE 0

-----------------------------------------------------------------------------
(* The ticker: a channel of capacity one, beside a loop that may be late.  *)

Ticking == [on |-> TRUE, due |-> Every, fired |-> FALSE, since |-> 0]
Stopped == [on |-> FALSE, due |-> Every, fired |-> FALSE, since |-> 0]

\* A tick that finds the channel full is dropped.
Ticked(t) ==
  IF ~t.on THEN t
  ELSE [on |-> TRUE,
        due |-> IF t.due = 1 THEN Every ELSE t.due - 1,
        fired |-> t.fired \/ t.due = 1,
        since |-> IF t.fired THEN t.since + 1 ELSE 0]

Handled(t) == [t EXCEPT !.fired = FALSE, !.since = 0]

\* An SVID shown to the peer is kept until it is verified, and if it is refused.
NoConn == [st |-> "none", shown |-> NoSVID, took |-> 0]
Shaking == conn.st \in {"hello", "presented", "answered"}

Init ==
  /\ env \in Envs
  /\ status = [w \in Workloads |-> "down"]
  /\ svid = [w \in Workloads |-> NoSVID]
  /\ bundle = [w \in Workloads |-> ""]
  /\ ticker = [w \in Workloads |-> Stopped]
  /\ files = [w \in Workloads |-> IF env[w] = "files"
                                  THEN Written(Mint(FirstCA, w, 0, 1, "files"))
                                  ELSE NoFiles]
  /\ issuing = [w \in Workloads |-> NotIssuing]
  /\ loading = [w \in Workloads |-> NotLoading]
  /\ conn = NoConn

-----------------------------------------------------------------------------
(* Start-up and shutdown.                                                  *)

Serve(w, s, ca) ==
  /\ status[w] = "down"
  /\ status' = [status EXCEPT ![w] = "up"]
  /\ svid' = [svid EXCEPT ![w] = s]
  /\ bundle' = [bundle EXCEPT ![w] = ca]
  /\ UNCHANGED <<env, files, issuing, conn>>

\* LoadServerTLS and LoadClientTLS: the agent first, then the files.  If what is
\* configured fails, the process does not come up; if nothing is, it speaks
\* plain HTTP or does not come up, and there is nothing to model.
StartFromAgent(w) ==
  /\ env[w] = "agent"
  /\ Serve(w, Mint(FirstCA, w, 0, 0, "agent"), FirstCA)
  /\ UNCHANGED <<ticker, loading>>

Load(w, l) ==
  /\ loading' = [loading EXCEPT ![w] = l]
  /\ UNCHANGED <<env, status, svid, bundle, ticker, files, issuing, conn>>

ReadCert(w) ==
  /\ env[w] = "files" /\ status[w] = "down" /\ loading[w].file = "none"
  /\ Load(w, [file |-> "key", cert |-> files[w].cert, run |-> WholeRun(issuing[w])])

\* x509svid.Load refuses what does not parse, and a key that is not the
\* certificate's.
ReadKey(w) ==
  /\ loading[w].file = "key"
  /\ LET l == loading[w] IN
     IF l.cert # Truncated /\ l.cert.gen = files[w].key
     THEN Load(w, [l EXCEPT !.file = "bundle", !.cert.key = files[w].key])
     ELSE Load(w, NotLoading)

\* x509bundle.Load: an empty file is an empty bundle, half a file is an error.
\* Nothing compares the bundle with the certificate.
ReadBundle(w) ==
  /\ loading[w].file = "bundle"
  /\ \/ /\ LET torn == loading[w].run = 0 \/ loading[w].run # WholeRun(issuing[w])
           IN  Serve(w, [loading[w].cert EXCEPT !.torn = torn], files[w].bundle)
        /\ loading' = [loading EXCEPT ![w] = NotLoading]
        /\ UNCHANGED ticker
     \/ files[w].bundle = "" /\ Load(w, NotLoading)

\* RotatingSource: the first SVID is minted before the loop is started.
StartRotating(w) ==
  /\ env[w] = "rotating"
  /\ Serve(w, Mint(FirstCA, w, Offset[w], 0, "rotating"), FirstCA)
  /\ ticker' = [ticker EXCEPT ![w] = Ticking]
  /\ UNCHANGED loading

Stop(w) ==
  /\ status[w] # "down"
  /\ status' = [status EXCEPT ![w] = "down"]
  /\ svid' = [svid EXCEPT ![w] = NoSVID]
  /\ bundle' = [bundle EXCEPT ![w] = ""]
  /\ ticker' = [ticker EXCEPT ![w] = Stopped]
  /\ conn' = NoConn
  /\ UNCHANGED <<env, files, issuing, loading>>

\* Defect: Close does not cancel the loop's context.
CloseLeaksLoop(w) ==
  /\ env[w] = "rotating" /\ status[w] = "up"
  /\ status' = [status EXCEPT ![w] = "closed"]
  /\ svid' = [svid EXCEPT ![w].kept = TRUE]
  /\ UNCHANGED <<env, bundle, ticker, files, issuing, loading, conn>>

\* Source.Close ends the loop; configurations built from the source go on
\* serving the last SVID.
Close(w) ==
  /\ env[w] = "rotating" /\ status[w] = "up"
  /\ status' = [status EXCEPT ![w] = "closed"]
  /\ svid' = [svid EXCEPT ![w].kept = TRUE]
  /\ ticker' = [ticker EXCEPT ![w] = Stopped]
  /\ UNCHANGED <<env, bundle, files, issuing, loading, conn>>

-----------------------------------------------------------------------------
(* Rotation.                                                               *)

Rotate(w) ==
  /\ ticker[w].fired
  /\ svid' = [svid EXCEPT ![w] = Mint(FirstCA, w, Offset[w], 0, "rotating")]
  /\ ticker' = [ticker EXCEPT ![w] = Handled(@)]
  /\ UNCHANGED <<env, status, bundle, files, issuing, loading, conn>>

\* Defect: the loop ends with the first error.
RotateFailsForGood(w) ==
  /\ ticker[w].fired
  /\ svid' = [svid EXCEPT ![w].kept = TRUE]
  /\ ticker' = [ticker EXCEPT ![w] = Stopped]
  /\ UNCHANGED <<env, status, bundle, files, issuing, loading, conn>>

\* Minting fails: the old SVID is kept until the next tick.
RotateFails(w) ==
  /\ ticker[w].fired
  /\ svid' = [svid EXCEPT ![w].kept = TRUE]
  /\ ticker' = [ticker EXCEPT ![w] = Handled(@)]
  /\ UNCHANGED <<env, status, bundle, files, issuing, loading, conn>>

\* The agent pushes a new SVID when it likes.
AgentRotates(w) ==
  /\ env[w] = "agent" /\ status[w] = "up"
  /\ svid' = [svid EXCEPT ![w] = Mint(FirstCA, w, 0, 0, "agent")]
  /\ UNCHANGED <<env, status, bundle, ticker, files, issuing, loading, conn>>

-----------------------------------------------------------------------------
(* Issuing files: certificate, key and bundle one after the other, beside  *)
(* processes that start.  Each file is emptied, then written; the tool may *)
(* end anywhere, with an error or killed, and is then run again or not.    *)

Issue(w) ==
  /\ env[w] = "files" /\ issuing[w].gen < MaxIssued
  /\ \E ca \in CAs :
       issuing' = [issuing EXCEPT ![w] = [ca |-> ca, gen |-> issuing[w].gen + 1, file |-> "cert"]]
  /\ UNCHANGED <<env, status, svid, bundle, ticker, files, loading, conn>>

EmptyFile(w) ==
  /\ issuing[w].file # "none"
  /\ files' = [files EXCEPT ![w] = Emptied(@, issuing[w].file)]
  /\ UNCHANGED <<env, status, svid, bundle, ticker, issuing, loading, conn>>

\* Defect: a write that fails is not reported, and the tool goes on.
WriteFileUnnoticed(w) ==
  /\ issuing[w].file # "none"
  /\ LET i == issuing[w] IN
     /\ \/ files' = [files EXCEPT ![w] = Filled(@, i.file, Mint(i.ca, w, 0, i.gen, "files"))]
        \/ files' = [files EXCEPT ![w] = Emptied(@, i.file)]
     /\ issuing' = [issuing EXCEPT ![w].file = After(i.file)]
  /\ UNCHANGED <<env, status, svid, bundle, ticker, loading, conn>>

\* The certificate is minted for the run: a short one, whose time does not count.
WriteFile(w) ==
  /\ issuing[w].file # "none"
  /\ LET i == issuing[w] IN
     /\ files' = [files EXCEPT ![w] = Filled(@, i.file, Mint(i.ca, w, 0, i.gen, "files"))]
     /\ issuing' = [issuing EXCEPT ![w].file = After(i.file)]
  /\ UNCHANGED <<env, status, svid, bundle, ticker, loading, conn>>

-----------------------------------------------------------------------------
(* The handshake.                                                          *)

Handshake(c) ==
  /\ conn' = c
  /\ UNCHANGED <<env, status, svid, bundle, ticker, files, issuing, loading>>

Dial ==
  /\ conn = NoConn
  /\ \A w \in Workloads : status[w] # "down"
  /\ Handshake([conn EXCEPT !.st = "hello"])

\* GetX509SVID is called for this handshake.
ServerPresents ==
  /\ conn.st = "hello"
  /\ Handshake([conn EXCEPT !.st = "presented", !.shown = svid[Server]])

ClientAnswers ==
  /\ conn.st = "presented"
  /\ IF Accepts(Client, conn.shown)
     THEN Handshake([conn EXCEPT !.st = "answered", !.shown = svid[Client]])
     ELSE Handshake([conn EXCEPT !.st = "refused_by_client"])

\* The identity of an open connection is not looked at again.
ServerVerifies ==
  /\ conn.st = "answered"
  /\ IF Accepts(Server, conn.shown)
     THEN Handshake([NoConn EXCEPT !.st = "open"])
     ELSE Handshake([conn EXCEPT !.st = "refused_by_server"])

HangUp ==
  /\ conn # NoConn
  /\ Handshake(NoConn)

\* Time passes for everybody, for what is on its way until it is verified, and
\* not past the bounds on the loop's delay and on the handshake.
Tick ==
  /\ \A w \in Workloads : ticker[w].fired => ticker[w].since < Lag
  /\ Shaking => conn.took < Duration
  /\ svid' = [w \in Workloads |-> Older(svid[w])]
  /\ ticker' = [w \in Workloads |-> Ticked(ticker[w])]
  /\ files' = [w \in Workloads |-> [files[w] EXCEPT !.cert = Older(@)]]
  /\ loading' = [w \in Workloads |-> [loading[w] EXCEPT !.cert = Older(@)]]
  /\ conn' = [conn EXCEPT !.took = IF Shaking THEN @ + 1 ELSE @,
                          !.shown = IF Shaking THEN Older(@) ELSE @]
  /\ UNCHANGED <<env, status, bundle, issuing>>

Next ==
  \/ \E w \in Workloads :
       \/ StartFromAgent(w) \/ StartRotating(w)
       \/ ReadCert(w) \/ ReadKey(w) \/ ReadBundle(w)
       \/ Stop(w) \/ Close(w)
       \/ Rotate(w) \/ RotateFails(w) \/ AgentRotates(w)
       \/ Issue(w) \/ EmptyFile(w) \/ WriteFile(w)
  \/ Dial \/ ServerPresents \/ ClientAnswers \/ ServerVerifies \/ HangUp
  \/ Tick

Spec == Init /\ [][Next]_vars

\* Time goes on; the loop handles its ticks; handshakes end.  Minting needs the
\* random number generator only and does not fail for ever.
Fairness ==
  /\ WF_vars(Tick)
  /\ WF_vars(ServerPresents \/ ClientAnswers \/ ServerVerifies)
  /\ \A w \in Workloads : WF_vars(Rotate(w) \/ RotateFails(w)) /\ SF_vars(Rotate(w))

FairSpec == Spec /\ Fairness

-----------------------------------------------------------------------------
(* Properties.                                                             *)

SVIDs == [ca : CAs \cup {""}, id : Workloads \cup {""}, age : 0 .. AgeCap,
          off : {Offset[w] : w \in Workloads} \cup {0}, gen : 0 .. MaxIssued,
          key : 0 .. MaxIssued, from : Sources \cup {""}, kept : BOOLEAN, torn : BOOLEAN]

Tickers == [on : BOOLEAN, due : 1 .. Every, fired : BOOLEAN, since : 0 .. Lag]

\* Type invariant.  A loop runs exactly beside a rotating source that is in use
\* and not closed.
TypeOK ==
  /\ env \in [Workloads -> Sources]
  /\ status \in [Workloads -> {"down", "up", "closed"}]
  /\ svid \in [Workloads -> SVIDs]
  /\ \A w \in Workloads : svid[w].ca = "" <=> status[w] = "down"
  /\ bundle \in [Workloads -> CAs \cup {""}]
  /\ ticker \in [Workloads -> Tickers]
  /\ \A w \in Workloads : ticker[w].on <=> env[w] = "rotating" /\ status[w] = "up"
  /\ files \in [Workloads -> [cert : SVIDs, key : 0 .. MaxIssued, bundle : CAs \cup {""}]]
  /\ issuing \in [Workloads -> [ca : CAs, gen : 1 .. MaxIssued,
                               file : {"none", "cert", "key", "bundle"}]]
  /\ loading \in [Workloads -> [file : {"none", "key", "bundle"}, cert : SVIDs,
                               run : 0 .. MaxIssued]]
  /\ conn \in [st : {"none", "hello", "presented", "answered", "open",
                     "refused_by_client", "refused_by_server"},
               shown : SVIDs, took : 0 .. Duration]

\* A process never serves a certificate with another's key, and it trusts the CA
\* that issued its certificate, unless a run of the issuing tool overlapped its start
\* or had been broken off.  Then nothing holds the bundle to the certificate: the
\* process may come up beside the bundle of another CA, or trusting nobody.
SetConsistent ==
  \A w \in Workloads : status[w] # "down" =>
    /\ svid[w].gen = svid[w].key
    /\ ~svid[w].torn => bundle[w] = svid[w].ca

\* v has reason to refuse s: another CA issued its own certificate; or v came up on
\* a torn set, and does not trust s's CA; or s has expired and is not the product of
\* a rotation that works.
Refusable(v, s) ==
  \/ s.ca # svid[v].ca
  \/ svid[v].torn /\ s.ca # bundle[v]
  \/ Age(v, s) > Life /\ (s.from # "rotating" \/ s.kept)

\* Rotation is transparent: a handshake fails only when different CAs issued the two
\* certificates, when the side that refuses came up on a torn set of files, or when
\* an SVID has expired that is not rotated or whose last re-mint failed.  Neither an
\* SVID replaced during the handshake nor the difference of the clocks makes it fail.
RotationTransparent ==
  /\ conn.st = "refused_by_client" => Refusable(Client, conn.shown)
  /\ conn.st = "refused_by_server" => Refusable(Server, conn.shown)

\* A source that kept an SVID past its expiry because re-minting failed gets a
\* valid one again by itself: the loop survives its errors.
RotatorRecovers ==
  \A w \in Workloads :
    env[w] = "rotating" /\ status[w] = "up" ~> svid[w].age = 0 \/ status[w] # "up"
=============================================================================
