---------------------------- MODULE PolicyBundles ----------------------------
(***************************************************************************)
(* The path of a policy from CI to a decision: bundlepush publishes        *)
(* compiled bundles to an object-locked S3 bucket, PDP processes pull the  *)
(* latest one when they start (cmd/pdp, bundlestore), compile it           *)
(* (services.PDPService, engine.NewFromBundle) and decide by it until they *)
(* end.  Pipelines may overlap, calls to the store may fail or lose their  *)
(* response, and any process may crash.                                    *)
(***************************************************************************)
EXTENDS Naturals, Sequences

CONSTANTS
  Publishers,   \* CI pipelines that run bundlepush
  Replicas,     \* PDP processes
  Stored,       \* those with S3_ENDPOINT; the others use the embedded policy
  Bundles,      \* what pipelines may upload
  Buckets,      \* what the bucket may be at first
  MaxRuns,      \* bound on the runs of bundlepush
  MaxVersions   \* bound on the versions ever stored

\* A bundle is a name and what reading, compiling and querying it yields.
Kinds == {"good", "empty", "corrupt", "no_modules", "uncompilable",
          "undefined", "odd"}
Bundle(name, kind) == [name |-> name, kind |-> kind]
Embedded == Bundle("framework", "embedded")

ASSUME BundlesAssumption ==
  /\ Stored \subseteq Replicas
  /\ \A b \in Bundles : b.kind \in Kinds /\ b = Bundle(b.name, b.kind)
  /\ Buckets \subseteq {"absent", "plain", "locked"}
  /\ MaxRuns \in Nat /\ MaxVersions \in Nat

VARIABLES
  bucket,    \* the bucket: absent, plain, or versioned and object-locked
  versions,  \* the versions of the object, oldest first
  job,       \* per publisher: its run of bundlepush
  runs,      \* how many runs there were
  replica,   \* per replica: the PDP process
  said,      \* per replica: its latest answer
  acked,     \* history: the newest version a run that exited 0 has stored
  floor      \* history: per replica, the version its start must not go behind

storeVars == <<bucket, versions>>
vars == <<bucket, versions, job, runs, replica, said, acked, floor>>

Idle == [step |-> "idle", file |-> Embedded, version |-> 0]
Down == [st |-> "down", version |-> 0, bundle |-> Embedded, grpc |-> FALSE]
Nothing == [allow |-> FALSE, reason |-> ""]

Larger(m, n) == IF m < n THEN n ELSE m

Init ==
  /\ bucket \in Buckets
  /\ versions = <<>>
  /\ job = [p \in Publishers |-> Idle]
  /\ runs = 0
  /\ replica = [r \in Replicas |-> Down]
  /\ said = [r \in Replicas |-> Nothing]
  /\ acked = 0
  /\ floor = [r \in Replicas |-> 0]

-----------------------------------------------------------------------------
(* bundlepush.  An error at any step, or a crash, ends the run.            *)

Continue(p, j) ==
  /\ job' = [job EXCEPT ![p] = j]
  /\ UNCHANGED <<runs, replica, said, acked, floor>>

Push(p) ==
  /\ job[p] = Idle
  /\ runs < MaxRuns
  /\ runs' = runs + 1
  /\ \E b \in Bundles : job' = [job EXCEPT ![p] = [Idle EXCEPT !.step = "exists", !.file = b]]
  /\ UNCHANGED <<storeVars, replica, said, acked, floor>>

BucketExists(p) ==
  /\ job[p].step = "exists"
  /\ Continue(p, [job[p] EXCEPT !.step = IF bucket = "absent" THEN "make" ELSE "put"])
  /\ UNCHANGED storeVars

\* The bucket is created with object lock.  Somebody else may have created it in
\* the meantime, which is an error; the response may be lost.
MakeBucket(p) ==
  /\ job[p].step = "make"
  /\ UNCHANGED versions
  /\ \/ /\ bucket = "absent"
        /\ bucket' = "locked"
        /\ \E j \in {Idle, [job[p] EXCEPT !.step = "put"]} : Continue(p, j)
     \/ /\ bucket # "absent"
        /\ UNCHANGED bucket
        /\ Continue(p, Idle)

\* Defect: the put carries no retention mode, so a plain bucket takes it too, and
\* forgets the object it had.
StoresUnlocked(b) ==
  /\ bucket # "absent"
  /\ Len(versions) < MaxVersions
  /\ versions' = IF bucket = "locked" THEN Append(versions, b) ELSE <<b>>
  /\ UNCHANGED bucket

\* What bundlepush's put with GOVERNANCE retention does to the object: only a locked bucket
\* takes it, and keeps what it has.
Stores(b) ==
  /\ bucket = "locked"
  /\ Len(versions) < MaxVersions
  /\ versions' = Append(versions, b)
  /\ UNCHANGED bucket

\* The response is lost after the object was stored: the client sends it again,
\* perhaps after somebody else's, or gives up.
PutObject(p) ==
  /\ job[p].step = "put"
  /\ Stores(job[p].file)
  /\ \E j \in {Idle, job[p], [job[p] EXCEPT !.step = "exit", !.version = Len(versions')]} :
       Continue(p, j)

\* Defect: a failed upload is reported on the way out, with status 0.
FailExitsZero(p) ==
  /\ job[p] # Idle
  /\ Continue(p, [job[p] EXCEPT !.step = "exit", !.version = Len(versions) + 1])
  /\ UNCHANGED storeVars

\* The store cannot be reached or refuses, the file cannot be opened, or the
\* process is killed.
Fail(p) ==
  /\ job[p] # Idle
  /\ Continue(p, Idle)
  /\ UNCHANGED storeVars

ExitZero(p) ==
  /\ job[p].step = "exit"
  /\ job' = [job EXCEPT ![p] = Idle]
  /\ acked' = Larger(acked, job[p].version)
  /\ UNCHANGED <<storeVars, runs, replica, said, floor>>

-----------------------------------------------------------------------------
(* The PDP process.  An error on the way up ends it.                       *)

Become(r, p) ==
  /\ replica' = [replica EXCEPT ![r] = p]
  /\ UNCHANGED <<storeVars, job, runs, acked>>

Start(r) ==
  /\ replica[r] = Down
  /\ Become(r, [Down EXCEPT !.st = IF r \in Stored THEN "pull" ELSE "build"])
  /\ floor' = [floor EXCEPT ![r] = IF r \in Stored THEN Larger(@, acked) ELSE 0]
  /\ UNCHANGED said

\* Defect: the oldest version is fetched.
LatestVersionOldest == 1

\* The object is asked for without a version id: the newest version.
LatestVersion == Len(versions)

\* LatestBundle: there has to be an object.
Pull(r) ==
  /\ replica[r].st = "pull"
  /\ versions # <<>>
  /\ Become(r, [replica[r] EXCEPT !.st = "build", !.version = LatestVersion,
                                  !.bundle = versions[LatestVersion]])
  /\ UNCHANGED <<said, floor>>

\* Defect: a bundle that cannot be read falls back to the embedded policy too.
PolicyOfLenient(b) == IF b.kind \in {"empty", "corrupt", "no_modules"} THEN Embedded ELSE b

\* PDPService: an empty bundle is the same as none, whatever it was meant to be.
PolicyOf(b) == IF b.kind = "empty" THEN Embedded ELSE b

\* NewFromBundle: the tarball is read and has modules.
Reads(b) == b.kind \notin {"corrupt", "no_modules"}

\* New: the query is prepared, so that modules fail to compile here or never.
Prepares(b) == b.kind # "uncompilable"

Build(r) ==
  /\ replica[r].st = "build"
  /\ LET b == PolicyOf(replica[r].bundle) IN Reads(b) /\ Prepares(b)
  /\ Become(r, [replica[r] EXCEPT !.st = "listen", !.bundle = PolicyOf(@)])
  /\ UNCHANGED <<said, floor>>

\* The gRPC listener first, if it is configured, then HTTP.
Listen(r) ==
  /\ replica[r].st = "listen"
  /\ \E grpc \in BOOLEAN : Become(r, [replica[r] EXCEPT !.st = "serve", !.grpc = grpc])
  /\ floor' = [floor EXCEPT ![r] = replica[r].version]
  /\ UNCHANGED said

\* A gRPC server that ends is logged; HTTP goes on.
GRPCDies(r) ==
  /\ replica[r].grpc
  /\ Become(r, [replica[r] EXCEPT !.grpc = FALSE])
  /\ UNCHANGED <<said, floor>>

\* Start-up fails (the store is away, the object missing, the bundle bad, a port
\* taken, the SVID unusable), or the process crashes.
Exit(r) ==
  /\ replica[r] # Down
  /\ Become(r, Down)
  /\ said' = [said EXCEPT ![r] = Nothing]
  /\ UNCHANGED floor

Denied(reason) == {[allow |-> FALSE, reason |-> reason]}

\* Defect: the result set is not looked at before it is used.
VerdictsOpen(b) ==
  CASE b.kind = "embedded" -> Denied("unknown_domain") \cup Denied("request_invalid")
    [] OTHER -> Denied("denied") \cup {[allow |-> TRUE, reason |-> b.name]}

\* Engine.Eval for a request of a business domain: the embedded policy has no
\* domain, a bundle without the entry point decides nothing, a document that is
\* no object is an error.
Verdicts(b) ==
  CASE b.kind = "good"      -> Denied("denied") \cup {[allow |-> TRUE, reason |-> b.name]}
    [] b.kind = "embedded"  -> Denied("unknown_domain") \cup Denied("request_invalid")
    [] b.kind = "undefined" -> Denied("policy_undefined")
    [] b.kind = "odd"       -> Denied("error")

Decide(r) ==
  /\ replica[r].st = "serve"
  /\ \E v \in Verdicts(replica[r].bundle) : said' = [said EXCEPT ![r] = v]
  /\ UNCHANGED <<storeVars, job, runs, replica, acked, floor>>

-----------------------------------------------------------------------------
Next ==
  \/ \E p \in Publishers : \/ Push(p) \/ BucketExists(p) \/ MakeBucket(p)
                           \/ PutObject(p) \/ Fail(p) \/ ExitZero(p)
  \/ \E r \in Replicas : \/ Start(r) \/ Pull(r) \/ Build(r) \/ Listen(r)
                         \/ GRPCDies(r) \/ Exit(r) \/ Decide(r)

Spec == Init /\ [][Next]_vars

-----------------------------------------------------------------------------
(* Properties.                                                             *)

Policies == Bundles \cup {Embedded}

\* Type invariant.
TypeOK ==
  /\ bucket \in {"absent", "plain", "locked"}
  /\ versions \in Seq(Bundles) /\ Len(versions) <= MaxVersions
  /\ job \in [Publishers -> [step : {"idle", "exists", "make", "put", "exit"},
                             file : Policies, version : 0 .. MaxVersions]]
  /\ runs \in 0 .. MaxRuns
  /\ replica \in [Replicas -> [st : {"down", "pull", "build", "listen", "serve"},
                               version : 0 .. MaxVersions, bundle : Policies,
                               grpc : BOOLEAN]]
  /\ \A r \in Replicas : said[r].allow \in BOOLEAN
  /\ acked \in 0 .. MaxVersions
  /\ floor \in [Replicas -> 0 .. MaxVersions]

\* "a published bundle can never be overwritten" (s3.go): whatever runs overlap,
\* fail or are retried, and whatever bucket they find, a stored version stays.
PublishedStays ==
  [][\A i \in DOMAIN versions : i \in DOMAIN versions' /\ versions'[i] = versions[i]]_vars

\* bundlepush exits 0 only when its bundle is in the store, and a PDP started
\* after that runs this bundle or a newer one; nor does a PDP that restarts go
\* back behind the version it ran before.
NeverBehind ==
  /\ acked <= Len(versions)
  /\ \A r \in Stored : replica[r].st \in {"build", "listen", "serve"} =>
       /\ replica[r].version >= floor[r]
       /\ replica[r].version \in DOMAIN versions

\* A PDP with a store decides by exactly the bundle it pulled; only an object of
\* no bytes makes it fall back to the embedded policy.
RunsWhatItPulled ==
  \A r \in Stored : replica[r].st = "serve" =>
    LET pulled == versions[replica[r].version] IN
    \/ replica[r].bundle = pulled
    \/ replica[r].bundle = Embedded /\ pulled.kind = "empty"

\* Nothing but a policy that CI stored ever allows a request of a business
\* domain: not a missing or undefined decision, an odd document or the fallback.
AllowsByPolicyOnly ==
  \A r \in Replicas : said[r].allow =>
    /\ r \in Stored
    /\ versions[replica[r].version] = Bundle(said[r].reason, "good")
=============================================================================
