------------------------- MODULE PolicyBundlesProofs -------------------------
(***************************************************************************)
(* Proofs about PolicyBundles, for any number of pipelines and PDP         *)
(* processes, any bundles, any bucket to begin with.                       *)
(***************************************************************************)
EXTENDS PolicyBundles, SequenceTheorems, TLAPS

-----------------------------------------------------------------------------
(* The inductive invariant.                                                *)

\* A run that is under way uploads a bundle.
JobOK(j) ==
  /\ j.version <= Len(versions)
  /\ j.step # "idle" => j.file \in Bundles

\* No run claims a version the store does not have, nor does a process.
VersionsOK ==
  /\ acked <= Len(versions)
  /\ \A p \in Publishers : JobOK(job[p])
  /\ \A r \in Replicas : floor[r] <= Len(versions)

Built == {"listen", "serve"}

\* What a process holds: the bundle it pulled, then the policy it built from it,
\* which an engine was able to prepare; the embedded policy without a store.
ReplicaOK(r) ==
  LET p == replica[r] IN
  /\ r \in Stored /\ p.st \in {"build"} \cup Built =>
       /\ p.version \in DOMAIN versions /\ p.version >= floor[r]
       /\ p.bundle = IF p.st = "build" THEN versions[p.version]
                                       ELSE PolicyOf(versions[p.version])
  /\ r \notin Stored => p.st # "pull" /\ p.bundle = Embedded /\ p.version = 0
  /\ p.st \in Built => p.bundle.kind \in {"good", "embedded", "undefined", "odd"}

\* An answer is that of the policy the process serves.
SaidOK(r) ==
  said[r].allow => /\ replica[r].st = "serve" /\ r \in Stored
                   /\ replica[r].bundle = Bundle(said[r].reason, "good")

IInv ==
  /\ TypeOK
  /\ VersionsOK
  /\ said = [r \in Replicas |-> said[r]]
  /\ \A r \in Replicas : ReplicaOK(r) /\ SaidOK(r)

Jobs == [step : {"idle", "exists", "make", "put", "exit"},
         file : Policies, version : 0 .. MaxVersions]
Processes == [st : {"down", "pull", "build", "listen", "serve"},
              version : 0 .. MaxVersions, bundle : Policies, grpc : BOOLEAN]

\* The store keeps every version it has.
Grown ==
  \A v \in DOMAIN versions : v \in DOMAIN versions' /\ versions'[v] = versions[v]

-----------------------------------------------------------------------------
(* Bundles and versions.                                                   *)

\* Versions are numbered from 1, and each is one of the bundles.
LEMMA VersionFacts ==
  ASSUME TypeOK
  PROVE  /\ Len(versions) \in Nat /\ DOMAIN versions = 1 .. Len(versions)
         /\ Len(versions) <= MaxVersions /\ MaxVersions \in Nat /\ MaxRuns \in Nat
         /\ versions # <<>> <=> Len(versions) > 0
         /\ \A v \in DOMAIN versions : versions[v] \in Bundles
<1>1. versions \in Seq(Bundles) /\ Len(versions) <= MaxVersions
  BY DEF TypeOK
<1>2. \A v \in 1 .. Len(versions) : versions[v] \in Bundles
  BY <1>1, ElementOfSeq
<1>3. QED
  BY <1>1, <1>2, BundlesAssumption, EmptySeq

\* Storing a bundle adds a version and keeps the others.
LEMMA StoreGrows ==
  ASSUME TypeOK, NEW b \in Bundles, Len(versions) < MaxVersions,
         versions' = Append(versions, b)
  PROVE  /\ versions' \in Seq(Bundles) /\ Len(versions') = Len(versions) + 1
         /\ Len(versions') \in 0 .. MaxVersions
         /\ Grown
<1>1. versions \in Seq(Bundles) /\ Len(versions) \in Nat /\ MaxVersions \in Nat
  BY VersionFacts DEF TypeOK
<1>2. versions' \in Seq(Bundles) /\ Len(versions') = Len(versions) + 1
  BY <1>1
<1>3. \A v \in 1 .. Len(versions) : versions'[v] = versions[v]
  BY <1>1
<1>4. QED
  BY <1>1, <1>2, <1>3 DEF Grown

\* What an engine was built from is a policy it can decide by; an empty bundle was
\* replaced by the embedded one.
LEMMA BuiltKinds ==
  ASSUME NEW b \in Policies, Reads(PolicyOf(b)), Prepares(PolicyOf(b))
  PROVE  /\ PolicyOf(b).kind \in {"good", "embedded", "undefined", "odd"}
         /\ PolicyOf(b) \in Policies
<1>1. Embedded.kind = "embedded" /\ Embedded \in Policies
  BY DEF Embedded, Bundle, Policies
<1>2. b.kind \in Kinds \cup {"embedded"}
  BY <1>1, BundlesAssumption DEF Policies
<1>3. CASE b.kind = "empty"
  BY <1>1, <1>3 DEF PolicyOf
<1>4. CASE b.kind # "empty"
  BY <1>2, <1>4 DEF PolicyOf, Reads, Prepares, Kinds
<1>5. QED
  BY <1>3, <1>4

\* Only a good bundle ever allows, and it says which one it was.
LEMMA AllowingVerdict ==
  ASSUME NEW b \in Policies, b.kind \in {"good", "embedded", "undefined", "odd"},
         NEW v \in Verdicts(b)
  PROVE  /\ v.allow \in BOOLEAN
         /\ v.allow => b = Bundle(v.reason, "good")
<1>1. CASE b.kind = "good"
  <2>1. v \in Denied("denied") \cup {[allow |-> TRUE, reason |-> b.name]}
    BY <1>1 DEF Verdicts
  <2>2. b # Embedded
    BY <1>1 DEF Embedded, Bundle
  <2>3. b = Bundle(b.name, "good")
    BY <1>1, <2>2, BundlesAssumption DEF Policies
  <2>4. CASE v \in Denied("denied")
    <3>1. v.allow = FALSE
      BY <2>4 DEF Denied
    <3>2. QED
      BY <3>1
  <2>5. CASE v = [allow |-> TRUE, reason |-> b.name]
    BY <2>3, <2>5
  <2>6. QED
    BY <2>1, <2>4, <2>5
<1>2. CASE b.kind # "good"
  <2>1. v \in Denied("unknown_domain") \cup Denied("request_invalid")
              \cup Denied("policy_undefined") \cup Denied("error")
    BY <1>2 DEF Verdicts
  <2>2. v.allow = FALSE
    BY <2>1 DEF Denied
  <2>3. QED
    BY <2>2
<1>3. QED
  BY <1>1, <1>2

-----------------------------------------------------------------------------
(* The steps of bundlepush.                                                *)

\* A process keeps what it holds while the store grows.
LEMMA ReplicaFrame ==
  ASSUME NEW r, ReplicaOK(r), SaidOK(r), Grown,
         replica'[r] = replica[r], said'[r] = said[r], floor'[r] = floor[r]
  PROVE  ReplicaOK(r)' /\ SaidOK(r)'
BY DEF ReplicaOK, SaidOK, Grown

\* A run goes on, perhaps having stored its bundle, and claims no version that is
\* not there.
LEMMA JobStep ==
  ASSUME IInv, NEW p \in Publishers, NEW j \in Jobs,
         job' = [job EXCEPT ![p] = j],
         runs' \in 0 .. MaxRuns, bucket' \in {"absent", "plain", "locked"},
         \/ versions' = versions
         \/ \E b \in Bundles : Len(versions) < MaxVersions /\ versions' = Append(versions, b),
         JobOK(j)',
         acked' \in 0 .. MaxVersions, acked' <= Len(versions'),
         UNCHANGED <<replica, said, floor>>
  PROVE  IInv'
<1>1. TypeOK /\ VersionsOK
  BY DEF IInv
<1>2. /\ versions' \in Seq(Bundles) /\ Len(versions') <= MaxVersions
      /\ Len(versions) \in Nat /\ Len(versions') \in Nat /\ Len(versions) <= Len(versions')
      /\ Grown
  <2>1. CASE versions' = versions
    BY <1>1, <2>1, VersionFacts DEF TypeOK, Grown
  <2>2. CASE \E b \in Bundles : Len(versions) < MaxVersions /\ versions' = Append(versions, b)
    <3>1. /\ versions' \in Seq(Bundles) /\ Len(versions') = Len(versions) + 1
          /\ Len(versions') \in 0 .. MaxVersions
          /\ Grown
      BY <1>1, <2>2, StoreGrows
    <3>2. QED
      BY <1>1, <3>1, VersionFacts
  <2>3. QED
    BY <2>1, <2>2
<1>3. job \in [Publishers -> Jobs]
  BY <1>1 DEF TypeOK, Jobs
<1>4. /\ job' \in [Publishers -> Jobs] /\ job'[p] = j
      /\ \A q \in Publishers \ {p} : job'[q] = job[q]
  BY <1>3
<1>5. TypeOK'
  BY <1>1, <1>2, <1>4 DEF TypeOK, Jobs
<1>6. VersionsOK'
  <2>1. ASSUME NEW q \in Publishers
        PROVE  /\ job'[q].version <= Len(versions')
               /\ job'[q].step # "idle" => job'[q].file \in Bundles
    <3>1. CASE q = p
      BY <1>4, <3>1 DEF JobOK
    <3>2. CASE q # p
      <4>1. job[q].version \in Nat /\ JobOK(job[q])
        BY <1>1, <1>3 DEF VersionsOK, Jobs
      <4>2. QED
        BY <1>2, <1>4, <3>2, <4>1 DEF JobOK
    <3>3. QED
      BY <3>1, <3>2
  <2>2. ASSUME NEW r \in Replicas PROVE floor'[r] <= Len(versions')
    <3>1. floor[r] \in Nat /\ floor[r] <= Len(versions)
      BY <1>1 DEF VersionsOK, TypeOK
    <3>2. QED
      BY <1>2, <3>1
  <2>3. QED
    BY <2>1, <2>2 DEF VersionsOK, JobOK
<1>7. \A r \in Replicas : ReplicaOK(r)' /\ SaidOK(r)'
  BY <1>2, ReplicaFrame DEF IInv
<1>8. said' = [r \in Replicas |-> said'[r]]
  BY Zenon DEF IInv
<1>9. QED
  BY <1>5, <1>6, <1>7, <1>8 DEF IInv

\* A run at another step is still about the same bundle.
LEMMA JobAtStep ==
  ASSUME NEW j \in Jobs, NEW s \in {"exists", "make", "put", "exit"}
  PROVE  /\ [j EXCEPT !.step = s] \in Jobs
         /\ [j EXCEPT !.step = s].version = j.version
         /\ [j EXCEPT !.step = s].file = j.file
BY DEF Jobs

\* The types of what bundlepush is doing.
LEMMA JobFacts ==
  ASSUME IInv, NEW p \in Publishers
  PROVE  /\ job[p] \in Jobs /\ job[p].version \in Nat /\ JobOK(job[p])
         /\ Idle \in Jobs /\ Idle.version = 0 /\ Idle.step = "idle"
         /\ acked \in Nat /\ acked \in 0 .. MaxVersions /\ acked <= Len(versions)
         /\ runs \in 0 .. MaxRuns /\ bucket \in {"absent", "plain", "locked"}
<1>1. TypeOK /\ VersionsOK
  BY DEF IInv
<1>2. job[p] \in Jobs
  BY <1>1 DEF TypeOK, Jobs
<1>3. Idle.version = 0 /\ Idle.step = "idle" /\ Idle \in Jobs
  BY <1>1, VersionFacts DEF Idle, Jobs, Policies
<1>4. job[p].version \in Nat
  BY <1>2 DEF Jobs
<1>5. QED
  BY <1>1, <1>2, <1>3, <1>4, VersionFacts DEF TypeOK, VersionsOK

\* Runs begin, look for the bucket, make it, fail or end.
LEMMA RunStep ==
  ASSUME IInv, NEW p \in Publishers,
         Push(p) \/ BucketExists(p) \/ MakeBucket(p) \/ Fail(p) \/ ExitZero(p)
  PROVE  IInv'
<1>1. PICK j0 : j0 = job[p]
  OBVIOUS
<1>2. /\ j0 \in Jobs /\ JobOK(j0) /\ j0.version \in Nat
      /\ TypeOK /\ Len(versions) \in Nat /\ MaxVersions \in Nat /\ MaxRuns \in Nat
  BY <1>1, JobFacts, VersionFacts DEF IInv
<1>3. versions' = versions /\ UNCHANGED <<replica, said, floor>>
  BY DEF Push, BucketExists, MakeBucket, Fail, ExitZero, Continue, storeVars
<1>4. runs' \in 0 .. MaxRuns
  <2>1. CASE Push(p)
    <3>1. runs < MaxRuns /\ runs' = runs + 1 /\ runs \in 0 .. MaxRuns
      BY <2>1, JobFacts DEF Push
    <3>2. QED
      BY <1>2, <3>1
  <2>2. CASE ~Push(p)
    BY <2>2, JobFacts DEF BucketExists, MakeBucket, Fail, ExitZero, Continue
  <2>3. QED
    BY <2>1, <2>2
<1>5. bucket' \in {"absent", "plain", "locked"}
  BY JobFacts DEF Push, BucketExists, MakeBucket, Fail, ExitZero, Continue, storeVars
<1>6. acked' \in 0 .. MaxVersions /\ acked' <= Len(versions)
  <2>1. CASE ExitZero(p)
    <3>1. acked' = Larger(acked, j0.version)
      BY <1>1, <2>1 DEF ExitZero
    <3>2. j0.version \in 0 .. MaxVersions /\ j0.version <= Len(versions)
      BY <1>2 DEF JobOK, Jobs
    <3>3. QED
      BY <3>1, <3>2, JobFacts DEF Larger
  <2>2. CASE ~ExitZero(p)
    BY <2>2, JobFacts DEF Push, BucketExists, MakeBucket, Fail, Continue
  <2>3. QED
    BY <2>1, <2>2
<1>7. PICK j \in Jobs : job' = [job EXCEPT ![p] = j] /\ JobOK(j)
  <2>1. CASE Push(p)
    <3>1. PICK b \in Bundles :
            job' = [job EXCEPT ![p] = [Idle EXCEPT !.step = "exists", !.file = b]]
      BY <2>1 DEF Push
    <3>2. PICK j : j = [Idle EXCEPT !.step = "exists", !.file = b]
      OBVIOUS
    <3>3. /\ Idle \in [step : {"idle", "exists", "make", "put", "exit"},
                       file : Policies, version : 0 .. MaxVersions]
          /\ Idle.version = 0 /\ b \in Policies
      BY JobFacts DEF Jobs, Policies
    <3>4. j \in Jobs /\ j.version = 0 /\ j.file = b
      BY <3>2, <3>3 DEF Jobs
    <3>5. JobOK(j)
      BY <1>2, <3>4 DEF JobOK
    <3>6. QED
      BY <3>1, <3>2, <3>4, <3>5
  <2>2. ASSUME NEW s \in {"exists", "make", "put", "exit"}, j0.step # "idle",
               job' = [job EXCEPT ![p] = [j0 EXCEPT !.step = s]]
        PROVE  \E j \in Jobs : job' = [job EXCEPT ![p] = j] /\ JobOK(j)
    <3>1. PICK j : j = [j0 EXCEPT !.step = s]
      OBVIOUS
    <3>2. j \in Jobs /\ j.version = j0.version /\ j.file = j0.file
      BY <1>2, <3>1, JobAtStep
    <3>3. job' = [job EXCEPT ![p] = j]
      BY <2>2, <3>1
    <3>4. JobOK(j)
      BY <1>2, <2>2, <3>2 DEF JobOK
    <3>5. QED
      BY <3>2, <3>3, <3>4
  <2>3. CASE job' = [job EXCEPT ![p] = Idle]
    <3>1. JobOK(Idle)
      BY <1>2, JobFacts DEF JobOK
    <3>2. QED
      BY <2>3, <3>1, JobFacts
  <2>4. CASE BucketExists(p)
    BY <1>1, <2>2, <2>4 DEF BucketExists, Continue
  <2>5. CASE MakeBucket(p)
    BY <1>1, <2>2, <2>3, <2>5 DEF MakeBucket, Continue
  <2>6. CASE Fail(p) \/ ExitZero(p)
    BY <2>3, <2>6 DEF Fail, ExitZero, Continue
  <2>7. QED
    BY <2>1, <2>4, <2>5, <2>6
<1>8. JobOK(j)'
  BY <1>3, <1>7 DEF JobOK
<1>9. QED
  BY <1>3, <1>4, <1>5, <1>6, <1>7, <1>8, JobStep

\* A put stores the bundle under a new version.
LEMMA PutStep ==
  ASSUME IInv, NEW p \in Publishers, PutObject(p)
  PROVE  IInv'
<1>1. PICK j0 : j0 = job[p]
  OBVIOUS
<1>2. /\ j0 \in Jobs /\ JobOK(j0) /\ j0.version \in Nat /\ j0.step = "put"
      /\ TypeOK /\ Len(versions) \in Nat /\ MaxVersions \in Nat
  BY <1>1, JobFacts, VersionFacts DEF IInv, PutObject
<1>3. /\ Len(versions) < MaxVersions /\ versions' = Append(versions, j0.file) /\ bucket' = bucket
      /\ UNCHANGED <<runs, replica, said, acked, floor>>
  BY <1>1 DEF PutObject, Stores, Continue
<1>4. j0.file \in Bundles
  BY <1>2 DEF JobOK
<1>5. Len(versions') = Len(versions) + 1 /\ Len(versions') \in 0 .. MaxVersions
  BY <1>2, <1>3, <1>4, StoreGrows
<1>6. PICK n \in 0 .. MaxVersions : n = Len(versions')
  BY <1>5
<1>7. PICK j \in Jobs : job' = [job EXCEPT ![p] = j] /\ JobOK(j)'
  <2>1. PICK j \in {Idle, j0, [j0 EXCEPT !.step = "exit", !.version = n]} :
          job' = [job EXCEPT ![p] = j]
    BY <1>1, <1>6 DEF PutObject, Continue
  <2>2. CASE j = Idle
    <3>1. JobOK(j)'
      BY <1>5, <2>2, JobFacts DEF JobOK
    <3>2. QED
      BY <2>1, <2>2, <3>1, JobFacts
  <2>3. CASE j = j0
    <3>1. JobOK(j)'
      BY <1>2, <1>5, <2>3 DEF JobOK
    <3>2. QED
      BY <1>2, <2>1, <2>3, <3>1
  <2>4. CASE j = [j0 EXCEPT !.step = "exit", !.version = n]
    <3>1. j \in Jobs /\ j.version = n /\ j.file = j0.file
      BY <1>2, <2>4 DEF Jobs
    <3>2. JobOK(j)'
      BY <1>4, <1>5, <1>6, <3>1 DEF JobOK
    <3>3. QED
      BY <2>1, <3>1, <3>2
  <2>5. QED
    BY <2>1, <2>2, <2>3, <2>4
<1>8. acked <= Len(versions')
  BY <1>2, <1>5, JobFacts
<1>9. QED
  BY <1>3, <1>4, <1>7, <1>8, JobFacts, JobStep

-----------------------------------------------------------------------------
(* The steps of a PDP process.                                             *)

\* The types of what a process is doing.
LEMMA ProcessFacts ==
  ASSUME IInv, NEW r \in Replicas
  PROVE  /\ TypeOK /\ VersionsOK /\ ReplicaOK(r) /\ SaidOK(r)
         /\ replica[r] \in Processes /\ said[r].allow \in BOOLEAN
         /\ floor[r] \in 0 .. MaxVersions /\ floor[r] <= Len(versions)
         /\ acked \in 0 .. MaxVersions /\ acked <= Len(versions)
         /\ Len(versions) \in 0 .. MaxVersions /\ MaxVersions \in Nat
         /\ Down \in Processes
<1>1. TypeOK /\ VersionsOK
  BY DEF IInv
<1>2. Down \in Processes
  BY <1>1, VersionFacts DEF Down, Processes, Policies
<1>3. QED
  BY <1>1, <1>2, VersionFacts DEF IInv, TypeOK, VersionsOK, Processes

\* One process changes, and its answer and floor with it at most.
LEMMA BecomeStep ==
  ASSUME IInv, NEW r \in Replicas, NEW p \in Processes,
         NEW v, NEW f \in 0 .. MaxVersions,
         replica' = [replica EXCEPT ![r] = p],
         floor' = [floor EXCEPT ![r] = f], f <= Len(versions),
         said' = [said EXCEPT ![r] = v], v.allow \in BOOLEAN,
         UNCHANGED <<storeVars, job, runs, acked>>,
         ReplicaOK(r)', SaidOK(r)'
  PROVE  IInv'
<1>1. TypeOK /\ VersionsOK
  BY DEF IInv
<1>2. replica \in [Replicas -> Processes] /\ floor \in [Replicas -> 0 .. MaxVersions]
  BY <1>1 DEF TypeOK, Processes
<1>3. said = [q \in Replicas |-> said[q]]
  BY DEF IInv
<1>4. /\ replica' \in [Replicas -> Processes] /\ floor' \in [Replicas -> 0 .. MaxVersions]
      /\ replica'[r] = p /\ floor'[r] = f
      /\ \A q \in Replicas \ {r} : replica'[q] = replica[q] /\ floor'[q] = floor[q]
  BY <1>2
<1>5. /\ said' = [q \in Replicas |-> said'[q]] /\ said'[r] = v
      /\ \A q \in Replicas \ {r} : said'[q] = said[q]
  BY <1>3, Zenon
<1>6. versions' = versions /\ bucket' = bucket /\ UNCHANGED <<job, runs, acked>>
  BY DEF storeVars
<1>7. TypeOK'
  <2>1. \A q \in Replicas : said'[q].allow \in BOOLEAN
    BY <1>1, <1>5 DEF TypeOK
  <2>2. QED
    BY <1>1, <1>4, <1>6, <2>1 DEF TypeOK, Processes
<1>8. VersionsOK'
  <2>1. \A q \in Replicas : floor'[q] <= Len(versions)
    BY <1>1, <1>4 DEF VersionsOK
  <2>2. QED
    BY <1>1, <1>6, <2>1 DEF VersionsOK, JobOK
<1>9. ASSUME NEW q \in Replicas PROVE ReplicaOK(q)' /\ SaidOK(q)'
  <2>1. CASE q = r
    BY <2>1
  <2>2. CASE q # r
    <3>1. Grown
      BY <1>6 DEF Grown
    <3>2. QED
      BY <1>4, <1>5, <2>2, <3>1, ReplicaFrame DEF IInv
  <2>3. QED
    BY <2>1, <2>2
<1>10. QED
  BY <1>5, <1>7, <1>8, <1>9 DEF IInv

\* A process that starts pulls the bundle, or builds from the embedded policy.
LEMMA StartStep ==
  ASSUME IInv, NEW r \in Replicas, Start(r)
  PROVE  IInv'
<1>1. PICK p : p = [Down EXCEPT !.st = IF r \in Stored THEN "pull" ELSE "build"]
  OBVIOUS
<1>2. /\ p.st = IF r \in Stored THEN "pull" ELSE "build"
      /\ p.version = 0 /\ p.bundle = Embedded /\ p.grpc = FALSE /\ p \in Processes
  BY <1>1, ProcessFacts DEF Down, Processes
<1>3. PICK f : f = IF r \in Stored THEN Larger(floor[r], acked) ELSE 0
  OBVIOUS
<1>4. f \in 0 .. MaxVersions /\ f <= Len(versions)
  BY <1>3, ProcessFacts DEF Larger
<1>5. /\ replica' = [replica EXCEPT ![r] = p] /\ floor' = [floor EXCEPT ![r] = f]
      /\ said' = [said EXCEPT ![r] = said[r]] /\ said[r].allow = FALSE
      /\ UNCHANGED <<storeVars, job, runs, acked>>
  <2>1. /\ replica' = [replica EXCEPT ![r] = p] /\ floor' = [floor EXCEPT ![r] = f]
        /\ said' = said /\ UNCHANGED <<storeVars, job, runs, acked>>
    BY <1>1, <1>3 DEF Start, Become
  <2>2. said = [said EXCEPT ![r] = said[r]]
    BY Zenon DEF IInv
  <2>3. said[r].allow = FALSE
    <3>1. replica[r].st = "down"
      BY DEF Start, Down
    <3>2. QED
      BY <3>1, ProcessFacts DEF SaidOK
  <2>4. QED
    BY <2>1, <2>2, <2>3
<1>6. replica'[r] = p /\ said'[r] = said[r]
  BY <1>5, ProcessFacts DEF IInv, TypeOK
<1>7. ReplicaOK(r)'
  BY <1>2, <1>6 DEF ReplicaOK, Built
<1>8. SaidOK(r)'
  BY <1>5, <1>6 DEF SaidOK
<1>9. QED
  BY <1>2, <1>4, <1>5, <1>7, <1>8, ProcessFacts, BecomeStep

\* A process pulls the newest version.
LEMMA PullStep ==
  ASSUME IInv, NEW r \in Replicas, Pull(r)
  PROVE  IInv'
<1>1. /\ TypeOK /\ versions # <<>> /\ Len(versions) \in DOMAIN versions
      /\ Len(versions) \in 0 .. MaxVersions /\ versions[Len(versions)] \in Policies
  BY ProcessFacts, VersionFacts DEF Pull, Policies
<1>2. PICK n \in 0 .. MaxVersions : n = Len(versions)
  BY <1>1
<1>3. PICK b \in Policies : b = versions[n]
  BY <1>1, <1>2
<1>4. PICK p : p = [replica[r] EXCEPT !.st = "build", !.version = n, !.bundle = b]
  OBVIOUS
<1>5. p \in Processes /\ p.st = "build" /\ p.version = n /\ p.bundle = b
  BY <1>4, ProcessFacts DEF Processes
<1>6. /\ replica' = [replica EXCEPT ![r] = p] /\ floor' = floor /\ said' = said
      /\ UNCHANGED <<storeVars, job, runs, acked>> /\ versions' = versions
  BY <1>2, <1>3, <1>4 DEF Pull, Become, LatestVersion, storeVars
<1>7. /\ floor' = [floor EXCEPT ![r] = floor[r]] /\ said' = [said EXCEPT ![r] = said[r]]
      /\ replica'[r] = p /\ said'[r] = said[r] /\ floor'[r] = floor[r]
  <2>1. said = [said EXCEPT ![r] = said[r]]
    BY Zenon DEF IInv
  <2>2. replica \in [Replicas -> Processes] /\ floor \in [Replicas -> 0 .. MaxVersions]
    BY <1>1 DEF TypeOK, Processes
  <2>3. QED
    BY <1>6, <2>1, <2>2
<1>8. ReplicaOK(r)'
  <2>1. r \in Stored
    BY ProcessFacts DEF Pull, ReplicaOK
  <2>2. n >= floor[r]
    BY <1>2, ProcessFacts
  <2>3. QED
    BY <1>1, <1>2, <1>3, <1>5, <1>6, <1>7, <2>1, <2>2 DEF ReplicaOK, Built
<1>9. SaidOK(r)' /\ said[r].allow \in BOOLEAN
  BY <1>7, ProcessFacts DEF SaidOK, Pull
<1>10. QED
  BY <1>5, <1>6, <1>7, <1>8, <1>9, ProcessFacts, BecomeStep

\* An engine is built from the bundle, or from the embedded policy for an empty one.
LEMMA BuildStep ==
  ASSUME IInv, NEW r \in Replicas, Build(r)
  PROVE  IInv'
<1>1. PICK q : q = replica[r]
  OBVIOUS
<1>2. /\ TypeOK /\ ReplicaOK(r) /\ SaidOK(r) /\ q \in Processes /\ q.st = "build"
      /\ q.bundle \in Policies
  BY <1>1, ProcessFacts DEF Build, Processes
<1>3. PICK b : b = PolicyOf(q.bundle)
  OBVIOUS
<1>4. b.kind \in {"good", "embedded", "undefined", "odd"} /\ b \in Policies
  BY <1>1, <1>2, <1>3, BuiltKinds DEF Build
<1>5. PICK p : p = [q EXCEPT !.st = "listen", !.bundle = b]
  OBVIOUS
<1>6. p \in Processes /\ p.st = "listen" /\ p.version = q.version /\ p.bundle = b
  BY <1>2, <1>4, <1>5 DEF Processes
<1>7. /\ replica' = [replica EXCEPT ![r] = p] /\ floor' = floor /\ said' = said
      /\ UNCHANGED <<storeVars, job, runs, acked>> /\ versions' = versions
  BY <1>1, <1>3, <1>5 DEF Build, Become, storeVars
<1>8. /\ floor' = [floor EXCEPT ![r] = floor[r]] /\ said' = [said EXCEPT ![r] = said[r]]
      /\ replica'[r] = p /\ said'[r] = said[r] /\ floor'[r] = floor[r]
  <2>1. said = [said EXCEPT ![r] = said[r]]
    BY Zenon DEF IInv
  <2>2. replica \in [Replicas -> Processes] /\ floor \in [Replicas -> 0 .. MaxVersions]
    BY <1>2 DEF TypeOK, Processes
  <2>3. QED
    BY <1>7, <2>1, <2>2
<1>9. ReplicaOK(r)'
  <2>1. r \notin Stored => b = Embedded
    BY <1>1, <1>2, <1>3 DEF ReplicaOK, PolicyOf
  <2>2. r \in Stored => b = PolicyOf(versions[q.version])
    BY <1>1, <1>2, <1>3 DEF ReplicaOK
  <2>3. QED
    BY <1>1, <1>2, <1>4, <1>6, <1>7, <1>8, <2>1, <2>2 DEF ReplicaOK, Built
<1>10. SaidOK(r)' /\ said[r].allow \in BOOLEAN
  BY <1>1, <1>2, <1>8, ProcessFacts DEF SaidOK
<1>11. QED
  BY <1>6, <1>7, <1>8, <1>9, <1>10, ProcessFacts, BecomeStep

\* The listeners are opened: from now on the process answers.
LEMMA ListenStep ==
  ASSUME IInv, NEW r \in Replicas, Listen(r)
  PROVE  IInv'
<1>1. PICK q : q = replica[r]
  OBVIOUS
<1>2. /\ TypeOK /\ ReplicaOK(r) /\ SaidOK(r) /\ q \in Processes /\ q.st = "listen"
      /\ q.version \in 0 .. MaxVersions
  BY <1>1, ProcessFacts DEF Listen, Processes
<1>3. PICK p : /\ replica' = [replica EXCEPT ![r] = p]
               /\ \E grpc \in BOOLEAN : p = [q EXCEPT !.st = "serve", !.grpc = grpc]
  BY <1>1 DEF Listen, Become
<1>4. p \in Processes /\ p.st = "serve" /\ p.version = q.version /\ p.bundle = q.bundle
  BY <1>2, <1>3 DEF Processes
<1>5. /\ floor' = [floor EXCEPT ![r] = q.version] /\ said' = said
      /\ UNCHANGED <<storeVars, job, runs, acked>> /\ versions' = versions
  BY <1>1 DEF Listen, Become, storeVars
<1>6. /\ said' = [said EXCEPT ![r] = said[r]]
      /\ replica'[r] = p /\ said'[r] = said[r] /\ floor'[r] = q.version
  <2>1. said = [said EXCEPT ![r] = said[r]]
    BY Zenon DEF IInv
  <2>2. replica \in [Replicas -> Processes] /\ floor \in [Replicas -> 0 .. MaxVersions]
    BY <1>2 DEF TypeOK, Processes
  <2>3. QED
    BY <1>3, <1>5, <2>1, <2>2
<1>7. q.version <= Len(versions)
  <2>1. CASE r \in Stored
    BY <1>1, <1>2, <2>1, VersionFacts DEF ReplicaOK, Built
  <2>2. CASE r \notin Stored
    BY <1>1, <1>2, <2>2, VersionFacts DEF ReplicaOK
  <2>3. QED
    BY <2>1, <2>2
<1>8. ReplicaOK(r)'
  BY <1>1, <1>2, <1>4, <1>5, <1>6 DEF ReplicaOK, Built
<1>9. SaidOK(r)' /\ said[r].allow \in BOOLEAN
  BY <1>1, <1>2, <1>6, ProcessFacts DEF SaidOK
<1>10. QED
  BY <1>2, <1>3, <1>4, <1>5, <1>6, <1>7, <1>8, <1>9, BecomeStep

\* The gRPC server ends; what the process decides by stays.
LEMMA GRPCDiesStep ==
  ASSUME IInv, NEW r \in Replicas, GRPCDies(r)
  PROVE  IInv'
<1>1. PICK q : q = replica[r]
  OBVIOUS
<1>2. TypeOK /\ ReplicaOK(r) /\ SaidOK(r) /\ q \in Processes
  BY <1>1, ProcessFacts
<1>3. PICK p : p = [q EXCEPT !.grpc = FALSE]
  OBVIOUS
<1>4. p \in Processes /\ p.st = q.st /\ p.version = q.version /\ p.bundle = q.bundle
  BY <1>2, <1>3 DEF Processes
<1>5. /\ replica' = [replica EXCEPT ![r] = p] /\ floor' = floor /\ said' = said
      /\ UNCHANGED <<storeVars, job, runs, acked>> /\ versions' = versions
  BY <1>1, <1>3 DEF GRPCDies, Become, storeVars
<1>6. /\ floor' = [floor EXCEPT ![r] = floor[r]] /\ said' = [said EXCEPT ![r] = said[r]]
      /\ replica'[r] = p /\ said'[r] = said[r] /\ floor'[r] = floor[r]
  <2>1. said = [said EXCEPT ![r] = said[r]]
    BY Zenon DEF IInv
  <2>2. replica \in [Replicas -> Processes] /\ floor \in [Replicas -> 0 .. MaxVersions]
    BY <1>2 DEF TypeOK, Processes
  <2>3. QED
    BY <1>5, <2>1, <2>2
<1>7. ReplicaOK(r)'
  BY <1>1, <1>2, <1>4, <1>5, <1>6 DEF ReplicaOK, Built
<1>8. SaidOK(r)' /\ said[r].allow \in BOOLEAN
  BY <1>1, <1>2, <1>4, <1>6, ProcessFacts DEF SaidOK
<1>9. QED
  BY <1>4, <1>5, <1>6, <1>7, <1>8, ProcessFacts, BecomeStep

\* A process that ends forgets everything.
LEMMA ExitStep ==
  ASSUME IInv, NEW r \in Replicas, Exit(r)
  PROVE  IInv'
<1>1. TypeOK
  BY ProcessFacts
<1>2. /\ replica' = [replica EXCEPT ![r] = Down] /\ floor' = floor
      /\ said' = [said EXCEPT ![r] = Nothing]
      /\ UNCHANGED <<storeVars, job, runs, acked>> /\ versions' = versions
  BY DEF Exit, Become, storeVars
<1>3. /\ floor' = [floor EXCEPT ![r] = floor[r]]
      /\ replica'[r] = Down /\ said'[r] = Nothing /\ floor'[r] = floor[r]
  <2>1. said'[r] = Nothing
    <3>1. said = [q \in Replicas |-> said[q]]
      BY DEF IInv
    <3>2. QED
      BY <1>2, <3>1, Zenon
  <2>2. replica \in [Replicas -> Processes] /\ floor \in [Replicas -> 0 .. MaxVersions]
    BY <1>1 DEF TypeOK, Processes
  <2>3. QED
    BY <1>2, <2>1, <2>2
<1>4. Down.st = "down" /\ Down.version = 0 /\ Down.bundle = Embedded
  BY DEF Down
<1>5. Nothing.allow = FALSE
  BY DEF Nothing
<1>6. ReplicaOK(r)'
  BY <1>3, <1>4 DEF ReplicaOK, Built
<1>7. SaidOK(r)' /\ Nothing.allow \in BOOLEAN
  BY <1>3, <1>5 DEF SaidOK
<1>8. QED
  BY <1>2, <1>3, <1>6, <1>7, ProcessFacts, BecomeStep

\* An answer is what the policy in force decides.
LEMMA DecideStep ==
  ASSUME IInv, NEW r \in Replicas, Decide(r)
  PROVE  IInv'
<1>1. PICK q : q = replica[r]
  OBVIOUS
<1>2. /\ TypeOK /\ ReplicaOK(r) /\ q \in Processes /\ q.st = "serve"
      /\ q.bundle \in Policies /\ q.bundle.kind \in {"good", "embedded", "undefined", "odd"}
  BY <1>1, ProcessFacts DEF Decide, Processes, ReplicaOK, Built
<1>3. PICK v \in Verdicts(q.bundle) : said' = [said EXCEPT ![r] = v]
  BY <1>1 DEF Decide
<1>4. /\ replica' = [replica EXCEPT ![r] = q] /\ floor' = [floor EXCEPT ![r] = floor[r]]
      /\ UNCHANGED <<storeVars, job, runs, acked, replica, floor>> /\ versions' = versions
  <2>1. replica \in [Replicas -> Processes] /\ floor \in [Replicas -> 0 .. MaxVersions]
    BY <1>2 DEF TypeOK, Processes
  <2>2. QED
    BY <1>1, <2>1 DEF Decide, storeVars
<1>5. said'[r] = v
  <2>1. said = [p \in Replicas |-> said[p]]
    BY DEF IInv
  <2>2. QED
    BY <1>3, <2>1, Zenon
<1>6. v.allow \in BOOLEAN /\ (v.allow => q.bundle = Bundle(v.reason, "good"))
  BY <1>2, AllowingVerdict
<1>7. v.allow => r \in Stored
  <2>1. Embedded # Bundle(v.reason, "good")
    BY DEF Embedded, Bundle
  <2>2. QED
    BY <1>1, <1>2, <1>6, <2>1 DEF ReplicaOK
<1>8. SaidOK(r)'
  BY <1>1, <1>2, <1>4, <1>5, <1>6, <1>7 DEF SaidOK
<1>9. ReplicaOK(r)'
  BY <1>2, <1>4 DEF ReplicaOK
<1>10. QED
  BY <1>2, <1>3, <1>4, <1>6, <1>8, <1>9, ProcessFacts, BecomeStep

-----------------------------------------------------------------------------
(* The invariant.                                                          *)

LEMMA InitIInv == Init => IInv
<1> SUFFICES ASSUME Init PROVE IInv
  OBVIOUS
<1>1. /\ Embedded \in Policies /\ Down.st = "down" /\ Down.version = 0
      /\ Down.bundle = Embedded /\ Down.grpc = FALSE
      /\ Idle.step = "idle" /\ Idle.version = 0 /\ Idle.file = Embedded
      /\ Nothing.allow = FALSE
  BY DEF Policies, Down, Idle, Nothing
<1>2. MaxVersions \in Nat /\ MaxRuns \in Nat /\ Buckets \subseteq {"absent", "plain", "locked"}
  BY BundlesAssumption
<1>3. versions \in Seq(Bundles) /\ Len(versions) = 0
  BY DEF Init
<1>4. Idle \in Jobs /\ Down \in Processes
  BY <1>1, <1>2 DEF Jobs, Processes, Idle, Down
<1>5. TypeOK
  <2>1. /\ bucket \in {"absent", "plain", "locked"}
        /\ versions \in Seq(Bundles) /\ Len(versions) <= MaxVersions
    BY <1>2, <1>3 DEF Init
  <2>2. job \in [Publishers -> Jobs] /\ replica \in [Replicas -> Processes]
    BY <1>4 DEF Init
  <2>3. /\ runs \in 0 .. MaxRuns /\ acked \in 0 .. MaxVersions
        /\ floor \in [Replicas -> 0 .. MaxVersions]
    BY <1>2 DEF Init
  <2>4. \A r \in Replicas : said[r].allow \in BOOLEAN
    BY <1>1 DEF Init
  <2>5. QED
    BY <2>1, <2>2, <2>3, <2>4 DEF TypeOK, Jobs, Processes
<1>6. VersionsOK
  BY <1>1, <1>3 DEF Init, VersionsOK, JobOK
<1>7. \A r \in Replicas : ReplicaOK(r) /\ SaidOK(r)
  BY <1>1 DEF Init, ReplicaOK, SaidOK, Built
<1>8. said = [r \in Replicas |-> said[r]]
  BY Zenon DEF Init
<1>9. QED
  BY <1>5, <1>6, <1>7, <1>8 DEF IInv

LEMMA NextIInv == IInv /\ [Next]_vars => IInv'
<1> SUFFICES ASSUME IInv, [Next]_vars PROVE IInv'
  OBVIOUS
<1>1. CASE UNCHANGED vars
  BY <1>1 DEF vars, IInv, TypeOK, VersionsOK, JobOK, ReplicaOK, SaidOK
<1>2. ASSUME NEW p \in Publishers,
             Push(p) \/ BucketExists(p) \/ MakeBucket(p) \/ Fail(p) \/ ExitZero(p)
      PROVE  IInv'
  BY <1>2, RunStep
<1>3. ASSUME NEW p \in Publishers, PutObject(p) PROVE IInv'
  BY <1>3, PutStep
<1>4. ASSUME NEW r \in Replicas, Start(r) PROVE IInv'
  BY <1>4, StartStep
<1>5. ASSUME NEW r \in Replicas, Pull(r) PROVE IInv'
  BY <1>5, PullStep
<1>6. ASSUME NEW r \in Replicas, Build(r) PROVE IInv'
  BY <1>6, BuildStep
<1>7. ASSUME NEW r \in Replicas, Listen(r) PROVE IInv'
  BY <1>7, ListenStep
<1>8. ASSUME NEW r \in Replicas, GRPCDies(r) PROVE IInv'
  BY <1>8, GRPCDiesStep
<1>9. ASSUME NEW r \in Replicas, Exit(r) PROVE IInv'
  BY <1>9, ExitStep
<1>10. ASSUME NEW r \in Replicas, Decide(r) PROVE IInv'
  BY <1>10, DecideStep
<1>11. QED
  BY <1>1, <1>2, <1>3, <1>4, <1>5, <1>6, <1>7, <1>8, <1>9, <1>10 DEF Next

\* Whatever pipelines and processes do, the runs claim only versions that the store
\* has, and a process holds exactly what it pulled, or what it built from it.
THEOREM BundlesInvariant == Spec => []IInv
<1>1. Init => IInv
  BY InitIInv
<1>2. IInv /\ [Next]_vars => IInv'
  BY NextIInv
<1>3. QED
  BY <1>1, <1>2, PTL DEF Spec

-----------------------------------------------------------------------------
(* The properties.                                                         *)

\* Type correctness of bundlepush, the store and the PDP processes.
THEOREM TypeCorrect == Spec => []TypeOK
<1>1. IInv => TypeOK
  BY DEF IInv
<1>2. QED
  BY <1>1, BundlesInvariant, PTL

\* bundlepush exits 0 only for a bundle that is in the store, and a PDP process
\* never starts on a version older than that, or than the one it ran before.
THEOREM NeverGoesBehind == Spec => []NeverBehind
<1>1. IInv => NeverBehind
  <2> SUFFICES ASSUME IInv PROVE NeverBehind
    OBVIOUS
  <2>1. acked <= Len(versions) /\ Stored \subseteq Replicas
    BY BundlesAssumption DEF IInv, VersionsOK
  <2>2. ASSUME NEW r \in Stored, replica[r].st \in {"build", "listen", "serve"}
        PROVE  replica[r].version >= floor[r] /\ replica[r].version \in DOMAIN versions
    BY <2>1, <2>2 DEF IInv, ReplicaOK, Built
  <2>3. QED
    BY <2>1, <2>2 DEF NeverBehind
<1>2. QED
  BY <1>1, BundlesInvariant, PTL

\* A PDP process decides by the bundle it pulled, or by the embedded policy when the
\* object was empty (NewPDPService).
THEOREM AlwaysRunsWhatItPulled == Spec => []RunsWhatItPulled
<1>1. IInv => RunsWhatItPulled
  <2> SUFFICES ASSUME IInv, NEW r \in Stored, replica[r].st = "serve"
               PROVE  \/ replica[r].bundle = versions[replica[r].version]
                      \/ /\ replica[r].bundle = Embedded
                         /\ versions[replica[r].version].kind = "empty"
    BY DEF RunsWhatItPulled
  <2>1. r \in Replicas
    BY BundlesAssumption
  <2>2. replica[r].bundle = PolicyOf(versions[replica[r].version])
    BY <2>1 DEF IInv, ReplicaOK, Built
  <2>3. QED
    BY <2>2 DEF PolicyOf
<1>2. QED
  BY <1>1, BundlesInvariant, PTL

\* Only a good bundle that CI stored ever allows (Engine.Eval): not the embedded
\* policy, nor one without the entry point.
THEOREM AlwaysAllowsByPolicyOnly == Spec => []AllowsByPolicyOnly
<1>1. IInv => AllowsByPolicyOnly
  <2> SUFFICES ASSUME IInv, NEW r \in Replicas, said[r].allow
               PROVE  /\ r \in Stored
                      /\ versions[replica[r].version] = Bundle(said[r].reason, "good")
    BY DEF AllowsByPolicyOnly
  <2>1. /\ r \in Stored /\ replica[r].st = "serve"
        /\ replica[r].bundle = Bundle(said[r].reason, "good")
    BY DEF IInv, SaidOK
  <2>2. replica[r].bundle = PolicyOf(versions[replica[r].version])
    BY <2>1 DEF IInv, ReplicaOK, Built
  <2>3. Embedded # Bundle(said[r].reason, "good")
    BY DEF Embedded, Bundle
  <2>4. QED
    BY <2>1, <2>2, <2>3 DEF PolicyOf
<1>2. QED
  BY <1>1, BundlesInvariant, PTL

\* No step, of whatever pipeline, against whatever bucket it found, changes or drops
\* a version that was stored (PutBundle).
THEOREM PublishedAlwaysStays == Spec => PublishedStays
<1>1. IInv /\ [Next]_vars =>
        [\A i \in DOMAIN versions : i \in DOMAIN versions' /\ versions'[i] = versions[i]]_vars
  <2> SUFFICES ASSUME IInv, [Next]_vars PROVE Grown
    BY DEF Grown
  <2>1. CASE versions' = versions
    BY <2>1 DEF Grown
  <2>2. ASSUME NEW p \in Publishers, PutObject(p) PROVE Grown
    <3>1. /\ Len(versions) < MaxVersions /\ versions' = Append(versions, job[p].file)
          /\ job[p].step = "put"
      BY <2>2 DEF PutObject, Stores
    <3>2. TypeOK /\ job[p].file \in Bundles
      BY <3>1, JobFacts DEF IInv, JobOK
    <3>3. QED
      BY <3>1, <3>2, StoreGrows
  <2>3. CASE \A p \in Publishers : ~PutObject(p)
    <3>1. versions' = versions
      BY <2>3 DEF Next, vars, storeVars, Continue, Push, BucketExists, MakeBucket, Fail,
                  ExitZero, Become, Start, Pull, Build, Listen, GRPCDies, Exit, Decide
    <3>2. QED
      BY <2>1, <3>1
  <2>4. QED
    BY <2>2, <2>3
<1>2. QED
  BY <1>1, BundlesInvariant, PTL DEF Spec, PublishedStays
=============================================================================
