-------------------------- MODULE Transfer_proofs --------------------------
(***************************************************************************)
(* Proofs about Transfer, for any registries, jobs and number of workers.  *)
(***************************************************************************)
EXTENDS Transfer, SequenceTheorems, TLAPS

USE DEF vars, registries, bounds

\* What a job in state r relies on: the blobs D of the destination and the manifests P
\* that the tags have had.
Relies(r, D, P) ==
  /\ \A b \in Blobs : r.exist[b] = "yes" => b \in D
  /\ r.state = "transfer_blob" => Layers[r.manifest] \cup Config[r.manifest] \subseteq D \cup r.blobs
  /\ r.state \in {"push_manifest", "compare", "push"} =>
       Layers[r.manifest] \cup Config[r.manifest] \subseteq D
  /\ r.state \in WithManifest => r.manifest \in P[Head(r.tags)]

\* The part of the type invariant about one job.
JobTyped(r) ==
  /\ r \in JobState
  /\ r.state \in WithManifest => r.tags # <<>> /\ r.manifest \in Manifests

\* The inductive invariant: blobs that were found or transferred are there, and a manifest
\* under way is one its tag has had.
IInv ==
  /\ TypeOK
  /\ \A t \in Tags : src[t] # NoManifest => src[t] \in past[t]
  /\ \A j \in Jobs : Relies(job[j], dstBlobs, past)

-----------------------------------------------------------------------------
\* Blobs and history only grow, and so no job loses what it relies on.
LEMMA ReliesMore ==
  ASSUME NEW D \in SUBSET Blobs, NEW E \in SUBSET Blobs, D \subseteq E,
         NEW P \in [Tags -> SUBSET Manifests], NEW Q \in [Tags -> SUBSET Manifests],
         \A t \in Tags : P[t] \subseteq Q[t],
         NEW r, JobTyped(r), Relies(r, D, P)
  PROVE  Relies(r, E, Q)
<1>1. r.state \in WithManifest => Head(r.tags) \in Tags
  BY HeadTailProperties DEF JobTyped, JobState
<1> QED
  BY <1>1 DEF Relies

\* A step that gives job j a new state r, and adds to blobs and history at most.
LEMMA JobStep ==
  ASSUME IInv, NEW j \in Jobs, NEW r, job' = [job EXCEPT ![j] = r],
         JobTyped(r), Relies(r, dstBlobs', past'),
         src' \in Contents, dst' \in Contents,
         dstBlobs' \in SUBSET Blobs, dstBlobs \subseteq dstBlobs',
         past' \in [Tags -> SUBSET Manifests], \A t \in Tags : past[t] \subseteq past'[t],
         \A t \in Tags : src'[t] # NoManifest => src'[t] \in past'[t],
         enabled' \in BOOLEAN,
         netErrors' \in 0..MaxNetErrors, failures' \in 0..MaxFailures,
         overlap' \in BOOLEAN
  PROVE  IInv'
<1>1. job' \in [Jobs -> JobState]
  BY DEF IInv, TypeOK, JobTyped
<1>2. ASSUME NEW i \in Jobs
      PROVE  JobTyped(job'[i]) /\ Relies(job'[i], dstBlobs', past')
  <2>1. CASE i = j
    BY <2>1 DEF IInv, TypeOK
  <2>2. CASE i # j
    <3>1. job'[i] = job[i]
      BY <2>2 DEF IInv, TypeOK
    <3>2. JobTyped(job[i]) /\ Relies(job[i], dstBlobs, past)
      BY DEF IInv, TypeOK, JobTyped
    <3> QED
      BY <3>1, <3>2, ReliesMore DEF IInv, TypeOK
  <2> QED
    BY <2>1, <2>2
<1> QED
  BY <1>1, <1>2 DEF IInv, TypeOK, JobTyped

\* The case of a step that leaves the registries alone.
LEMMA LocalStep ==
  ASSUME IInv, NEW j \in Jobs, NEW r, job' = [job EXCEPT ![j] = r],
         JobTyped(r), Relies(r, dstBlobs, past), UNCHANGED registries,
         enabled' \in BOOLEAN,
         netErrors' \in 0..MaxNetErrors, failures' \in 0..MaxFailures,
         overlap' \in BOOLEAN
  PROVE  IInv'
BY JobStep DEF IInv, TypeOK

\* A job that ends or is put off relies on nothing new.
LEMMA Dropped ==
  ASSUME IInv, NEW j \in Jobs, NEW s \in {"waiting", "error", "finished", "pull_manifest"}
  PROVE  LET r == [job[j] EXCEPT !.state = s]
         IN  JobTyped(r) /\ Relies(r, dstBlobs, past)
BY ZenonT(60) DEF IInv, TypeOK, JobTyped, JobState, Relies, WithManifest, Working, Ended

\* Errors keep their bounds.
LEMMA Bounds ==
  ASSUME IInv, NEW j \in Jobs, NetError(j) \/ Failure(j)
  PROVE  /\ netErrors' \in 0..MaxNetErrors /\ failures' \in 0..MaxFailures
         /\ overlap' \in BOOLEAN
BY TransferAssumption DEF IInv, TypeOK, NetError, Failure

-----------------------------------------------------------------------------
(***************************************************************************)
(* The invariant holds.                                                    *)
(***************************************************************************)
LEMMA InitHolds == Init => IInv
<1> SUFFICES ASSUME Init PROVE IInv
  OBVIOUS
<1>1. JobTyped(NewJob) /\ Relies(NewJob, dstBlobs, past)
  BY DEF NewJob, JobTyped, JobState, Relies, WithManifest, Working, Ended
<1>2. \A j \in Jobs : job[j] = NewJob
  BY DEF Init
<1>3. netErrors \in 0..MaxNetErrors /\ failures \in 0..MaxFailures
  BY TransferAssumption DEF Init
<1>4. /\ src \in Contents /\ dst \in Contents
      /\ dstBlobs \in SUBSET Blobs
      /\ past \in [Tags -> SUBSET Manifests]
      /\ enabled \in BOOLEAN /\ overlap \in BOOLEAN
      /\ \A t \in Tags : src[t] = NoManifest
  BY DEF Init, Contents
<1>5. job \in [Jobs -> JobState]
  BY <1>1 DEF Init, JobTyped
<1> QED
  BY <1>1, <1>2, <1>3, <1>4, <1>5 DEF IInv, TypeOK, JobTyped

\* Steps of users and triggers.
LEMMA UserStepKeeps ==
  ASSUME IInv, NEW j \in Jobs,
         \/ \E t \in Tags, m \in Manifests : Push(t, m, j)
         \/ \E t \in Tags : FindDigest(t, j)
         \/ DeleteManifest(j) \/ Enable(j) \/ Trigger(j) \/ Start(j)
  PROVE  IInv'
<1> <<>> \in Seq(Tags)
  OBVIOUS
<1>0. /\ netErrors \in 0..MaxNetErrors /\ failures \in 0..MaxFailures
      /\ enabled \in BOOLEAN /\ overlap \in BOOLEAN
  BY DEF IInv, TypeOK
<1>1. ASSUME NEW t \in Tags, NEW m \in Manifests, Push(t, m, j)
      PROVE  IInv'
  <2> DEFINE r == [NewJob EXCEPT !.state = "triggered", !.want = <<t>>]
  <2>0. <<t>> \in Seq(Tags)
    OBVIOUS
  <2>1. JobTyped(r) /\ Relies(r, dstBlobs', past')
    BY <2>0 DEF NewJob, JobTyped, JobState, Relies, WithManifest, Working, Ended
  <2>2. /\ src' \in Contents
        /\ past' \in [Tags -> SUBSET Manifests]
        /\ \A u \in Tags : past[u] \subseteq past'[u]
        /\ \A u \in Tags : src'[u] # NoManifest => src'[u] \in past'[u]
    BY <1>1 DEF Push, IInv, TypeOK, Contents
  <2>3. job' = [job EXCEPT ![j] = r]
    BY <1>1 DEF Push, Become
  <2> HIDE DEF r
  <2> QED
    BY <1>0, <1>1, <2>1, <2>2, <2>3, JobStep DEF Push, IInv, TypeOK
<1>2. ASSUME NEW t \in Tags, FindDigest(t, j)
      PROVE  IInv'
  <2> DEFINE r == [NewJob EXCEPT !.state = IF src[t] = NoManifest THEN "triggered" ELSE "removing",
                                 !.op = "delete", !.want = <<t>>, !.manifest = src[t]]
  <2>0. <<t>> \in Seq(Tags) /\ src[t] \in Manifests \cup {NoManifest}
    BY DEF IInv, TypeOK, Contents
  <2>1. JobTyped(r) /\ Relies(r, dstBlobs, past)
    BY <2>0 DEF NewJob, JobTyped, JobState, Relies, WithManifest, Working, Ended
  <2>2. job' = [job EXCEPT ![j] = r]
    BY <1>2 DEF FindDigest, Become
  <2> HIDE DEF r
  <2> QED
    BY <1>0, <1>2, <2>1, <2>2, LocalStep DEF FindDigest
<1>3. CASE DeleteManifest(j)
  <2>1. PICK r : /\ JobTyped(r) /\ Relies(r, dstBlobs', past')
                 /\ job' = [job EXCEPT ![j] = r]
    <3> DEFINE q == [job[j] EXCEPT !.state = "triggered", !.manifest = NoManifest]
    <3>1. JobTyped(q) /\ Relies(q, dstBlobs', past')
      BY ZenonT(60), <1>3 DEF DeleteManifest, JobTyped, JobState, Relies, WithManifest, Working,
                              Ended, IInv, TypeOK
    <3>2. JobTyped(NewJob) /\ Relies(NewJob, dstBlobs', past')
      BY DEF NewJob, JobTyped, JobState, Relies, WithManifest, Working, Ended
    <3>3. job' = [job EXCEPT ![j] = q] \/ job' = [job EXCEPT ![j] = NewJob]
      BY <1>3 DEF DeleteManifest, Become
    <3> HIDE DEF q
    <3> QED
      BY <3>1, <3>2, <3>3
  <2>3. /\ src' \in Contents
        /\ \A u \in Tags : src'[u] # NoManifest => src'[u] \in past[u]
    BY <1>3 DEF DeleteManifest, Without, IInv, TypeOK, Contents
  <2> QED
    BY <1>0, <1>3, <2>1, <2>3, JobStep DEF DeleteManifest, IInv, TypeOK
<1>4. CASE Enable(j)
  <2> DEFINE r == [NewJob EXCEPT !.state = "triggered"]
  <2>1. JobTyped(r) /\ Relies(r, dstBlobs, past)
    BY DEF NewJob, JobTyped, JobState, Relies, WithManifest, Working, Ended
  <2>2. job' = [job EXCEPT ![j] = r]
    BY <1>4 DEF Enable, Become
  <2> HIDE DEF r
  <2> QED
    BY <1>0, <1>4, <2>1, <2>2, LocalStep DEF Enable
<1>5. CASE Trigger(j)
  <2>1. CASE Goto(j, "waiting") /\ UNCHANGED bounds
    BY <1>0, <1>5, <2>1, Dropped, LocalStep DEF Trigger, Goto, Become
  <2>2. CASE Become(j, NewJob) /\ UNCHANGED bounds
    <3>1. JobTyped(NewJob) /\ Relies(NewJob, dstBlobs, past)
      BY DEF NewJob, JobTyped, JobState, Relies, WithManifest, Working, Ended
    <3> QED
      BY <1>0, <1>5, <2>2, <3>1, LocalStep DEF Trigger, Become
  <2>3. CASE Failure(j)
    BY <1>0, <1>5, <2>3, Bounds, Dropped, LocalStep DEF Trigger, Failure, Goto, Become
  <2> QED
    BY <1>5, <2>1, <2>2, <2>3 DEF Trigger
<1>6. CASE Start(j)
  <2> DEFINE s == IF job[j].op = "transfer" THEN "initialize" ELSE "delete"
             r == [NewJob EXCEPT !.state = s, !.op = job[j].op, !.want = job[j].want,
                                 !.tags = job[j].want]
  <2>1. job[j].op \in {"transfer", "delete"} /\ job[j].want \in Seq(Tags)
    BY DEF IInv, TypeOK, JobState
  <2>2. JobTyped(r) /\ Relies(r, dstBlobs, past)
    BY <2>1 DEF NewJob, JobTyped, JobState, Relies, WithManifest, Working, Ended
  <2>3. job' = [job EXCEPT ![j] = r]
    BY <1>6 DEF Start, Become
  <2> HIDE DEF r
  <2> QED
    BY <1>0, <1>6, <2>2, <2>3, LocalStep DEF Start
<1> QED
  BY <1>1, <1>2, <1>3, <1>4, <1>5, <1>6

\* The end of a tag: the next one starts with nothing but what was found out about blobs.
LEMMA NextTagFine ==
  ASSUME IInv, NEW j \in Jobs, job[j].state \in WithManifest
  PROVE  JobTyped(NextTag(job[j])) /\ Relies(NextTag(job[j]), dstBlobs, past)
<1>1. Tail(job[j].tags) \in Seq(Tags)
  BY HeadTailProperties DEF IInv, TypeOK, JobState
<1> QED
  BY ZenonT(60), <1>1 DEF NextTag, JobTyped, JobState, Relies, WithManifest, Working, Ended,
                          IInv, TypeOK

\* Requests of a handler.
LEMMA WorkKeeps ==
  ASSUME IInv, NEW j \in Jobs, Work(j) \/ Unanswered(j)
  PROVE  IInv'
<1>0. /\ netErrors \in 0..MaxNetErrors /\ failures \in 0..MaxFailures
      /\ enabled \in BOOLEAN /\ overlap \in BOOLEAN
  BY DEF IInv, TypeOK
<1>t. JobTyped(job[j]) /\ Relies(job[j], dstBlobs, past)
  BY DEF IInv, TypeOK, JobTyped
<1>1. CASE Initialize(j)
  <2> DEFINE r == [job[j] EXCEPT !.state = "check", !.tags = IF @ = <<>> THEN ListTag ELSE @]
  <2>1. ListTag \in Seq(Tags)
    BY TransferAssumption DEF ListTag
  <2>2. JobTyped(r) /\ Relies(r, dstBlobs, past)
    BY <1>t, <2>1 DEF JobTyped, JobState, Relies, WithManifest, Working, Ended
  <2>3. job' = [job EXCEPT ![j] = r]
    BY <1>1 DEF Initialize, Become
  <2> HIDE DEF r
  <2> QED
    BY <1>0, <1>1, <2>2, <2>3, LocalStep DEF Initialize
<1>2. CASE Check(j)
  BY <1>0, <1>2, Dropped, LocalStep DEF Check, Goto, Become
<1>3. CASE PullManifest(j)
  <2> DEFINE m == src[Head(job[j].tags)]
             r == [job[j] EXCEPT !.state = "blob_exist", !.manifest = m]
  <2>1. CASE Goto(j, "finished") \/ Goto(j, "error")
    BY <1>0, <1>3, <2>1, Dropped, LocalStep DEF PullManifest, Goto, Become
  <2>2. CASE job[j].tags # <<>> /\ m # NoManifest /\ Become(j, r)
    <3>1. Head(job[j].tags) \in Tags
      BY <1>t, <2>2, HeadTailProperties DEF JobTyped, JobState
    <3>2. m \in Manifests /\ m \in past[Head(job[j].tags)]
      BY <2>2, <3>1 DEF IInv, TypeOK, Contents
    <3> HIDE DEF m
    <3>3. JobTyped(r) /\ Relies(r, dstBlobs, past)
      BY <1>t, <2>2, <3>2 DEF JobTyped, JobState, Relies, WithManifest, Working, Ended
    <3> HIDE DEF r
    <3> QED
      BY <1>0, <1>3, <2>2, <3>3, LocalStep DEF PullManifest, Become
  <2> QED
    BY <1>3, <2>1, <2>2 DEF PullManifest
<1>4. CASE BlobExist(j)
  <2> DEFINE found == [b \in Blobs |->
                     IF b \in NeededBlobs(job[j].manifest) /\ job[j].exist[b] = "unknown"
                     THEN IF b \in dstBlobs THEN "yes" ELSE "no"
                     ELSE job[j].exist[b]]
             r == [job[j] EXCEPT !.state = "transfer_blob", !.exist = found,
                     !.blobs = {b \in NeededBlobs(job[j].manifest) : found[b] # "yes"}]
  <2>1. /\ found \in [Blobs -> {"unknown", "yes", "no"}]
        /\ \A b \in Blobs : found[b] = "yes" => b \in dstBlobs
    BY <1>t DEF JobTyped, JobState, Relies
  <2>2. NeededBlobs(job[j].manifest) \in SUBSET Blobs
    BY <1>4, <1>t, TransferAssumption DEF BlobExist, NeededBlobs, JobTyped, WithManifest
  <2>3. job' = [job EXCEPT ![j] = r]
    BY <1>4 DEF BlobExist, Become
  <2> HIDE DEF found
  <2>4. JobTyped(r) /\ Relies(r, dstBlobs, past)
    BY <1>4, <1>t, <2>1, <2>2 DEF BlobExist, NeededBlobs, JobTyped, JobState, Relies,
                                  WithManifest, Working, Ended
  <2> HIDE DEF r
  <2> QED
    BY <1>0, <1>4, <2>3, <2>4, LocalStep DEF BlobExist
<1>5. ASSUME NEW b \in Blobs, TransferBlob(j, b)
      PROVE  IInv'
  <2> DEFINE r == [job[j] EXCEPT !.blobs = @ \ {b}]
             q == [job[j] EXCEPT !.state = "waiting"]
  <2>1. /\ dstBlobs' \in SUBSET Blobs /\ dstBlobs \subseteq dstBlobs'
        /\ past' = past /\ past \in [Tags -> SUBSET Manifests]
    BY <1>5 DEF TransferBlob, IInv, TypeOK
  <2>2. JobTyped(r) /\ Relies(r, dstBlobs', past')
    BY <1>5, <1>t, <2>1 DEF TransferBlob, JobTyped, JobState, Relies, WithManifest, Working, Ended
  <2>3. JobTyped(q) /\ Relies(q, dstBlobs, past)
    BY Dropped
  <2> HIDE DEF r, q
  <2>4. Relies(q, dstBlobs', past')
    BY <2>1, <2>3, ReliesMore DEF IInv, TypeOK
  <2>5. CASE Become(j, r) /\ UNCHANGED bounds
    BY <1>0, <1>5, <2>1, <2>2, <2>5, JobStep DEF TransferBlob, Become, IInv, TypeOK
  <2>6. CASE NetError(j)
    <3>1. job' = [job EXCEPT ![j] = q]
      BY <2>6 DEF NetError, Goto, Become, q
    <3> QED
      BY <1>0, <1>5, <2>1, <2>3, <2>4, <2>6, <3>1, Bounds, JobStep DEF TransferBlob, IInv, TypeOK
  <2> QED
    BY <1>5, <2>5, <2>6 DEF TransferBlob, Answered, r
<1>6. CASE BlobsDone(j)
  <2> DEFINE r == [job[j] EXCEPT !.state = "push_manifest"]
  <2>1. JobTyped(r) /\ Relies(r, dstBlobs, past)
    BY <1>6, <1>t DEF BlobsDone, JobTyped, JobState, Relies, WithManifest, Working, Ended
  <2>2. job' = [job EXCEPT ![j] = r]
    BY <1>6 DEF BlobsDone, Goto, Become
  <2> HIDE DEF r
  <2> QED
    BY <1>0, <1>6, <2>1, <2>2, LocalStep DEF BlobsDone
<1>7. ASSUME NEW s \in {"compare", "push"}, job[j].state \in {"push_manifest", "compare"}
      PROVE  LET r == [job[j] EXCEPT !.state = s] IN JobTyped(r) /\ Relies(r, dstBlobs, past)
  BY <1>7, <1>t DEF JobTyped, JobState, Relies, WithManifest, Working, Ended
<1>8. CASE CheckSource(j)
  <2>1. CASE Become(j, NextTag(job[j]))
    BY <1>0, <1>8, <2>1, NextTagFine, LocalStep DEF CheckSource, Become, WithManifest
  <2>2. CASE Goto(j, "compare")
    BY <1>0, <1>7, <1>8, <2>2, LocalStep DEF CheckSource, Goto, Become
  <2> QED
    BY <1>8, <2>1, <2>2 DEF CheckSource
<1>9. CASE Compare(j)
  <2>1. CASE Become(j, NextTag(job[j])) /\ UNCHANGED bounds
    BY <1>0, <1>9, <2>1, NextTagFine, LocalStep DEF Compare, Become, WithManifest
  <2>2. CASE Goto(j, "push") /\ UNCHANGED bounds
    BY <1>0, <1>7, <1>9, <2>2, LocalStep DEF Compare, Goto, Become
  <2>3. CASE /\ netErrors < MaxNetErrors /\ netErrors' = netErrors + 1
             /\ Goto(j, "push") /\ UNCHANGED <<failures, overlap>>
    <3>1. netErrors' \in 0..MaxNetErrors
      BY <1>0, <2>3, TransferAssumption
    <3> QED
      BY <1>0, <1>7, <1>9, <2>3, <3>1, LocalStep DEF Compare, Goto, Become
  <2> QED
    BY <1>9, <2>1, <2>2, <2>3 DEF Compare
<1>10. CASE PushManifest(j)
  <2> DEFINE q == [job[j] EXCEPT !.state = "waiting"]
  <2>1. Head(job[j].tags) \in Tags /\ job[j].manifest \in Manifests
    BY <1>10, <1>t, HeadTailProperties DEF PushManifest, JobTyped, JobState, WithManifest
  <2>2. dst' \in Contents
    BY <1>10, <2>1 DEF PushManifest, IInv, TypeOK, Contents
  <2>3. CASE Become(j, NextTag(job[j])) /\ UNCHANGED bounds
    BY <1>0, <1>10, <2>2, <2>3, NextTagFine, JobStep DEF PushManifest, Become, WithManifest, IInv, TypeOK
  <2>4. CASE NetError(j)
    BY <1>0, <1>10, <2>2, <2>4, Bounds, Dropped, JobStep
    DEF PushManifest, NetError, Goto, Become, IInv, TypeOK
  <2>5. CASE Goto(j, "error") /\ UNCHANGED bounds
    BY <1>0, <1>10, <2>2, <2>5, Dropped, JobStep DEF PushManifest, Goto, Become, IInv, TypeOK
  <2> QED
    BY <1>10, <2>3, <2>4, <2>5 DEF PushManifest, Answered
<1>11. CASE DeleteImage(j)
  <2> DEFINE r == [job[j] EXCEPT !.tags = Tail(@)]
  <2>1. dst' \in Contents
    BY <1>11 DEF DeleteImage, Without, IInv, TypeOK, Contents
  <2>2. CASE Goto(j, "finished") /\ UNCHANGED bounds
    BY <1>0, <1>11, <2>1, <2>2, Dropped, JobStep DEF DeleteImage, Goto, Become, IInv, TypeOK
  <2>3. CASE job[j].tags # <<>> /\ Become(j, r) /\ UNCHANGED bounds
    <3>1. Tail(job[j].tags) \in Seq(Tags)
      BY <1>t, <2>3, HeadTailProperties DEF JobTyped, JobState
    <3>2. JobTyped(r) /\ Relies(r, dstBlobs, past)
      BY <1>11, <1>t, <3>1 DEF DeleteImage, JobTyped, JobState, Relies, WithManifest, Working, Ended
    <3> HIDE DEF r
    <3> QED
      BY <1>0, <1>11, <2>1, <2>3, <3>2, JobStep DEF DeleteImage, Become, IInv, TypeOK
  <2>4. CASE NetError(j)
    BY <1>0, <1>11, <2>1, <2>4, Bounds, Dropped, JobStep
    DEF DeleteImage, NetError, Goto, Become, IInv, TypeOK
  <2> QED
    BY <1>11, <2>2, <2>3, <2>4 DEF DeleteImage, Answered
<1>12. CASE Unanswered(j)
  BY <1>0, <1>12, Bounds, Dropped, LocalStep DEF Unanswered, NetError, Failure, Goto, Become
<1> QED
  BY <1>1, <1>2, <1>3, <1>4, <1>5, <1>6, <1>8, <1>9, <1>10, <1>11, <1>12 DEF Work

LEMMA NextKeeps == IInv /\ [Next]_vars => IInv'
<1> SUFFICES ASSUME IInv, [Next]_vars PROVE IInv'
  OBVIOUS
<1>1. CASE UNCHANGED vars
  BY <1>1 DEF IInv, TypeOK, Contents, Relies
<1>2. CASE Next
  BY <1>2, UserStepKeeps, WorkKeeps DEF Next, UserStep
<1> QED
  BY <1>1, <1>2

LEMMA Invariance == Spec => []IInv
BY InitHolds, NextKeeps, PTL DEF Spec

-----------------------------------------------------------------------------
\* Type correctness: in particular a handler that works on tags[0] has a tag and, where it
\* needs one, its manifest.
THEOREM TypeCorrect == Spec => []TypeOK
<1>1. IInv => TypeOK
  BY DEF IInv
<1> QED
  BY <1>1, Invariance, PTL

\* No manifest that ManifestPusher pushes is refused for missing blobs, whatever other jobs
\* do and however often the job starts again.
THEOREM AlwaysAccepted == Spec => []PushAccepted
<1>1. IInv => PushAccepted
  BY DEF IInv, PushAccepted, Relies, Stored
<1> QED
  BY <1>1, Invariance, PTL

\* Replication implements Mirror: in the destination a tag gets only what it has had in
\* the source.
THEOREM Refinement == Spec => MirrorsSource
<1>1. Init => M!Init
  BY DEF Init, M!Init
<1>2. IInv /\ [Next]_vars => [M!Next]_<<src, dst, past>>
  <2> SUFFICES ASSUME IInv, [Next]_vars, ~UNCHANGED <<src, dst, past>> PROVE M!Next
    OBVIOUS
  <2>1. PICK j \in Jobs : \/ \E t \in Tags, m \in Manifests : Push(t, m, j)
                          \/ DeleteManifest(j) \/ PushManifest(j) \/ DeleteImage(j)
    BY DEF Next, UserStep, FindDigest, Enable, Trigger, Start, Work, Initialize, Check,
           PullManifest, BlobExist, TransferBlob, BlobsDone, CheckSource, Compare, Unanswered
  <2>2. JobTyped(job[j]) /\ Relies(job[j], dstBlobs, past)
    BY DEF IInv, TypeOK, JobTyped
  <2>3. ASSUME NEW t \in Tags, NEW m \in Manifests, Push(t, m, j)
        PROVE  M!Next
    BY <2>3 DEF Push, M!Next, M!PushToSource
  <2>4. CASE DeleteManifest(j)
    <3>1. job[j].manifest \in Manifests
      BY <2>2, <2>4 DEF DeleteManifest, JobTyped, JobState, Without, IInv, TypeOK, Contents
    <3> QED
      BY <2>4, <3>1 DEF DeleteManifest, Without, M!Next, M!DeleteFromSource, M!Without
  <2>5. CASE PushManifest(j)
    <3>1. Head(job[j].tags) \in Tags /\ job[j].manifest \in Manifests
      BY <2>2, <2>5, HeadTailProperties DEF PushManifest, JobTyped, JobState, WithManifest
    <3>2. job[j].manifest \in past[Head(job[j].tags)]
      BY <2>2, <2>5 DEF PushManifest, Relies, WithManifest
    <3> QED
      BY <2>5, <3>1, <3>2 DEF PushManifest, M!Next, M!Copy
  <2>6. CASE DeleteImage(j)
    <3>1. job[j].tags # <<>> /\ dst' = Without(dst, dst[Head(job[j].tags)])
      BY <2>6 DEF DeleteImage
    <3>2. Head(job[j].tags) \in Tags
      BY <2>2, <3>1, HeadTailProperties DEF JobTyped, JobState
    <3>3. dst[Head(job[j].tags)] \in Manifests
      BY <2>6, <3>1, <3>2 DEF DeleteImage, Without, IInv, TypeOK, Contents
    <3> QED
      BY <2>6, <3>1, <3>3 DEF DeleteImage, Without, M!Next, M!DeleteFromDestination, M!Without
  <2> QED
    BY <2>1, <2>3, <2>4, <2>5, <2>6
<1> QED
  BY <1>1, <1>2, Invariance, PTL DEF Spec, MirrorsSource, M!Spec

-----------------------------------------------------------------------------
(***************************************************************************)
(* The changes that are still to be copied, see SerialAgrees.              *)
(***************************************************************************)
Elements(s) == {s[i] : i \in 1..Len(s)}

\* A job r that no worker has yet, and that will deal with tag t from its beginning; one in
\* error has failed for good, and is no quiet state either.
Due(r, t) ==
  \/ r.state = "error"
  \/ r.state \in {"triggered", "waiting"} /\ r.op = "transfer" /\ (r.want = <<>> \/ t \in Elements(r.want))

\* Job r is going to give tag t the manifest m, or has failed.
Owes(r, t, m) ==
  \/ Due(r, t)
  \/ r.state = "initialize" /\ (r.tags = <<>> \/ t \in Elements(r.tags))
  \/ r.state \in {"check", "pull_manifest"} /\ t \in Elements(r.tags)
  \/ /\ r.state \in WithManifest
     /\ t \in Elements(Tail(r.tags)) \/ (t = Head(r.tags) /\ r.manifest = m)

\* What the fields of a job have to do with each other: the tags left to do are among those
\* of the row, so that a job which starts anew misses none.
RowKept(r) ==
  /\ r.state \in Working => (r.op = "delete" <=> r.state = "delete")
  /\ r.state \in Working => r.want = <<>> \/ Elements(r.tags) \subseteq Elements(r.want)
  /\ r.state = "initialize" => r.tags = r.want
  /\ r.state = "removing" => r.op = "delete" /\ r.want # <<>>

\* Before the policy is enabled a job is at most a trigger for some tag.
Idle(r) ==
  \/ r.state \in {"none", "removing", "error"}
  \/ r.state = "triggered" /\ r.want # <<>>

\* A deletion that has reached the source stays with its job once the policy is enabled.
Deleting(r) == r.op = "delete" /\ r.state \notin {"none", "removing"}

\* Every tag that differs is owed by some job; a job with an outdated manifest is followed
\* by one that no worker has yet.
Covered ==
  /\ \A t \in Tags : dst[t] # src[t] => \E k \in Jobs : Owes(job[k], t, src[t])
  /\ \A t \in Tags : src[t] = NoManifest => dst[t] = NoManifest
  /\ \A i \in Jobs : job[i].state \in WithManifest =>
       /\ src[Head(job[i].tags)] # NoManifest
       /\ job[i].manifest # src[Head(job[i].tags)] => \E k \in Jobs : Due(job[k], Head(job[i].tags))

\* The inductive invariant behind SerialAgrees.
SerialInv ==
  /\ \A j \in Jobs : RowKept(job[j])
  /\ ~enabled => (\A j \in Jobs : Idle(job[j])) /\ (\A t \in Tags : dst[t] = NoManifest)
  /\ enabled /\ ~overlap /\ (\A j \in Jobs : ~Deleting(job[j])) => Covered

\* After a step that leaves the source alone, what differs was owed before the step.
DstOwed ==
  /\ \A t \in Tags : dst'[t] # src[t] => \E k \in Jobs : Owes(job[k], t, src[t])
  /\ \A t \in Tags : src[t] = NoManifest => dst'[t] = NoManifest

\* A sequence of tags is its head and the rest.
LEMMA ElementsSplit ==
  ASSUME NEW S, NEW s \in Seq(S), s # <<>>
  PROVE  /\ Head(s) \in S /\ Tail(s) \in Seq(S)
         /\ Elements(s) = {Head(s)} \cup Elements(Tail(s))
<1>1. /\ Head(s) \in S /\ Head(s) = s[1] /\ Tail(s) \in Seq(S)
      /\ Len(s) \in Nat /\ Len(s) # 0 /\ Len(Tail(s)) = Len(s) - 1
      /\ \A i \in 1 .. Len(Tail(s)) : Tail(s)[i] = s[i + 1]
  BY HeadTailProperties, EmptySeq, LenProperties
<1>2. ASSUME NEW x \in Elements(s) PROVE x = Head(s) \/ x \in Elements(Tail(s))
  <2>1. PICK i \in 1 .. Len(s) : x = s[i]
    BY <1>2 DEF Elements
  <2>2. CASE i = 1
    BY <1>1, <2>1, <2>2
  <2>3. CASE i # 1
    <3>1. i - 1 \in 1 .. Len(Tail(s)) /\ (i - 1) + 1 = i
      BY <1>1, <2>3
    <3>2. Tail(s)[i - 1] = s[i]
      BY <1>1, <3>1
    <3> QED
      BY <2>1, <3>1, <3>2 DEF Elements
  <2> QED
    BY <2>2, <2>3
<1>3. Head(s) \in Elements(s)
  <2>1. 1 \in 1 .. Len(s)
    BY <1>1
  <2> QED
    BY <1>1, <2>1 DEF Elements
<1>4. ASSUME NEW x \in Elements(Tail(s)) PROVE x \in Elements(s)
  <2>1. PICK i \in 1 .. Len(Tail(s)) : x = Tail(s)[i]
    BY <1>4 DEF Elements
  <2>2. i + 1 \in 1 .. Len(s) /\ x = s[i + 1]
    BY <1>1, <2>1
  <2> QED
    BY <2>2 DEF Elements
<1> QED
  BY <1>1, <1>2, <1>3, <1>4

\* The fields of a job.
LEMMA Fields ==
  ASSUME IInv, NEW j \in Jobs
  PROVE  /\ job[j] \in JobState
         /\ job[j].op \in {"transfer", "delete"}
         /\ job[j].want \in Seq(Tags) /\ job[j].tags \in Seq(Tags)
         /\ job[j].manifest \in Manifests \cup {NoManifest}
         /\ job[j].state \in WithManifest => /\ job[j].tags # <<>> /\ job[j].manifest \in Manifests
                                             /\ Head(job[j].tags) \in Tags
         /\ \A t \in Tags : src[t] \in Manifests \cup {NoManifest}
BY HeadTailProperties DEF IInv, TypeOK, JobState, Contents

\* A step that gives job j a new state r and does not enable the policy.
LEMMA SerialStep ==
  ASSUME IInv, SerialInv, NEW j \in Jobs, NEW r, job' = [job EXCEPT ![j] = r],
         RowKept(r), enabled' = enabled, overlap => overlap',
         ~enabled => Idle(r) /\ dst' = dst,
         enabled /\ Deleting(job[j]) => Deleting(r),
         enabled /\ ~overlap' /\ ~Deleting(r) /\ Covered => Covered'
  PROVE  SerialInv'
<1>1. \A i \in Jobs : job'[i] = IF i = j THEN r ELSE job[i]
  BY DEF IInv, TypeOK
<1>2. \A i \in Jobs : RowKept(job'[i])
  BY <1>1 DEF SerialInv
<1>3. ~enabled' => (\A i \in Jobs : Idle(job'[i])) /\ (\A t \in Tags : dst'[t] = NoManifest)
  BY <1>1 DEF SerialInv
<1>4. enabled' /\ ~overlap' /\ (\A i \in Jobs : ~Deleting(job'[i])) => Covered'
  <2> SUFFICES ASSUME enabled', ~overlap', \A i \in Jobs : ~Deleting(job'[i]) PROVE Covered'
    OBVIOUS
  <2>1. enabled /\ ~overlap /\ ~Deleting(r)
    BY <1>1
  <2>2. \A i \in Jobs : ~Deleting(job[i])
    BY <1>1, <2>1
  <2> QED
    BY <2>1, <2>2 DEF SerialInv
<1> QED
  BY <1>2, <1>3, <1>4 DEF SerialInv

\* A step of job j that leaves the source alone: the job goes on owing what differs, and has
\* no outdated manifest that it did not have before.
LEMMA StepCovers ==
  ASSUME IInv, Covered, NEW j \in Jobs, NEW r, job' = [job EXCEPT ![j] = r],
         src' = src, DstOwed,
         \A t \in Tags : Owes(job[j], t, src[t]) /\ dst'[t] # src[t] => Owes(r, t, src[t]),
         \/ \A t \in Tags : Due(job[j], t) => Due(r, t)
         \/ \A i \in Jobs : i # j => job[i].state \notin WithManifest,
         r.state \in WithManifest =>
           \/ /\ job[j].state \in WithManifest
              /\ Head(r.tags) = Head(job[j].tags) /\ r.manifest = job[j].manifest
           \/ r.manifest = src[Head(r.tags)] /\ r.manifest # NoManifest
  PROVE  Covered'
<1>1. \A i \in Jobs : job'[i] = IF i = j THEN r ELSE job[i]
  BY DEF IInv, TypeOK
<1>2. ASSUME NEW t \in Tags, dst'[t] # src[t]
      PROVE  \E k \in Jobs : Owes(job'[k], t, src[t])
  <2>1. PICK k \in Jobs : Owes(job[k], t, src[t])
    BY <1>2 DEF DstOwed
  <2>2. Owes(job'[k], t, src[t])
    BY <1>1, <1>2, <2>1
  <2> QED
    BY <2>2
<1>3. ASSUME NEW i \in Jobs, job'[i].state \in WithManifest
      PROVE  /\ src[Head(job'[i].tags)] # NoManifest
             /\ job'[i].manifest # src[Head(job'[i].tags)] =>
                  \E k \in Jobs : Due(job'[k], Head(job'[i].tags))
  <2>1. CASE i = j /\ r.manifest = src[Head(r.tags)] /\ r.manifest # NoManifest
    BY <1>1, <2>1
  <2>2. CASE \/ i # j
             \/ /\ job[j].state \in WithManifest
                /\ Head(r.tags) = Head(job[j].tags) /\ r.manifest = job[j].manifest
    <3>1. /\ job[i].state \in WithManifest
          /\ Head(job'[i].tags) = Head(job[i].tags) /\ job'[i].manifest = job[i].manifest
      BY <1>1, <1>3, <2>2
    <3>2. Head(job[i].tags) \in Tags
      BY <3>1, Fields
    <3>3. src[Head(job[i].tags)] # NoManifest
      BY <3>1 DEF Covered
    <3>4. ASSUME job[i].manifest # src[Head(job[i].tags)]
          PROVE  \E k \in Jobs : Due(job'[k], Head(job[i].tags))
      <4>1. PICK k \in Jobs : Due(job[k], Head(job[i].tags))
        BY <3>1, <3>4 DEF Covered
      <4>2. job[k].state \notin WithManifest
        BY <4>1 DEF Due, WithManifest
      <4>3. k = j => Due(r, Head(job[i].tags))
        BY <3>1, <3>2, <4>1, <4>2
      <4>4. Due(job'[k], Head(job[i].tags))
        BY <1>1, <4>1, <4>3
      <4> QED
        BY <4>4
    <3> QED
      BY <3>1, <3>3, <3>4
  <2> QED
    BY <1>1, <1>3, <2>1, <2>2
<1> QED
  BY <1>2, <1>3 DEF Covered, DstOwed

\* Where the destination stays the same, Covered says what was owed.
LEMMA DstUnchanged ==
  ASSUME Covered, dst' = dst
  PROVE  DstOwed
BY DEF Covered, DstOwed

\* A step of job j that leaves both registries alone.
LEMMA LocalCovers ==
  ASSUME IInv, Covered, NEW j \in Jobs, NEW r, job' = [job EXCEPT ![j] = r],
         src' = src, dst' = dst,
         \A t \in Tags : Owes(job[j], t, src[t]) /\ dst[t] # src[t] => Owes(r, t, src[t]),
         \/ \A t \in Tags : Due(job[j], t) => Due(r, t)
         \/ \A i \in Jobs : i # j => job[i].state \notin WithManifest,
         r.state \in WithManifest =>
           \/ /\ job[j].state \in WithManifest
              /\ Head(r.tags) = Head(job[j].tags) /\ r.manifest = job[j].manifest
           \/ r.manifest = src[Head(r.tags)] /\ r.manifest # NoManifest
  PROVE  Covered'
BY DstUnchanged, StepCovers

\* The state of job j changes to s and no other field: a job that is put off begins again with
\* the tags of its row, and one in error is never quiet.
LEMMA PutOff ==
  ASSUME IInv, SerialInv, NEW j \in Jobs, NEW s \in {"waiting", "error"},
         job' = [job EXCEPT ![j] = [job[j] EXCEPT !.state = s]],
         job[j].state \in Working \cup {"triggered"}, s = "waiting" => enabled \/ job[j].want = <<>>,
         src' = src, ~enabled => dst' = dst, Covered => DstOwed,
         enabled' = enabled, overlap' = overlap
  PROVE  SerialInv'
<1> DEFINE r == [job[j] EXCEPT !.state = s]
<1>1. /\ r.state = s /\ r.op = job[j].op /\ r.want = job[j].want /\ r.tags = job[j].tags
      /\ r.manifest = job[j].manifest
  BY Fields DEF JobState
<1>2. job' = [job EXCEPT ![j] = r]
  OBVIOUS
<1> HIDE DEF r
<1>3. RowKept(r)
  BY <1>1 DEF RowKept, Working
<1>4. RowKept(job[j])
  BY DEF SerialInv
<1>5. ~enabled => Idle(r)
  <2> SUFFICES ASSUME ~enabled PROVE Idle(r)
    OBVIOUS
  <2>1. Idle(job[j])
    BY DEF SerialInv
  <2>2. job[j].state = "triggered" /\ job[j].want # <<>>
    BY <2>1 DEF Idle, Working
  <2> QED
    BY <1>1, <2>2 DEF Idle
<1>6. Deleting(job[j]) => Deleting(r)
  BY <1>1 DEF Deleting
<1>7. ASSUME enabled, ~Deleting(r), Covered PROVE Covered'
  <2>1. job[j].op = "transfer"
    BY <1>1, <1>7, Fields DEF Deleting
  <2>2. \A t \in Tags : Due(job[j], t) => Due(r, t)
    BY <1>1 DEF Due, Working
  <2>3. ASSUME NEW t \in Tags, Owes(job[j], t, src[t]) PROVE Owes(r, t, src[t])
    <3>1. CASE s = "error"
      BY <1>1, <3>1 DEF Owes, Due
    <3>2. CASE s = "waiting"
      <4>1. CASE Due(job[j], t)
        BY <2>2, <4>1 DEF Owes
      <4>2. CASE job[j].state = "initialize" /\ (job[j].tags = <<>> \/ t \in Elements(job[j].tags))
        BY <1>1, <1>4, <2>1, <3>2, <4>2 DEF RowKept, Owes, Due
      <4>3. CASE job[j].state \in {"check", "pull_manifest"} /\ t \in Elements(job[j].tags)
        BY <1>1, <1>4, <2>1, <3>2, <4>3 DEF RowKept, Owes, Due, Working
      <4>4. CASE /\ job[j].state \in WithManifest
                 /\ t \in Elements(Tail(job[j].tags)) \/ t = Head(job[j].tags)
        <5>1. t \in Elements(job[j].tags)
          BY <4>4, Fields, ElementsSplit
        <5> QED
          BY <1>1, <1>4, <2>1, <3>2, <4>4, <5>1 DEF RowKept, Owes, Due, Working, WithManifest
      <4> QED
        BY <2>3, <4>1, <4>2, <4>3, <4>4 DEF Owes
    <3> QED
      BY <3>1, <3>2
  <2>4. r.state \notin WithManifest
    BY <1>1 DEF WithManifest
  <2> QED
    BY <1>2, <1>7, <2>2, <2>3, <2>4, StepCovers
<1> QED
  BY <1>2, <1>3, <1>5, <1>6, <1>7, SerialStep

\* Steps of users.
LEMMA UserStepCovers ==
  ASSUME IInv, SerialInv, NEW j \in Jobs,
         \/ \E t \in Tags, m \in Manifests : Push(t, m, j)
         \/ \E t \in Tags : FindDigest(t, j)
         \/ DeleteManifest(j) \/ Enable(j)
  PROVE  SerialInv'
<1>0. /\ NewJob.state = "none" /\ NewJob.op = "transfer" /\ NewJob.want = <<>>
  BY DEF NewJob
<1>n. RowKept(NewJob) /\ Idle(NewJob) /\ ~Deleting(NewJob) /\ NewJob.state \notin WithManifest
  BY <1>0 DEF RowKept, Idle, Deleting, Working, WithManifest
<1>d. job[j].state \in {"none", "removing"} =>
        /\ ~Deleting(job[j])
        /\ \A t \in Tags : ~Due(job[j], t) /\ ~Owes(job[j], t, src[t])
  BY DEF Deleting, Due, Owes, WithManifest
<1>j. \A r : job' = [job EXCEPT ![j] = r] => \A i \in Jobs : job'[i] = IF i = j THEN r ELSE job[i]
  BY DEF IInv, TypeOK
<1>1. ASSUME NEW t \in Tags, NEW m \in Manifests, Push(t, m, j)
      PROVE  SerialInv'
  <2> DEFINE r == [NewJob EXCEPT !.state = "triggered", !.want = <<t>>]
  <2>1. r.state = "triggered" /\ r.want = <<t>> /\ r.op = "transfer"
    BY DEF NewJob
  <2>2. job' = [job EXCEPT ![j] = r]
    BY <1>1 DEF Push, Become
  <2> HIDE DEF r
  <2>3. RowKept(r) /\ Idle(r)
    BY <2>1 DEF RowKept, Idle, Working
  <2>4. Due(r, t)
    <3>1. t \in Elements(<<t>>)
      BY DEF Elements
    <3> QED
      BY <2>1, <3>1 DEF Due
  <2>5. ~Deleting(job[j]) /\ \A u \in Tags : ~Due(job[j], u) /\ ~Owes(job[j], u, src[u])
    BY <1>1, <1>d DEF Push
  <2>6. ASSUME Covered PROVE Covered'
    <3>1. \A i \in Jobs : job'[i] = IF i = j THEN r ELSE job[i]
      BY <1>j, <2>2
    <3>2. /\ dst' = dst /\ m # NoManifest
          /\ \A u \in Tags : src'[u] = IF u = t THEN m ELSE src[u]
      BY <1>1, TransferAssumption DEF Push, IInv, TypeOK, Contents
    <3>3. ASSUME NEW u \in Tags, dst'[u] # src'[u]
          PROVE  \E k \in Jobs : Owes(job'[k], u, src'[u])
      <4>1. CASE u = t
        BY <2>4, <3>1, <4>1 DEF Owes
      <4>2. CASE u # t
        <5>1. PICK k \in Jobs : Owes(job[k], u, src[u])
          BY <2>6, <3>2, <3>3, <4>2 DEF Covered
        <5>2. k # j
          BY <2>5, <5>1
        <5> QED
          BY <3>1, <3>2, <4>2, <5>1, <5>2
      <4> QED
        BY <4>1, <4>2
    <3>4. \A u \in Tags : src'[u] = NoManifest => dst'[u] = NoManifest
      BY <2>6, <3>2 DEF Covered
    <3>5. ASSUME NEW i \in Jobs, job'[i].state \in WithManifest
          PROVE  /\ src'[Head(job'[i].tags)] # NoManifest
                 /\ job'[i].manifest # src'[Head(job'[i].tags)] =>
                      \E k \in Jobs : Due(job'[k], Head(job'[i].tags))
      <4>1. i # j /\ job'[i] = job[i]
        BY <2>1, <3>1, <3>5 DEF WithManifest
      <4>2. Head(job[i].tags) \in Tags
        BY <3>5, <4>1, Fields
      <4>3. CASE Head(job[i].tags) = t
        BY <2>4, <3>1, <3>2, <4>1, <4>3
      <4>4. CASE Head(job[i].tags) # t
        <5>1. src'[Head(job[i].tags)] = src[Head(job[i].tags)]
          BY <3>2, <4>2, <4>4
        <5>2. /\ src[Head(job[i].tags)] # NoManifest
              /\ job[i].manifest # src[Head(job[i].tags)] => \E k \in Jobs : Due(job[k], Head(job[i].tags))
          BY <2>6, <3>5, <4>1 DEF Covered
        <5>3. \A k \in Jobs : Due(job[k], Head(job[i].tags)) => Due(job'[k], Head(job[i].tags))
          BY <2>5, <3>1, <4>2
        <5> QED
          BY <4>1, <5>1, <5>2, <5>3
      <4> QED
        BY <4>3, <4>4
    <3> QED
      BY <3>3, <3>4, <3>5 DEF Covered
  <2> QED
    BY <1>1, <2>2, <2>3, <2>5, <2>6, SerialStep DEF Push
<1>2. ASSUME NEW t \in Tags, FindDigest(t, j)
      PROVE  SerialInv'
  <2> DEFINE s == IF src[t] = NoManifest THEN "triggered" ELSE "removing"
             r == [NewJob EXCEPT !.state = s, !.op = "delete", !.want = <<t>>, !.manifest = src[t]]
  <2>1. r.state \in {"triggered", "removing"} /\ r.op = "delete" /\ r.want = <<t>>
    BY DEF NewJob
  <2>2. job' = [job EXCEPT ![j] = r]
    BY <1>2 DEF FindDigest, Become
  <2> HIDE DEF r
  <2>3. RowKept(r) /\ Idle(r) /\ r.state \notin WithManifest
    BY <2>1 DEF RowKept, Idle, Working, WithManifest
  <2>4. ~Deleting(job[j]) /\ \A u \in Tags : ~Due(job[j], u) /\ ~Owes(job[j], u, src[u])
    BY <1>2, <1>d DEF FindDigest
  <2>5. Covered => Covered'
    BY <1>2, <2>2, <2>3, <2>4, LocalCovers DEF FindDigest
  <2> QED
    BY <1>2, <2>2, <2>3, <2>4, <2>5, SerialStep DEF FindDigest
<1>3. CASE DeleteManifest(j)
  <2>1. ~Deleting(job[j]) /\ \A u \in Tags : ~Due(job[j], u) /\ ~Owes(job[j], u, src[u])
    BY <1>3, <1>d DEF DeleteManifest
  <2>2. CASE Become(j, [job[j] EXCEPT !.state = "triggered", !.manifest = NoManifest])
    <3> DEFINE r == [job[j] EXCEPT !.state = "triggered", !.manifest = NoManifest]
    <3>1. r.state = "triggered" /\ r.op = job[j].op /\ r.want = job[j].want
      BY Fields DEF JobState
    <3>2. job' = [job EXCEPT ![j] = r]
      BY <2>2 DEF Become
    <3> HIDE DEF r
    <3>3. job[j].op = "delete" /\ job[j].want # <<>>
      BY <1>3 DEF DeleteManifest, SerialInv, RowKept
    <3>4. RowKept(r) /\ Idle(r) /\ Deleting(r)
      BY <3>1, <3>3 DEF RowKept, Idle, Deleting, Working
    <3> QED
      BY <1>3, <2>1, <3>2, <3>4, SerialStep DEF DeleteManifest
  <2>3. CASE (\A t \in Tags : src[t] # job[j].manifest) /\ Become(j, NewJob)
    <3>1. src' = src
      BY <1>3, <2>3 DEF DeleteManifest, Without, IInv, TypeOK, Contents
    <3>2. job' = [job EXCEPT ![j] = NewJob]
      BY <2>3 DEF Become
    <3>3. Covered => Covered'
      BY <1>3, <1>n, <2>1, <3>1, <3>2, LocalCovers DEF DeleteManifest
    <3> QED
      BY <1>3, <1>n, <2>1, <3>2, <3>3, SerialStep DEF DeleteManifest
  <2> QED
    BY <1>3, <2>2, <2>3 DEF DeleteManifest
<1>4. CASE Enable(j)
  <2> DEFINE r == [NewJob EXCEPT !.state = "triggered"]
  <2>1. r.state = "triggered" /\ r.want = <<>> /\ r.op = "transfer"
    BY DEF NewJob
  <2>2. job' = [job EXCEPT ![j] = r]
    BY <1>4 DEF Enable, Become
  <2> HIDE DEF r
  <2>3. \A i \in Jobs : job'[i] = IF i = j THEN r ELSE job[i]
    BY <1>j, <2>2
  <2>4. RowKept(r) /\ r.state \notin WithManifest /\ \A t : Due(r, t)
    BY <2>1 DEF RowKept, Working, WithManifest, Due
  <2>5. \A i \in Jobs : RowKept(job'[i])
    BY <2>3, <2>4 DEF SerialInv
  <2>6. \A i \in Jobs : Idle(job[i])
    BY <1>4 DEF Enable, SerialInv
  <2>7. \A i \in Jobs : job'[i].state \notin WithManifest
    BY <2>3, <2>4, <2>6 DEF Idle, WithManifest
  <2>8. /\ \A t \in Tags : dst'[t] = NoManifest
        /\ enabled'
    BY <1>4 DEF Enable, SerialInv
  <2>9. \A t \in Tags : Owes(job'[j], t, src'[t])
    BY <2>3, <2>4 DEF Owes
  <2>10. Covered'
    BY <2>7, <2>8, <2>9 DEF Covered
  <2> QED
    BY <2>5, <2>8, <2>10 DEF SerialInv
<1> QED
  BY <1>1, <1>2, <1>3, <1>4

\* Triggers, and a worker that takes up a job.
LEMMA TriggerStartCovers ==
  ASSUME IInv, SerialInv, NEW j \in Jobs, Trigger(j) \/ Start(j)
  PROVE  SerialInv'
<1>1. CASE Trigger(j)
  <2>1. CASE (enabled \/ job[j].want = <<>>) /\ Goto(j, "waiting") /\ UNCHANGED bounds
    BY <1>1, <2>1, PutOff, DstUnchanged DEF Trigger, Goto, Become
  <2>2. CASE ~enabled /\ job[j].want # <<>> /\ Become(j, NewJob) /\ UNCHANGED bounds
    <3>1. NewJob.state = "none"
      BY DEF NewJob
    <3>2. RowKept(NewJob) /\ Idle(NewJob)
      BY <3>1 DEF RowKept, Idle, Working
    <3> QED
      BY <1>1, <2>2, <3>2, SerialStep DEF Trigger, Become
  <2>3. CASE Failure(j)
    BY <1>1, <2>3, PutOff, DstUnchanged DEF Trigger, Failure, Goto, Become
  <2> QED
    BY <1>1, <2>1, <2>2, <2>3 DEF Trigger
<1>2. CASE Start(j)
  <2> DEFINE s == IF job[j].op = "transfer" THEN "initialize" ELSE "delete"
             r == [NewJob EXCEPT !.state = s, !.op = job[j].op, !.want = job[j].want,
                                 !.tags = job[j].want]
  <2>1. r.state = s /\ r.op = job[j].op /\ r.want = job[j].want /\ r.tags = job[j].want
    BY DEF NewJob
  <2>2. job' = [job EXCEPT ![j] = r]
    BY <1>2 DEF Start, Become
  <2> HIDE DEF r
  <2>3. RowKept(r)
    BY <2>1, Fields DEF RowKept, Working
  <2>4. enabled
    BY <1>2 DEF Start, SerialInv, Idle
  <2>5. Deleting(job[j]) => Deleting(r)
    BY <2>1 DEF Deleting
  <2>6. ASSUME ~overlap', ~Deleting(r), Covered PROVE Covered'
    <3>1. job[j].op = "transfer" /\ r.state = "initialize"
      BY <2>1, <2>6, Fields DEF Deleting
    <3>2. \A t \in Tags : Owes(job[j], t, src[t]) => Owes(r, t, src[t])
      BY <1>2, <2>1, <3>1 DEF Start, Owes, Due, WithManifest
    <3>3. \A i \in Jobs : job[i].state \notin WithManifest
      BY <1>2, <2>6 DEF Start, Working, WithManifest
    <3>4. r.state \notin WithManifest
      BY <3>1 DEF WithManifest
    <3> QED
      BY <1>2, <2>2, <2>6, <3>2, <3>3, <3>4, LocalCovers DEF Start
  <2>7. overlap => overlap'
    BY <1>2 DEF Start
  <2> QED
    BY <1>2, <2>2, <2>3, <2>4, <2>5, <2>6, <2>7, SerialStep DEF Start
<1> QED
  BY <1>1, <1>2

\* A job goes on with a request of its handler: row and operation stay, and the tags left
\* are among those it had, or are all tags where the row names none.
LEMMA GoesOn ==
  ASSUME IInv, SerialInv, NEW j \in Jobs, NEW r, job' = [job EXCEPT ![j] = r],
         job[j].state \in Working \ {"delete"},
         r.state \in (Working \ {"initialize", "delete"}) \cup Ended,
         r.op = job[j].op, r.want = job[j].want,
         job[j].want = <<>> \/ Elements(r.tags) \subseteq Elements(job[j].tags),
         src' = src, Covered => DstOwed, enabled' = enabled, overlap' = overlap,
         \A t \in Tags : Owes(job[j], t, src[t]) /\ dst'[t] # src[t] => Owes(r, t, src[t]),
         r.state \in WithManifest =>
           \/ /\ job[j].state \in WithManifest
              /\ Head(r.tags) = Head(job[j].tags) /\ r.manifest = job[j].manifest
           \/ r.manifest = src[Head(r.tags)] /\ r.manifest # NoManifest
  PROVE  SerialInv'
<1>1. RowKept(job[j])
  BY DEF SerialInv
<1>2. job[j].op = "transfer"
  BY <1>1, Fields DEF RowKept
<1>3. RowKept(r)
  <2>1. r.state \in Working => r.state # "delete" /\ r.op # "delete"
    BY <1>2 DEF Working, Ended
  <2>2. r.want = <<>> \/ Elements(r.tags) \subseteq Elements(r.want)
    BY <1>1 DEF RowKept
  <2>3. r.state \notin {"initialize", "removing"}
    BY DEF Working, Ended
  <2> QED
    BY <2>1, <2>2, <2>3 DEF RowKept
<1>4. enabled
  BY DEF SerialInv, Idle, Working
<1>5. ~Deleting(job[j])
  BY <1>2 DEF Deleting
<1>6. \A t \in Tags : ~Due(job[j], t)
  BY DEF Due, Working
<1>7. Covered => Covered'
  BY <1>6, StepCovers
<1> QED
  BY <1>3, <1>4, <1>5, <1>7, SerialStep

\* The end of a tag, unless the tag still differs and its manifest was current.
LEMMA NextTagCovers ==
  ASSUME IInv, SerialInv, NEW j \in Jobs, job' = [job EXCEPT ![j] = NextTag(job[j])],
         job[j].state \in WithManifest,
         job[j].manifest = src[Head(job[j].tags)] => dst'[Head(job[j].tags)] = src[Head(job[j].tags)],
         src' = src, Covered => DstOwed, enabled' = enabled, overlap' = overlap
  PROVE  SerialInv'
<1> DEFINE r == NextTag(job[j])
<1>1. /\ r.state = "pull_manifest" /\ r.op = job[j].op /\ r.want = job[j].want
      /\ r.tags = Tail(job[j].tags)
  BY Fields DEF NextTag, JobState
<1>2. job' = [job EXCEPT ![j] = r]
  OBVIOUS
<1> HIDE DEF r
<1>3. Elements(r.tags) \subseteq Elements(job[j].tags)
  BY <1>1, Fields, ElementsSplit
<1>4. job[j].state \in Working \ {"delete"} /\ job[j].state \notin {"initialize", "check", "pull_manifest"}
  BY DEF Working, WithManifest
<1>5. ASSUME NEW t \in Tags, Owes(job[j], t, src[t]), dst'[t] # src[t] PROVE Owes(r, t, src[t])
  <2>1. ~Due(job[j], t)
    BY <1>4 DEF Due, Working
  <2>2. t \in Elements(Tail(job[j].tags))
    BY <1>4, <1>5, <2>1 DEF Owes
  <2> QED
    BY <1>1, <2>2 DEF Owes
<1>6. r.state \in (Working \ {"initialize", "delete"}) \cup Ended /\ r.state \notin WithManifest
  BY <1>1 DEF Working, WithManifest
<1> QED
  BY <1>1, <1>2, <1>3, <1>4, <1>5, <1>6, GoesOn

\* A step from one request about tags[0] to the next.
LEMMA SameTag ==
  ASSUME IInv, SerialInv, NEW j \in Jobs, NEW r, job' = [job EXCEPT ![j] = r],
         job[j].state \in WithManifest, r.state \in WithManifest,
         r.op = job[j].op, r.want = job[j].want, r.tags = job[j].tags, r.manifest = job[j].manifest,
         UNCHANGED <<src, dst, enabled, overlap>>
  PROVE  SerialInv'
<1>1. job[j].state \in Working \ {"delete"} /\ r.state \in Working \ {"initialize", "delete"}
  BY DEF Working, WithManifest
<1>2. \A t \in Tags : Owes(job[j], t, src[t]) => Owes(r, t, src[t])
  BY DEF Owes, Due, WithManifest
<1> QED
  BY <1>1, <1>2, GoesOn, DstUnchanged

\* Requests of a handler.
LEMMA WorkCovers ==
  ASSUME IInv, SerialInv, NEW j \in Jobs, Work(j) \/ Unanswered(j)
  PROVE  SerialInv'
<1>s. \A s : LET r == [job[j] EXCEPT !.state = s]
             IN  /\ r.state = s /\ r.op = job[j].op /\ r.want = job[j].want
                 /\ r.tags = job[j].tags /\ r.manifest = job[j].manifest
  BY Fields DEF JobState
<1>r. RowKept(job[j])
  BY DEF SerialInv
<1>1. CASE Initialize(j)
  <2> DEFINE r == [job[j] EXCEPT !.state = "check", !.tags = IF @ = <<>> THEN ListTag ELSE @]
  <2>1. /\ r.state = "check" /\ r.op = job[j].op /\ r.want = job[j].want
        /\ r.tags = IF job[j].tags = <<>> THEN ListTag ELSE job[j].tags
    BY Fields DEF JobState
  <2>2. job' = [job EXCEPT ![j] = r]
    BY <1>1 DEF Initialize, Become
  <2> HIDE DEF r
  <2>3. Elements(ListTag) = {t \in Tags : src[t] # NoManifest}
    <3> DEFINE S == {t \in Tags : src[t] # NoManifest}
    <3>1. S \in SUBSET Tags /\ ListTag = Listing[S]
      BY DEF ListTag
    <3> HIDE DEF S
    <3>2. S = {Listing[S][i] : i \in 1..Len(Listing[S])}
      BY <3>1, TransferAssumption
    <3>3. Elements(ListTag) = S
      BY <3>1, <3>2 DEF Elements
    <3> QED
      BY <3>3 DEF S
  <2>4. job[j].want = <<>> \/ Elements(r.tags) \subseteq Elements(job[j].tags)
    BY <1>1, <1>r, <2>1 DEF Initialize, RowKept
  <2>5. CASE Covered
    <3>1. \A t \in Tags : dst[t] # src[t] => src[t] # NoManifest
      BY <2>5 DEF Covered
    <3>2. \A t \in Tags : Owes(job[j], t, src[t]) /\ dst[t] # src[t] => Owes(r, t, src[t])
      BY <1>1, <2>1, <2>3, <3>1 DEF Initialize, Owes, Due, WithManifest
    <3>3. /\ job[j].state \in Working \ {"delete"} /\ r.state \notin WithManifest
          /\ r.state \in (Working \ {"initialize", "delete"}) \cup Ended
      BY <1>1, <2>1 DEF Initialize, Working, WithManifest
    <3> QED
      BY <1>1, <2>1, <2>2, <2>4, <3>2, <3>3, GoesOn, DstUnchanged DEF Initialize
  <2>6. CASE ~Covered
    <3>1. RowKept(r)
      BY <1>1, <1>r, <2>1, <2>4 DEF Initialize, RowKept, Working
    <3>2. enabled
      BY <1>1 DEF Initialize, SerialInv, Idle
    <3>3. Deleting(job[j]) => Deleting(r)
      BY <2>1 DEF Deleting
    <3> QED
      BY <1>1, <2>2, <2>6, <3>1, <3>2, <3>3, SerialStep DEF Initialize
  <2> QED
    BY <2>5, <2>6
<1>2. CASE Check(j)
  <2> DEFINE r == [job[j] EXCEPT !.state = "pull_manifest"]
  <2>1. /\ r.state = "pull_manifest" /\ r.op = job[j].op /\ r.want = job[j].want /\ r.tags = job[j].tags
    BY <1>s
  <2>2. job' = [job EXCEPT ![j] = r]
    BY <1>2 DEF Check, Goto, Become
  <2> HIDE DEF r
  <2>3. /\ job[j].state \in Working \ {"delete"} /\ r.state \notin WithManifest
        /\ r.state \in (Working \ {"initialize", "delete"}) \cup Ended
    BY <1>2, <2>1 DEF Check, Working, WithManifest
  <2>4. \A t \in Tags : Owes(job[j], t, src[t]) => Owes(r, t, src[t])
    BY <1>2, <2>1 DEF Check, Owes, Due, WithManifest
  <2> QED
    BY <1>2, <2>1, <2>2, <2>3, <2>4, GoesOn, DstUnchanged DEF Check
<1>3. CASE PullManifest(j)
  <2> DEFINE m == src[Head(job[j].tags)]
  <2>0. job[j].state \in Working \ {"delete"} /\ UNCHANGED <<src, dst, enabled, overlap>>
    BY <1>3 DEF PullManifest, Working
  <2>1. CASE job[j].tags = <<>> /\ Goto(j, "finished")
    <3> DEFINE r == [job[j] EXCEPT !.state = "finished"]
    <3>1. /\ r.state = "finished" /\ r.op = job[j].op /\ r.want = job[j].want /\ r.tags = job[j].tags
      BY <1>s
    <3>2. job' = [job EXCEPT ![j] = r]
      BY <2>1 DEF Goto, Become
    <3> HIDE DEF r
    <3>3. \A t \in Tags : ~Owes(job[j], t, src[t])
      BY <1>3, <2>1 DEF PullManifest, Owes, Due, WithManifest, Elements
    <3>4. r.state \in Ended /\ r.state \notin WithManifest
      BY <3>1 DEF Ended, WithManifest
    <3> QED
      BY <2>0, <3>1, <3>2, <3>3, <3>4, GoesOn, DstUnchanged
  <2>2. CASE Goto(j, "error")
    BY <1>3, <2>0, <2>2, PutOff, DstUnchanged DEF Goto, Become
  <2>3. CASE job[j].tags # <<>> /\ m # NoManifest
             /\ Become(j, [job[j] EXCEPT !.state = "blob_exist", !.manifest = m])
    <3> DEFINE r == [job[j] EXCEPT !.state = "blob_exist", !.manifest = m]
    <3>1. /\ r.state = "blob_exist" /\ r.op = job[j].op /\ r.want = job[j].want
          /\ r.tags = job[j].tags /\ r.manifest = m
      BY Fields DEF JobState
    <3>2. job' = [job EXCEPT ![j] = r]
      BY <2>3 DEF Become
    <3> HIDE DEF r
    <3>3. Elements(job[j].tags) = {Head(job[j].tags)} \cup Elements(Tail(job[j].tags))
      BY <2>3, Fields, ElementsSplit
    <3>4. \A t \in Tags : Owes(job[j], t, src[t]) => Owes(r, t, src[t])
      BY <1>3, <3>1, <3>3 DEF PullManifest, Owes, Due, WithManifest
    <3>5. r.state \in Working \ {"initialize", "delete"}
      BY <3>1 DEF Working
    <3> QED
      BY <2>0, <2>3, <3>1, <3>2, <3>4, <3>5, GoesOn, DstUnchanged
  <2> QED
    BY <1>3, <2>1, <2>2, <2>3 DEF PullManifest
<1>4. CASE BlobExist(j)
  <2>1. PICK e, B : job' = [job EXCEPT ![j] =
                              [job[j] EXCEPT !.state = "transfer_blob", !.exist = e, !.blobs = B]]
    BY <1>4 DEF BlobExist, Become
  <2> DEFINE r == [job[j] EXCEPT !.state = "transfer_blob", !.exist = e, !.blobs = B]
  <2>2. /\ r.state = "transfer_blob" /\ r.op = job[j].op /\ r.want = job[j].want
        /\ r.tags = job[j].tags /\ r.manifest = job[j].manifest
    BY Fields DEF JobState
  <2>3. job' = [job EXCEPT ![j] = r]
    BY <2>1
  <2> HIDE DEF r
  <2> QED
    BY <1>4, <2>2, <2>3, SameTag DEF BlobExist, WithManifest
<1>5. ASSUME NEW b \in Blobs, TransferBlob(j, b)
      PROVE  SerialInv'
  <2>1. CASE Become(j, [job[j] EXCEPT !.blobs = @ \ {b}]) /\ UNCHANGED bounds
    <3> DEFINE r == [job[j] EXCEPT !.blobs = @ \ {b}]
    <3>1. /\ r.state = job[j].state /\ r.op = job[j].op /\ r.want = job[j].want
          /\ r.tags = job[j].tags /\ r.manifest = job[j].manifest
      BY Fields DEF JobState
    <3>2. job' = [job EXCEPT ![j] = r]
      BY <2>1 DEF Become
    <3> HIDE DEF r
    <3> QED
      BY <1>5, <2>1, <3>1, <3>2, SameTag DEF TransferBlob, WithManifest
  <2>2. CASE NetError(j)
    <3>1. enabled /\ job[j].state \in Working
      BY <1>5 DEF TransferBlob, SerialInv, Idle, Working
    <3> QED
      BY <1>5, <2>2, <3>1, PutOff, DstUnchanged DEF TransferBlob, NetError, Goto, Become
  <2> QED
    BY <1>5, <2>1, <2>2 DEF TransferBlob, Answered
<1>6. ASSUME NEW s \in WithManifest, Goto(j, s), job[j].state \in WithManifest,
             UNCHANGED <<src, dst, enabled, overlap>>
      PROVE  SerialInv'
  <2> DEFINE r == [job[j] EXCEPT !.state = s]
  <2>1. /\ r.state = s /\ r.op = job[j].op /\ r.want = job[j].want
        /\ r.tags = job[j].tags /\ r.manifest = job[j].manifest
    BY <1>s
  <2>2. job' = [job EXCEPT ![j] = r]
    BY <1>6 DEF Goto, Become
  <2> HIDE DEF r
  <2> QED
    BY <1>6, <2>1, <2>2, SameTag
<1>7. CASE BlobsDone(j)
  BY <1>6, <1>7 DEF BlobsDone, WithManifest
<1>8. CASE CheckSource(j)
  <2>0. job[j].state \in WithManifest
    BY <1>8 DEF CheckSource, WithManifest
  <2>1. CASE src[Head(job[j].tags)] = NoManifest /\ Become(j, NextTag(job[j]))
    <3>1. job[j].manifest # src[Head(job[j].tags)]
      BY <2>0, <2>1, Fields, TransferAssumption
    <3> QED
      BY <1>8, <2>0, <2>1, <3>1, NextTagCovers, DstUnchanged DEF CheckSource, Become
  <2>2. CASE Goto(j, "compare")
    BY <1>6, <1>8, <2>0, <2>2 DEF CheckSource, WithManifest
  <2> QED
    BY <1>8, <2>1, <2>2 DEF CheckSource
<1>9. CASE Compare(j)
  <2>0. job[j].state \in WithManifest
    BY <1>9 DEF Compare, WithManifest
  <2>1. CASE dst[Head(job[j].tags)] = job[j].manifest /\ Become(j, NextTag(job[j])) /\ UNCHANGED bounds
    BY <1>9, <2>0, <2>1, NextTagCovers, DstUnchanged DEF Compare, Become
  <2>2. CASE Goto(j, "push") /\ UNCHANGED overlap
    BY <1>6, <1>9, <2>0, <2>2 DEF Compare, WithManifest
  <2> QED
    BY <1>9, <2>1, <2>2 DEF Compare
<1>10. CASE PushManifest(j)
  <2> DEFINE h == Head(job[j].tags)
  <2>0. /\ job[j].state \in WithManifest /\ job[j].state \in Working
        /\ h \in Tags /\ job[j].manifest \in Manifests
    BY <1>10, Fields DEF PushManifest, WithManifest, Working
  <2>1. src' = src /\ enabled' = enabled /\ enabled
    BY <1>10 DEF PushManifest, SerialInv, Idle
  <2>2. CASE Goto(j, "error") /\ UNCHANGED <<dst, bounds>>
    BY <2>0, <2>1, <2>2, PutOff, DstUnchanged DEF Goto, Become
  <2>3. CASE dst' = [dst EXCEPT ![h] = job[j].manifest] /\ Answered(j, NextTag(job[j]))
    <3>1. \A t \in Tags : dst'[t] = IF t = h THEN job[j].manifest ELSE dst[t]
      BY <2>3 DEF IInv, TypeOK, Contents
    <3>2. ASSUME Covered PROVE DstOwed
      <4>1. /\ src[h] # NoManifest
            /\ job[j].manifest # src[h] => \E k \in Jobs : Due(job[k], h)
        BY <2>0, <3>2 DEF Covered
      <4>2. ASSUME NEW t \in Tags, dst'[t] # src[t]
            PROVE  \E k \in Jobs : Owes(job[k], t, src[t])
        <5>1. CASE t = h
          BY <3>1, <4>1, <4>2, <5>1 DEF Owes
        <5>2. CASE t # h
          BY <3>1, <3>2, <4>2, <5>2 DEF Covered
        <5> QED
          BY <5>1, <5>2
      <4>3. \A t \in Tags : src[t] = NoManifest => dst'[t] = NoManifest
        BY <3>1, <3>2, <4>1 DEF Covered
      <4> QED
        BY <4>2, <4>3 DEF DstOwed
    <3>3. CASE Become(j, NextTag(job[j])) /\ UNCHANGED bounds
      BY <2>0, <2>1, <3>1, <3>2, <3>3, NextTagCovers DEF Become
    <3>4. CASE NetError(j)
      BY <2>0, <2>1, <3>2, <3>4, PutOff DEF NetError, Goto, Become
    <3> QED
      BY <2>3, <3>3, <3>4 DEF Answered
  <2> QED
    BY <1>10, <2>2, <2>3 DEF PushManifest
<1>11. CASE DeleteImage(j)
  <2>0. job[j].op = "delete" /\ job[j].state \in Working /\ enabled /\ enabled' = enabled
    BY <1>11, <1>r DEF DeleteImage, RowKept, Working, SerialInv, Idle
  <2>1. ASSUME NEW r, job' = [job EXCEPT ![j] = r], RowKept(r), Deleting(r), overlap' = overlap
        PROVE  SerialInv'
    BY <2>0, <2>1, SerialStep
  <2>2. ASSUME NEW s \in {"waiting", "finished"}, Goto(j, s), overlap' = overlap
        PROVE  SerialInv'
    <3> DEFINE r == [job[j] EXCEPT !.state = s]
    <3>1. r.state = s /\ r.op = job[j].op
      BY <1>s
    <3>2. job' = [job EXCEPT ![j] = r]
      BY <2>2 DEF Goto, Become
    <3> HIDE DEF r
    <3>3. RowKept(r) /\ Deleting(r)
      BY <2>0, <3>1 DEF RowKept, Deleting, Working
    <3> QED
      BY <2>1, <2>2, <3>2, <3>3
  <2>3. CASE /\ job[j].tags # <<>> /\ Become(j, [job[j] EXCEPT !.tags = Tail(@)])
             /\ UNCHANGED bounds
    <3> DEFINE r == [job[j] EXCEPT !.tags = Tail(@)]
    <3>1. /\ r.state = job[j].state /\ r.op = job[j].op /\ r.want = job[j].want
          /\ r.tags = Tail(job[j].tags)
      BY Fields DEF JobState
    <3>2. job' = [job EXCEPT ![j] = r]
      BY <2>3 DEF Become
    <3> HIDE DEF r
    <3>3. Elements(r.tags) \subseteq Elements(job[j].tags)
      BY <2>3, <3>1, Fields, ElementsSplit
    <3>4. RowKept(r) /\ Deleting(r)
      BY <1>11, <1>r, <2>0, <3>1, <3>3 DEF DeleteImage, RowKept, Deleting
    <3> QED
      BY <2>1, <2>3, <3>2, <3>4
  <2> QED
    BY <1>11, <2>2, <2>3 DEF DeleteImage, Answered, NetError
<1>12. CASE Unanswered(j)
  <2>1. job[j].state \in Working /\ UNCHANGED <<src, dst, enabled, overlap>>
    BY <1>12 DEF Unanswered, NetError, Failure
  <2>2. enabled
    BY <2>1 DEF SerialInv, Idle, Working
  <2>3. PICK s \in {"waiting", "error"} : Goto(j, s)
    BY <1>12 DEF Unanswered, NetError, Failure
  <2> QED
    BY <2>1, <2>2, <2>3, PutOff, DstUnchanged DEF Goto, Become
<1> QED
  BY <1>1, <1>2, <1>3, <1>4, <1>5, <1>7, <1>8, <1>9, <1>10, <1>11, <1>12 DEF Work

\* Every step keeps the invariant.
LEMMA SerialKept == IInv /\ SerialInv /\ [Next]_vars => SerialInv'
<1> SUFFICES ASSUME IInv, SerialInv, [Next]_vars PROVE SerialInv'
  OBVIOUS
<1>1. CASE UNCHANGED vars
  BY <1>1 DEF SerialInv, Covered
<1>2. CASE Next
  BY <1>2, UserStepCovers, TriggerStartCovers, WorkCovers DEF Next, UserStep
<1> QED
  BY <1>1, <1>2

\* As long as jobs have come one after the other and nobody has deleted a tag, an enabled
\* policy and jobs that are all finished mean that the destination has what the source has,
\* for any pushes in between, any network errors and any order of the jobs.
THEOREM SerialAlwaysAgrees == Spec => []SerialAgrees
<1>1. Init => SerialInv
  <2> SUFFICES ASSUME Init PROVE SerialInv
    OBVIOUS
  <2>1. \A j \in Jobs : job[j].state = "none"
    BY DEF Init, NewJob
  <2>2. \A j \in Jobs : RowKept(job[j]) /\ Idle(job[j])
    BY <2>1 DEF RowKept, Idle, Working
  <2> QED
    BY <2>2 DEF Init, SerialInv
<1>2. IInv /\ SerialInv => SerialAgrees
  <2> SUFFICES ASSUME IInv, SerialInv, ~overlap, \A j \in Jobs : job[j].op # "delete", enabled,
                      \A j \in Jobs : job[j].state \in {"none", "finished"}
               PROVE  dst = src
    BY DEF SerialAgrees, QuietAgrees
  <2>1. Covered
    BY DEF SerialInv, Deleting
  <2>2. \A k \in Jobs, t \in Tags : ~Owes(job[k], t, src[t])
    BY DEF Owes, Due, WithManifest
  <2>3. \A t \in Tags : dst[t] = src[t]
    BY <2>1, <2>2 DEF Covered
  <2> QED
    BY <2>3 DEF IInv, TypeOK, Contents
<1> QED
  BY <1>1, <1>2, SerialKept, Invariance, PTL DEF Spec
=============================================================================
