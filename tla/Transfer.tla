------------------------------ MODULE Transfer ------------------------------
(***************************************************************************)
(* What the handlers of replication jobs do to the registries: one         *)
(* repository, its tags in the source and in the destination registry, the *)
(* pushes and deletions of users in the source, the triggers these give,   *)
(* and the jobs that copy and delete tags.                                 *)
(*                                                                         *)
(* A step is one request to a registry.  The queue, the worker pool and    *)
(* the rows of the jobs are the subject of module JobService; here a job   *)
(* waits, works while a worker is free for it, is put off by a network     *)
(* error and then starts from the beginning, or ends.                      *)
(***************************************************************************)
EXTENDS Naturals, Sequences, FiniteSets

CONSTANTS Jobs,         \* ids of jobs
          Tags,         \* tags of the repository
          Listing,      \* a set of tags in the order the registry lists them
          Manifests,    \* manifests, each standing for its digest too
          Blobs,        \* blobs
          Layers,       \* blobs a manifest references
          Config,       \* the config blob of a manifest of schema 2; of schema 1: none
          NoManifest,   \* no manifest: tag not there
          Images,       \* bound: the <<tag, manifest>> that users push
          MaxWorkers,   \* workers of the job service (MAX_JOB_WORKERS)
          Deletions,    \* bound: users delete tags
          MaxNetErrors, \* bound: requests that end in a network error
          MaxFailures   \* bound: requests that fail otherwise

ASSUME TransferAssumption ==
  /\ Listing \in [SUBSET Tags -> Seq(Tags)]
  /\ \A S \in SUBSET Tags : S = {Listing[S][i] : i \in 1..Len(Listing[S])}
  /\ Layers \in [Manifests -> SUBSET Blobs]
  /\ Config \in [Manifests -> SUBSET Blobs]
  /\ NoManifest \notin Manifests
  /\ Images \subseteq Tags \X Manifests
  /\ MaxWorkers \in Nat
  /\ Deletions \in BOOLEAN
  /\ MaxNetErrors \in Nat
  /\ MaxFailures \in Nat

VARIABLES
  src,        \* source registry: manifest of each tag
  dst,        \* destination registry: manifest of each tag
  dstBlobs,   \* blobs in the destination registry
  past,       \* history: manifests each tag has had in the source
  enabled,    \* the policy is enabled
  job,        \* each job with its BaseHandler or Deleter, see JobState
  netErrors, failures,
  overlap     \* history: two workers have had jobs at the same time

registries == <<src, dst, dstBlobs, past>>
bounds     == <<netErrors, failures, overlap>>
vars       == <<registries, enabled, job, bounds>>

Contents == [Tags -> Manifests \cup {NoManifest}]

\* States of the state machine that have a handler with requests; "blob_exist" is the
\* second half of pull_manifest, "compare" and "push" are the rest of push_manifest.
Working == {"initialize", "check", "pull_manifest", "blob_exist", "transfer_blob",
            "push_manifest", "compare", "push", "delete"}
Ended   == {"finished", "error"}

JobState ==
  [state    : Working \cup Ended \cup {"none", "removing", "triggered", "waiting"},
   op       : {"transfer", "delete"},
   want     : Seq(Tags),                          \* tags column; empty: all tags
   tags     : Seq(Tags),                          \* tags left to do
   manifest : Manifests \cup {NoManifest},        \* manifest of tags[0], with its digest
   blobs    : SUBSET Blobs,                       \* blobs of tags[0] left to transfer
   exist    : [Blobs -> {"unknown", "yes", "no"}]] \* blobsExistence

\* Where a handler is busy with tags[0] and its manifest.
WithManifest == {"blob_exist", "transfer_blob", "push_manifest", "compare", "push"}

NewJob ==
  [state |-> "none", op |-> "transfer", want |-> <<>>, tags |-> <<>>,
   manifest |-> NoManifest, blobs |-> {}, exist |-> [b \in Blobs |-> "unknown"]]

TypeOK ==
  /\ src \in Contents /\ dst \in Contents
  /\ dstBlobs \in SUBSET Blobs
  /\ past \in [Tags -> SUBSET Manifests]
  /\ enabled \in BOOLEAN
  /\ job \in [Jobs -> JobState]
  /\ \A j \in Jobs : job[j].state \in WithManifest =>
       job[j].tags # <<>> /\ job[j].manifest \in Manifests
  /\ netErrors \in 0..MaxNetErrors
  /\ failures \in 0..MaxFailures
  /\ overlap \in BOOLEAN

Init ==
  /\ src = [t \in Tags |-> NoManifest]
  /\ dst = [t \in Tags |-> NoManifest]
  /\ dstBlobs = {}
  /\ past = [t \in Tags |-> {}]
  /\ enabled = FALSE
  /\ job = [j \in Jobs |-> NewJob]
  /\ netErrors = 0
  /\ failures = 0
  /\ overlap = FALSE

-----------------------------------------------------------------------------
(***************************************************************************)
(* Outcomes of a request.                                                  *)
(***************************************************************************)
Become(j, r) == job' = [job EXCEPT ![j] = r]

Goto(j, s) == Become(j, [job[j] EXCEPT !.state = s])

\* A network error puts the job off: Retry and Reschedule, later everything anew.
NetError(j) ==
  /\ netErrors < MaxNetErrors
  /\ netErrors' = netErrors + 1
  /\ Goto(j, "waiting")
  /\ UNCHANGED <<failures, overlap>>

\* Any other error ends it.
Failure(j) ==
  /\ failures < MaxFailures
  /\ failures' = failures + 1
  /\ Goto(j, "error")
  /\ UNCHANGED <<netErrors, overlap>>

\* A request of job j that has its effect: the job goes on as r, unless the answer is lost.
Answered(j, r) ==
  \/ Become(j, r) /\ UNCHANGED bounds
  \/ NetError(j)

\* A request without effect, where the handler makes one and looks at its error.
Unanswered(j) ==
  /\ job[j].state \in Working \ {"compare"}
  /\ job[j].state \in {"pull_manifest", "delete"} => job[j].tags # <<>>
  /\ job[j].state = "transfer_blob" => job[j].blobs # {}
  /\ NetError(j) \/ Failure(j)
  /\ UNCHANGED <<registries, enabled>>

-----------------------------------------------------------------------------
(***************************************************************************)
(* Users.                                                                  *)
(***************************************************************************)

\* A registry deletes a manifest: every tag that has it is gone.
Without(registry, m) == [t \in Tags |-> IF registry[t] = m THEN NoManifest ELSE registry[t]]

\* A push to the source; the notification handler starts a trigger for it.
Push(t, m, j) ==
  /\ <<t, m>> \in Images
  /\ job[j].state = "none"
  /\ src' = [src EXCEPT ![t] = m]
  /\ past' = [past EXCEPT ![t] = @ \cup {m}]
  /\ Become(j, [NewJob EXCEPT !.state = "triggered", !.want = <<t>>])
  /\ UNCHANGED <<dst, dstBlobs, enabled, bounds>>

\* RepositoryAPI.Delete of one tag: Repository.DeleteTag asks for the digest ...  A tag that
\* is gone, taken along by the deletion of another, is deleted as long as its image has a row.
FindDigest(t, j) ==
  /\ Deletions
  /\ past[t] # {}
  /\ job[j].state = "none"
  /\ Become(j, [NewJob EXCEPT !.state = IF src[t] = NoManifest THEN "triggered" ELSE "removing",
                              !.op = "delete", !.want = <<t>>, !.manifest = src[t]])
  /\ UNCHANGED <<registries, enabled, bounds>>

\* ... and deletes that manifest; Delete then starts a trigger, unless manifest and row are
\* gone already.
DeleteManifest(j) ==
  /\ job[j].state = "removing"
  /\ src' = Without(src, job[j].manifest)
  /\ \/ Become(j, [job[j] EXCEPT !.state = "triggered", !.manifest = NoManifest])
     \/ (\A t \in Tags : src[t] # job[j].manifest) /\ Become(j, NewJob)
  /\ UNCHANGED <<dst, dstBlobs, past, enabled, bounds>>

\* UpdateEnablement, which starts a trigger for the whole project.
Enable(j) ==
  /\ ~enabled
  /\ job[j].state = "none"
  /\ enabled' = TRUE
  /\ Become(j, [NewJob EXCEPT !.state = "triggered"])
  /\ UNCHANGED <<registries, bounds>>

\* The goroutine of a trigger: it looks for enabled policies, unless it is for one policy,
\* and posts to the job service, where addJob makes the job.  An error is only logged.
Trigger(j) ==
  /\ job[j].state = "triggered"
  /\ \/ /\ enabled \/ job[j].want = <<>>
        /\ Goto(j, "waiting") /\ UNCHANGED bounds
     \/ /\ ~enabled /\ job[j].want # <<>>
        /\ Become(j, NewJob) /\ UNCHANGED bounds
     \/ Failure(j)
  /\ UNCHANGED <<registries, enabled>>

-----------------------------------------------------------------------------
(***************************************************************************)
(* The handlers of a transfer.                                             *)
(***************************************************************************)

\* A worker takes up the job: Reset makes a new handler from the row.
Start(j) ==
  /\ job[j].state = "waiting"
  /\ Cardinality({i \in Jobs : job[i].state \in Working}) < MaxWorkers
  /\ Become(j, [NewJob EXCEPT
                  !.state = IF job[j].op = "transfer" THEN "initialize" ELSE "delete",
                  !.op = job[j].op, !.want = job[j].want, !.tags = job[j].want])
  /\ overlap' = (overlap \/ \E i \in Jobs : job[i].state \in Working)
  /\ UNCHANGED <<registries, enabled, netErrors, failures>>

ListTag == Listing[{t \in Tags : src[t] # NoManifest}]

\* Initializer: without tags in the row, all tags of the source.
Initialize(j) ==
  /\ job[j].state = "initialize"
  /\ Become(j, [job[j] EXCEPT !.state = "check",
                              !.tags = IF @ = <<>> THEN ListTag ELSE @])
  /\ UNCHANGED <<registries, enabled, bounds>>

\* Checker: the project is created on the target, or is there already.
Check(j) ==
  /\ job[j].state = "check"
  /\ Goto(j, "pull_manifest")
  /\ UNCHANGED <<registries, enabled, bounds>>

\* Mutant of PullManifest: the error of a tag that is gone is not returned.
PullManifest_NoError(j) ==
  /\ job[j].state = "pull_manifest"
  /\ IF job[j].tags = <<>> THEN Goto(j, "finished")
     ELSE Become(j, [job[j] EXCEPT !.state = "blob_exist", !.manifest = src[Head(job[j].tags)]])
  /\ UNCHANGED <<registries, enabled, bounds>>

\* ManifestPuller, from the source: a tag that is gone is an error.
PullManifest(j) ==
  /\ job[j].state = "pull_manifest"
  /\ IF job[j].tags = <<>> THEN Goto(j, "finished")
     ELSE LET m == src[Head(job[j].tags)] IN
          IF m = NoManifest THEN Goto(j, "error")
          ELSE Become(j, [job[j] EXCEPT !.state = "blob_exist", !.manifest = m])
  /\ UNCHANGED <<registries, enabled, bounds>>

\* Mutant of NeededBlobs: the config is forgotten.
NeededBlobs_LayersOnly(m) == Layers[m]

\* All blobs of a manifest: the layers it references and, in schema 2, the config.
NeededBlobs(m) == Layers[m] \cup Config[m]

\* ManifestPuller, from the destination: which blobs have to be transferred.
BlobExist(j) ==
  /\ job[j].state = "blob_exist"
  /\ LET found == [b \in Blobs |->
                     IF b \in NeededBlobs(job[j].manifest) /\ job[j].exist[b] = "unknown"
                     THEN IF b \in dstBlobs THEN "yes" ELSE "no"
                     ELSE job[j].exist[b]]
     IN Become(j, [job[j] EXCEPT !.state = "transfer_blob", !.exist = found,
                     !.blobs = {b \in NeededBlobs(job[j].manifest) : found[b] # "yes"}])
  /\ UNCHANGED <<registries, enabled, bounds>>

\* BlobTransfer: one blob after the other.
TransferBlob(j, b) ==
  /\ job[j].state = "transfer_blob"
  /\ b \in job[j].blobs
  /\ dstBlobs' = dstBlobs \cup {b}
  /\ Answered(j, [job[j] EXCEPT !.blobs = @ \ {b}])
  /\ UNCHANGED <<src, dst, past, enabled>>

BlobsDone(j) ==
  /\ job[j].state = "transfer_blob"
  /\ job[j].blobs = {}
  /\ Goto(j, "push_manifest")
  /\ UNCHANGED <<registries, enabled, bounds>>

\* The end of ManifestPusher.
NextTag(r) == [r EXCEPT !.state = "pull_manifest", !.tags = Tail(@),
                        !.manifest = NoManifest, !.blobs = {}]

\* ManifestPusher, first request: a tag that is gone from the source is left out.
CheckSource(j) ==
  /\ job[j].state = "push_manifest"
  /\ IF src[Head(job[j].tags)] = NoManifest THEN Become(j, NextTag(job[j]))
     ELSE Goto(j, "compare")
  /\ UNCHANGED <<registries, enabled, bounds>>

\* Mutants of Compare: a tag that is there is skipped whatever it has; the tag is taken off
\* the list before the manifest is pushed.
Compare_ByTag(j) ==
  /\ job[j].state = "compare"
  /\ \/ dst[Head(job[j].tags)] # NoManifest /\ Become(j, NextTag(job[j]))
     \/ dst[Head(job[j].tags)] = NoManifest /\ Goto(j, "push")
  /\ UNCHANGED <<registries, enabled, bounds>>
Compare_TagsFirst(j) ==
  /\ job[j].state = "compare"
  /\ \/ dst[Head(job[j].tags)] = job[j].manifest /\ Become(j, NextTag(job[j]))
     \/ /\ dst[Head(job[j].tags)] # job[j].manifest /\ Len(job[j].tags) > 1
        /\ Become(j, [job[j] EXCEPT !.state = "push", !.tags = Tail(@)])
  /\ UNCHANGED <<registries, enabled, bounds>>

\* Second request: the same manifest in the destination is not pushed again.  An error of
\* this request, here a network error, is not looked at: the manifest is pushed.
Compare(j) ==
  /\ job[j].state = "compare"
  /\ \/ dst[Head(job[j].tags)] = job[j].manifest /\ Become(j, NextTag(job[j])) /\ UNCHANGED bounds
     \/ dst[Head(job[j].tags)] # job[j].manifest /\ Goto(j, "push") /\ UNCHANGED bounds
     \/ /\ netErrors < MaxNetErrors /\ netErrors' = netErrors + 1
        /\ Goto(j, "push") /\ UNCHANGED <<failures, overlap>>
  /\ UNCHANGED <<registries, enabled>>

\* The destination has all blobs of a manifest.
Stored(m) == Layers[m] \cup Config[m] \subseteq dstBlobs

\* Third request: the destination takes a manifest only with all its blobs.
PushManifest(j) ==
  /\ job[j].state = "push"
  /\ IF Stored(job[j].manifest)
     THEN /\ dst' = [dst EXCEPT ![Head(job[j].tags)] = job[j].manifest]
          /\ Answered(j, NextTag(job[j]))
     ELSE Goto(j, "error") /\ UNCHANGED <<dst, bounds>>
  /\ UNCHANGED <<src, dstBlobs, past, enabled>>

-----------------------------------------------------------------------------
(***************************************************************************)
(* The handler of a deletion: one request per tag to the API of the        *)
(* target, where a tag that is not found is passed over.  Every deletion   *)
(* job has a tag: RepositoryAPI.Delete triggers one job for each.          *)
(***************************************************************************)
DeleteImage(j) ==
  /\ job[j].state = "delete"
  /\ IF job[j].tags = <<>> THEN Goto(j, "finished") /\ UNCHANGED <<dst, bounds>>
     ELSE /\ dst' = Without(dst, dst[Head(job[j].tags)])
          /\ Answered(j, [job[j] EXCEPT !.tags = Tail(@)])
  /\ UNCHANGED <<src, dstBlobs, past, enabled>>

-----------------------------------------------------------------------------
Work(j) ==
  \/ Initialize(j) \/ Check(j) \/ PullManifest(j) \/ BlobExist(j)
  \/ \E b \in Blobs : TransferBlob(j, b)
  \/ BlobsDone(j) \/ CheckSource(j) \/ Compare(j) \/ PushManifest(j) \/ DeleteImage(j)

UserStep ==
  \E j \in Jobs : \/ \E t \in Tags, m \in Manifests : Push(t, m, j)
                  \/ \E t \in Tags : FindDigest(t, j)
                  \/ DeleteManifest(j)
                  \/ Enable(j)

Next == UserStep \/ \E j \in Jobs : Trigger(j) \/ Start(j) \/ Work(j) \/ Unanswered(j)

Spec == Init /\ [][Next]_vars

-----------------------------------------------------------------------------
\* The destination never refuses a manifest for missing blobs: what BlobTransfer has
\* transferred and what blobsExistence remembers from earlier tags are all it needs.
PushAccepted ==
  \A j \in Jobs : job[j].state = "push" => Stored(job[j].manifest)

\* The destination follows the source as Mirror says: under a tag it gets only what the
\* source has had under the same tag, whatever is pushed, deleted and tried again meanwhile.
M == INSTANCE Mirror WITH Tags <- Tags, Manifests <- Manifests, NoManifest <- NoManifest,
                         src <- src, dst <- dst, past <- past
MirrorsSource == M!Spec

\* With the policy enabled and every job finished, the destination has what the source
\* has: the changes made while jobs were under way are not missed.
QuietAgrees ==
  enabled /\ (\A j \in Jobs : job[j].state \in {"none", "finished"}) => dst = src

\* So it is as long as jobs have come one after the other and nobody has deleted a tag, even
\* if network errors change the order of the jobs.
SerialAgrees == ~overlap /\ (\A j \in Jobs : job[j].op # "delete") => QuietAgrees
=============================================================================
