# TLA+ models of Harbor

Harbor is a registry server: the `ui` process (REST API, notification and token
service, web pages), the `jobservice` process (replication jobs), MySQL, a docker
registry, an nginx proxy, a Clair scanner and, for replication, a remote Harbor (the
*target*).  This directory models the parts of the program that keep state over several
steps and are shared by several goroutines or processes.

## 1. Inventory

| part | state | operations | interacts with |
|---|---|---|---|
| worker pool, dispatcher, scheduler (`job/workerpool.go`, `job/scheduler.go`) | channel of job ids, channel of free workers, one goroutine per waiting job, one timer per retrying job | `Schedule`, `Reschedule`, `Dispatch`, `Worker.Start`, `StopJobs` | state machines, job API |
| job state machine (`job/statemachine.go`, `job/statehandlers.go`) | `CurrentState`, `JobID`, `desiredState` (under a lock), transition table, handlers | `Reset`, `Start`, `EnterState`, `Stop`; `StatusUpdater`, `Retry` | MySQL rows, handlers, timers |
| job handlers (`job/replication`) | tags left, manifest and digest of the first, blobs to copy, cache of blob existence | `Initializer`, `Checker`, `ManifestPuller`, `BlobTransfer`, `ManifestPusher`, `Deleter` | both registries, project API of the target |
| job service process (`jobservice/main.go`) | nothing beyond the above: all of it is lost with the process | start, `resumeJobs`, serve; restarted by docker | MySQL |
| job service API (`api/jobs/replication.go`) | - | `Post` (one job per repository), `HandleAction` (stop), `GetLog` | pool, rows |
| replication rows (`dao/replication_job.go`) | jobs, policies, targets | status update, queries by status and policy, soft and hard deletion | everything |
| replication API of the ui (`api/replication_job.go`, `replication_policy.go`, `target.go`, `utils.go`) | - | create, change, enable, delete policies and targets; delete jobs; trigger replication over HTTP | rows, job service |
| notification handler (`service/notification.go`, `images.go`, `checkAndmail.go`) | one goroutine per push | access log, repository row, trigger of replication, image count and size, scan result, mails | registry, Clair, quota rows |
| quota (`dao/quota.go`, `dao/clairResult.go`, `api/repository.go`) | used and allowed count and size per project, one row per image | count, add, free, change of the limits | notification handler, repository deletion, token service |
| token service (`service/token`) | - | which actions a token grants, from role, publicity and quota | registry |
| project and repository API (`api/project.go`, `api/repository.go`) | project, member, repository rows | create, delete, copy, toggle publicity | registry, policies, quota |
| catalog cache (`service/cache`, `api/utils.go`) | list of repositories in a cache with a time to live | refresh, read, `SyncRegistry` | registry, repository rows |
| users, members, roles (`api/user.go`, `api/member.go`, `dao/user.go`, `controllers/password.go`) | user, member and role rows, the link of a reset mail | register, change, delete, reset by mail, add and change members, admin flag | MySQL, mail |
| authentication (`auth`) | - | login by database or LDAP, which registers the user | user rows, LDAP |
| search (`api/search.go`) | - | merge of the cached repositories with the projects of the user | catalog cache |
| access log, statistics, pages | rows | one statement each | MySQL |

What is hard in it: every worker, timer, stop request and notification is a goroutine;
the two processes share rows without transactions (status checks and the statements they
guard are separate); statements may fail and most errors are only logged; the job service
loses queue and timers with its process and has to find the unfinished jobs again; network
errors are retried for ever; limits (rows per query, workers, quota) are checked away from
where they are used.

What makes the parts correct: a job is with one holder at a time, is not forgotten, ends
once, is stopped only on request, and gets its turn; the destination of a replication has
only complete images and in the end what the source has; the quota of a project is the
sum over its images; a deleted policy, target or project has no users left; a reset link
works once, members survive a change of role, an admin is left; the rows, the cache and the
listings of repositories follow the registry.  The hazards, each at its line, are listed in `PROJECT.json`.

## 2. Module JobService

`JobService.tla` models the job service with the rows it works on.  One step is one
database statement, one critical section of `SM.lock`, one rendezvous on a channel or one
state handler.

| model | code |
|---|---|
| `status`, `polEnabled`, `target`, `project` | columns and rows in MySQL that a job depends on |
| `waiting[j]`, `Assign` | goroutines started by `Dispatch`, blocked on `WorkerPool.workerChan` |
| `sleeping[j]`, `Reschedule` | the goroutine that sleeps five minutes |
| `wk[w]` | `Worker` and its `SM`: program counter, argument of `handleRepJob`, `JobID`, `CurrentState`, the local `n` of `Start`, `desiredState`, number of tags left |
| `ResetLock`, `LoadJob`, `LoadPolicy`, `LoadTarget` | `SM.Reset`, statement by statement |
| `LastWrite` | the writes after which the worker is free again: error or canceled in `handleRepJob`, error in `Start` |
| `ReadDesired`, `ClearDesired`, `FollowNext`, `EnterStatus`, `EnterRetrying` | `SM.Start` and `SM.EnterState` |
| `Initialize` ... `DeleteImage` | the handlers, by outcome: go on, network error (retrying), other error |
| `HandleAction`, `StopJob` | the stop request: list first, then one machine after the other |
| `Boot`, `ResumeQuery`, `ResumeJob`, `Serve` | `main` and `resumeJobs` |
| `Crash`, `Panic` | the process ends: killed from outside, or a nil dereference in a goroutine |
| `DeleteCheck`, `DeleteRepJob`, `UpdateRepPolicyEnablement`, `DeleteRepTarget`, `DeleteProject` | what the ui process does to the same rows |
| `FirstRows` | `All()` of the orm, which returns `RowsLimit` (1000) rows at most |

Abstractions.  `Schedule` and the receive in `Dispatch` are one step: the channel has no
buffer and `Dispatch` only starts a goroutine.  The pairs of job and machine that
`StopJobs` visits are visited in any order, and one stop request per policy runs at a
time.  The five minutes are not timed: a timer may fire at any moment.  The insertion of
a row and its `Schedule` are one step, as a crash between them leaves the same state as a
crash after both.  Target and project of a job may vanish at any time, since the checks
in their deletion handlers are made before the statement and not with it.

### Runs

| run | instance | shows |
|---|---|---|
| `jobs_stop` | 2 jobs (transfer, delete) of one policy, 2 workers, stop, enable and disable, 1 crash | `NoLostJob`, `NoRewrite`, `StoppedWasAsked`, `TableComplete`, `FinalStable` |
| `jobs_faults` | 2 jobs, one with an unsupported operation, 2 workers, 2 failing statements, 1 crash, deletion of jobs, target and project, row limit 1 | `TypeOK`, `ExclusiveHolder` |
| `jobs_live` | 2 policies with a job each, 1 worker, 2 tags, enable and disable, deletion of jobs, 1 crash | `PendingIsHandled`, `DisabledPolicyDrains`, `Recovers` under `FairSpec` |
| `jobs_panic` | deletion of jobs | violated `StatusWriteFindsRow`: a retrying job may be deleted; the worker that takes it up again dereferences a nil error and the process ends |

Two things the code does not promise show when the instance is changed.  With `RowsLimit`
below the number of unfinished jobs `NoLostJob` fails after a crash: `resumeJobs` gets a
thousand rows and no more.  And a stop request does not reach every job of its policy: the
list of `HandleAction` leaves out jobs that are retrying, so one that a worker takes up
meanwhile goes on; what holds instead is `DisabledPolicyDrains`.

Two jobs and two workers are the least with which a machine changes jobs while a stop
request for the old one is under way, a job waits while others run, and two workers could
have the same job; one crash and two faults allow a fault before and after a restart.
Workers are interchangeable (symmetry, safety runs only).  `CHECK_DEADLOCK FALSE`: with
all jobs done and the bounded requests used up, an idle service is as it should be.

Fairness (`Fairness`): goroutines that can run do run, sleeps end, docker restarts the
process (`restart: always`, `Deploy/docker-compose.yml`); `Assign` is strongly fair per
job because a Go channel serves its receivers in the order they came.  Nothing is assumed
of users, network, faults or crashes.  `Recovers` is stated for an instance without
deletion of projects: a job whose project is gone makes the service panic after every
restart (`Checker` dereferences the missing project, `transfer.go:195`).

### Proofs

`JobService_proofs.tla` and `JobServiceSafety_proofs.tla` prove, for every number of
jobs, workers, policies, tags, faults and crashes, under `ConstantsAssumption` only:

| theorem | property |
|---|---|
| `TypeCorrect`, `TagsAlwaysLeft`, `TableSuffices` | `TypeOK`, `TagsLeft`, `TableComplete` |
| `Exclusive` | `ExclusiveHolder` |
| `NothingLost` | `NoLostJob`, for at most `RowsLimit` jobs (`Fits`) |
| `NeverRewrites`, `FinalStays` | `NoRewrite`, `FinalStable` |
| `StopsAreAsked` | `StoppedWasAsked` |

The argument: `LocalInv` ties the fields of one worker to each other (which states go
with which program counter, a tag left where one is needed, a next state the table has);
with it type correctness, `TagsLeft` and `TableComplete` follow.  `ExclusiveHolder` is
not inductive: `HolderInv` adds that nothing is queued, asleep or held before the service
has started.  `StatusInv` says which status a job has by where its holder is, which
gives `NoLostJob`, `NoRewrite` and `FinalStable` together; it needs `ExclusiveHolder`,
since a second holder would change the status behind the first one's back.  `StopInv`
says that a desired state is only ever set for a job on some stop list, the job the
machine has now.  The lemma `WorkerMoves` reduces the sixteen actions of a worker to five
kinds of step (quiet, end, run, retry, failed), so each invariant is proved for five kinds
and not for sixteen actions.

Not provable here and left to TLC: liveness (fairness, ENABLED).

## 3. Modules Transfer and Mirror

`Transfer.tla` models what the handlers of the jobs do to the registries, one request per
step, together with the users who push and delete meanwhile and the triggers that make the
jobs.  `Mirror.tla` is its abstract specification: the destination follows the source with
a delay of its own per tag.

| model | code |
|---|---|
| `src`, `dst`, `dstBlobs` | manifests of the tags in both registries, blobs in the destination (external) |
| `job[j]` | a row of `replication_job` and the `BaseHandler` or `Deleter` of its machine: operation, tags of the row, tags left, manifest and digest of `tags[0]`, blobs to copy, `blobsExistence` |
| `Push`, `Enable` | `NotificationHandler.Post`, `UpdateEnablement`, each with the goroutine it starts |
| `FindDigest`, `DeleteManifest` | `RepositoryAPI.Delete` of one tag with the two requests of `Repository.DeleteTag` |
| `Trigger` | `TriggerReplicationByRepository` and `TriggerReplication` up to `addJob` |
| `Start` | `SM.Reset`: a new handler from the row |
| `Initialize`, `Check`, `PullManifest`, `BlobExist`, `TransferBlob`, `BlobsDone`, `CheckSource`, `Compare`, `PushManifest` | `Initializer`, `Checker`, `ManifestPuller`, `BlobTransfer`, `ManifestPusher` |
| `DeleteImage` | `Deleter` |
| `Unanswered`, `Answered` | a request that fails before, or loses its answer after, its effect; network errors put the job off, others end it |

Abstractions.  One repository and one policy, enabled once.  A manifest stands for its
digest.  The existence checks for the blobs of one tag are one step, since blobs are only
added to the destination.  A blob that a job has transferred stays `"no"` in its cache, as in the
code, and is then transferred again.  Any waiting job may be next: `JobService` has the
queue.  A deletion job has a tag, because `RepositoryAPI.Delete` triggers one job for
each.  `Checker` keeps nothing.  The delete handler of the target is external and one step.
`Compare` goes on to push if its request fails, since `ManifestPusher` does not look at that
error.

| run | instance | shows |
|---|---|---|
| `transfer_jobs` | 3 jobs, 2 workers, 2 tags, 2 manifests with a shared layer, one of them pushed under both tags, deletions, 1 network error or failure | `TypeOK`, `PushAccepted`, refinement of `Mirror` (`MirrorsSource`), `SerialAgrees`: with all jobs finished the destination is what the source is, if the jobs came one after the other and nothing was deleted |
| `transfer_race` | 2 workers, no deletions, no errors | violated `QuietAgrees`: of two jobs for one tag the older pushes last |

Three jobs are two for the same tag and one for the whole repository, the least with
which a job for all tags meets both orders of single ones.  Two tags with shared blobs are
needed for `blobsExistence`; two manifests let one tag be pushed twice, and the one under
both tags lets a deletion take a second tag along.  `OneError` keeps the instance to one
error of either kind, and to none where a deletion and both other jobs are in use.  The view
`LiveState` forgets what no step and no property reads: the handler of a job that no worker
has.  With deletions
`QuietAgrees` fails with one worker too: a deletion that comes late removes the image that
was pushed after it.  `CHECK_DEADLOCK FALSE`: when all jobs are used up the model stops.

Proved in `Transfer_proofs.tla`, for all tags, manifests, jobs and workers, under
`TransferAssumption`: `TypeCorrect`, `AlwaysAccepted` (`PushAccepted`) and `Refinement`
(`MirrorsSource`), and `SerialAlwaysAgrees` (`SerialAgrees`).  None of them is inductive.  `IInv` adds that what the source has is in
the history of the tag, and `Relies` for each job: what `blobsExistence` calls existing
exists; before the manifest is pushed, each of its blobs is in the destination or still on
the job's list; and the manifest in hand is one that the tag *in front* has had.
The last part is what a handler could get wrong by moving on in the list too early.
`ReliesMore` says that no step of another job takes this away, since blobs and history
only grow; `JobStep` then leaves the job that moves.  The refinement mapping is the identity
on `src`, `dst` and `past`; `Copy` of `Mirror` needs `Relies`.

`SerialAlwaysAgrees` needs `SerialInv` besides.  Its heart is `Covered`: every tag that
differs in the two registries is owed by a job (`Owes`), either one that no worker has and
whose row names the tag or no tag at all (`Due`), or the working one, as long as the tag is
still on its list or in front with the manifest that the source has now.  A push makes the
manifest in hand outdated; the job then owes the tag no more, but the trigger of the push is
`Due`.  That one is still there when the outdated manifest has been pushed, because a job
taken up earlier would have made `overlap` true: this is the step that fails with two
workers (`transfer_race`).  `RowKept` says that the tags left are among those of the row, so
that a job put off by a network error owes what it owed before.  Before the policy is
enabled `Covered` need not hold: the destination is empty (`Idle`), and the trigger of
`Enable` owes every tag.  A deletion that is dropped without a trace happens only then
(`Deleting` stays true once the policy is enabled).

## 4. Module Quota

`Quota.tla` models the used and allowed count and size of one project through pushes,
deletions and changes of the limits.

| model | code |
|---|---|
| `reg`, `PushManifest`, `Scan` | the registry (external) and what the push of a manifest and `scanImage` make of it |
| `row` | `clair_result.image_size` by image name |
| `useNum`, `useSize`, `quota` | a row of `project_quota`; `quota.size` stands for `quota_size * quotaThreshold` |
| `req[o]` | one push, from its token to the end of its goroutine, or one deletion, with its local variables |
| `FilterAccess`, `GetToken` | the quota check of `token.FilterAccess` |
| `CheckNum`, `AddNum` | `addQuotaNum` |
| `CheckSafety`, `InsertResult` | `CheckImageSafety` |
| `CheckSize`, `OldSize`, `UpdateSize`, `InsertSize`, `AddSize`, `CheckQuota` | `CheckImageSize` and `checkQuota` |
| `DeleteTag`, `GetSize`, `Free`, `Drop` | `RepositoryAPI.Delete` and `UpdateQuota` |
| `UpdateQuota` | `ProjectAPI.UpdateProjectQuota` |

Abstractions.  The images are the tags of one repository.  Each statement may fail, which
the code logs before it goes on or gives up; a failed `GetUseSizeByProject` is part of the
failing `AddSize`.  Mails, and the scan report but for the size, are left out.  `DeleteTag`
is one step here (two in `Transfer`).  `MaxUse` bounds the counters, which would grow without
end where they drift; `Ordered` names the images for which users wait with a request until
the one before is done.

| run | instance | shows |
|---|---|---|
| `quota_orderly` | 2 images, one with two sizes, 2 requests at a time but one per image, three limits, both scopes, 1 failing statement | `TypeOK`, `CountExact`, `SizeExact`, `RowRepaired` |
| `quota_overlap` | 2 images, requests overlap in any way | violated `SizeExact`: two requests for one image use the same old size |

Two requests are enough for every race of two statements; two images, as requests for
different ones meet only in the two counters.  Deadlock is checked: a request can always
begin or go on, and the limits can always be changed.

`CountExact` and `SizeExact` need more than order: a manifest without size (schema 1)
is counted when it is pushed and not when it is deleted, and a manifest with two tags takes
both from the registry while the count goes down by one.  The instance of `quota_orderly`
has neither, and the theorem says so in its assumption `Orderly`.

Proved in `Quota_proofs.tla` for all images, manifests, sizes, requests and limits:

| theorem | property | assumes |
|---|---|---|
| `TypeCorrect` | `TypeOK` | - |
| `CountAlwaysExact` | `CountExact` | `Orderly` |
| `SizeAlwaysExact` | `SizeExact` | `Orderly` |
| `RowAlwaysRepaired` | `RowRepaired` | `OneTag`: no manifest is pushed under two tags |

`CountExact` speaks of quiet states and so says nothing of the others; `CountInv`
says what `use_num` is at every step: the number of images that are `Counted`, which is by
their row when nobody is busy with them and by the step of the one request that is
otherwise (`Credit`).  `OrderInv` says which step goes with which row and manifest (`Local`).
`OneImage` and `CountStep` reduce every action to the one image it touches: the count
changes by as much as that image's part of it.  `SizeInv` does the same for `use_size`: it is
the sum of the `Shares` of the images, where an image whose row has its new size before
`AddSize` still counts for the old one, and one that `Free` has taken off counts for nothing
though its row is there.  That a sum changes by the difference in one place (`SumChange`) is
proved in `Sums.tla` from the definition in the community modules, by taking a smallest set
for which it fails.  `RepairInv` needs neither the order of all requests nor the absence of
faults: it says of every request without a failure what its earlier steps have found out
about its image, and that nobody else is busy with an image that is `Ordered`.  Without
`OneTag` the theorem is false: the deletion of another tag takes the image away after its scan.

## 5. Module Replication

`Replication.tla` models policies, targets and projects as the handlers of the ui change
them, one statement per step: each handler checks with a few queries that its change is
allowed and makes it with another statement, next to other requests.

| model | code |
|---|---|
| `policy`, `target`, `project` | rows of `replication_policy`, `replication_target`, `project` |
| `active` | policies with a row in `replication_job` that is pending, running or retrying |
| `triggers`, `AddJobs`, `TriggerFails` | goroutines of `TriggerReplication` on their way to the job service |
| `Post` ... `PostAdd`, `PostReuse` | `RepPolicyAPI.Post` and `PartialReplication` |
| `Put`, `PutTarget`, `PutPair`, `PutUpdate` | `RepPolicyAPI.Put` |
| `UpdateEnablement`, `UpdateRepPolicyEnablement` | the same handlers |
| `Delete`, `DeleteJobs`, `DeleteRepPolicy` | `RepPolicyAPI.Delete` |
| `TargetPost` ... `DeleteRepTarget` | `TargetAPI.Post`, `Put`, `Delete` |
| `ProjectDelete`, `ProjectContainsPolicy`, `DeleteProject` | `ProjectAPI.Delete` |

The tables have no unique index or foreign key for any of this, so a change made between
the check and the statement of another request breaks each property.  `raced` records
exactly that: a request makes its change after another has made one about the same project,
target or name.  The properties are stated for the behaviours without; requests about
different rows overlap freely in them.

Run `replication`: one project, two targets, two names, two policies, six requests, two at a
time.  `NoOrphans`, `NoDuplicates`, and the action properties `TargetFixed`
(an enabled policy cannot be moved by a detour over another handler) and `DeletesIdle`.
Six requests are two targets, a policy, its enablement, and a pair of handlers that meet; a
second project adds nothing, since projects meet only through policies of one of them.

Proved in `Replication_proofs.tla`, for any projects, targets, names, policies and number of
requests: `TypeCorrect`, `OrphanFree` (`NoOrphans`), `DuplicateFree` (`NoDuplicates`),
`EnabledFixed` (`TargetFixed`) and `IdleDeleted` (`DeletesIdle`).  `NoOrphans` and
`NoDuplicates` say nothing of requests between their checks and their statement.  `IInv`
adds for each request what its step says it has read (`Filled`, `Belongs`), and, while
nothing has raced, that every *clean* request still has what its checks have seen
(`Grounds`): the target and the project are there, the pair or the name is free, no enabled
policy uses the target, no policy is left in the project, no jobs are active.  A change of
another request either leaves these alone or takes `clean` away, and a request that is not
clean sets `raced` when it makes its change.  Both action properties follow from the same
invariant.  Assumed is that `None` is no project, target, policy, name or row.

## 6. Module Accounts

`Accounts.tla` models users, members and projects with their quota rows, again one
statement (or one mail) per step and two requests at a time.

| model | code |
|---|---|
| `user`, `member`, `project` | tables of these names; a deleted row is kept and its unique columns get a suffix (`None`) |
| `Register` ... `Insert`, `InsertRefused` | `UserAPI.Post` and `dao.Register`, with the unique indexes |
| `Login`, `LdapLogin`, `LdapGet` | `ldap.Auth.Authenticate`, which registers unknown users |
| `ChangeProfile`, `ChangePassword`, `ToggleAdmin`, `DeleteUser` and the statements that follow | the handlers of `UserAPI` |
| `SendEmail`, `SendMail`, `UpdateUserResetUUID`, `ResetPassword`, `ResetUserPassword` | `controllers/password.go` and `dao/user.go` |
| `MemberPost`, `MemberPut`, `MemberDelete`, `MemberClear`, `AddProjectMember` | `ProjectMemberAPI`; a change of role is a deletion and an insertion |
| `ProjectPost`, `AddProject`, `AddProjectQuota`, `ProjectDelete`, `DeleteProject`, `DeleteQuota` | `ProjectAPI.Post` and `Delete` |

Run `accounts`: an admin, a user and a newcomer, two projects of one name, two reset links,
three requests, two at a time, one failing statement.  The properties and what they exclude
are stated above each one in the module: `ResetOnce` and `MemberKept` hold for any
overlap; the others as long as no two requests about the same row overlap with a change
(`raced`), which no index prevents.  Four requests without a failing statement were checked
once (1 042 531 states, no error), the committed bounds keep the run short.  The check of
`AdminLeft` excludes an admin who takes the flag from himself, which `ToggleUserAdminRole`
allows.

Proved in `Accounts_proofs.tla`, for any users, projects, names, links, requests and faults:

| theorem | property |
|---|---|
| `TypeCorrect` | `TypeOK` |
| `LinkOnce` | `ResetOnce` |
| `MembersStay` | `MemberKept` |
| `DeletedFree` | `NamesFree` |
| `LoginFinds` | `LdapFinds` |
| `LastLinkWorks` | `LinkWorks` |
| `AdminStays` | `AdminLeft` |
| `QuotaKept` | `QuotaMatches` |

The inductive invariant has three parts, each checked by TLC before it was proved.  `TypeInv`: a
request has the rows and values that its step presupposes (`Filled`, `Backed`).  `UserInv`:
addresses are unique (`UserRows`); a link is in one row, or on its way there, or used, but
never two of these (`LinkRows`, `LinkRequests`), which is why a second reset
finds no row; what a clean request has seen of a user still holds (`UserGrounds`); and where the
link of the last mail is (`MailSent`, `MailStored`).  `ProjectInv`: a wanted member has a row
or a request that is about to insert one (`MemberPending`), and a project has its quota
row or a request that is about to add or to free it (`QuotaPending`).  `ResetOnce` and `MemberKept` are proved
for any overlap; the rest under their conditions `~raced` and `faults = 0`.  Assumed are the
unique indexes of the table `user` for the rows at the start.

## 7. Module Catalog

`Catalog.tla` models the list of repositories: what the registry has, the rows of the ui and
the cache of these rows.

| model | code |
|---|---|
| `tags`, `known`, `blobs`, `Push`, `RegistryLoses` | the registry (external); its catalog keeps repositories without tags |
| `events`, `Notify`, `NotifyExists`, `NotifyAdd`, `NextCopy` | `NotificationHandler.Post`; `filterEvents` yields as many copies of the last event as there are events |
| `cache`, `RefreshRead`, `RefreshPut`, `GetRepoFromCache`, `Expire` | `service/cache` |
| `DeleteRepo`, `DeleteTag`, `TagsDeleted`, `DeleteExist`, `DeleteRow` | `RepositoryAPI.Delete` |
| `SyncRegistry`, `SyncRows`, `SyncDiff`, `SyncAdd`, `SyncDel`; `DiffRepos` | `SyncRegistry`; the merge of `diffRepos` with its two loops behind it |
| `ui`, `Start`, `Serve`, `Crash` | `main` of the ui, which synchronises before it serves |
| `List`, `GetPage`, `PageOf`, `HasNext`, `NextPage` | `getRepoList` of the job service against `RepositoryAPI.Get`: pages, `Link` header, `Links.Next` |
| `ProjectDelete`, `DeleteProject` | `ProjectAPI.Delete` after `projectContainsRepo` |
| `CopyRepo`, `CopyCheck`, `CopyBlob`, `CopyLost`, `CopyManifest` | `CopyRepo` and its goroutine |
| `Search`, `FilterRepositories` | `SearchAPI.Get` and `filterRepositories` |
| `Fails`, `AfterFailure` | a statement or request that fails, by what its caller does then |

Abstractions.  Repositories and projects are numbers in the order of their names; `ProjectOf`
says which project the name of a repository has.  Every image has all of `Blobs`.  The
queries of `diffRepos` for single repositories are one step.  The table is listed in the
order of its ids (the query has no `ORDER BY`).  A notification whose handling ends with
the process is lost.  `clean` of a request, an event's too, records whether what it relies on
has changed; `raced` that a row was changed by a request that was not clean any more.
Trigger and quota of a push are in `Transfer`, `Replication` and `Quota`.

| property | states | does not cover |
|---|---|---|
| `RowsComplete` | all settled, every repository with a tag has a row | a push between check and statement of a deletion or within a synchronisation; notifications with events of several repositories; failures |
| `RowsReal` | all settled, every row has a tag behind it | a notification handled after the deletion; rows added by `SyncRegistry`, whose last loop asks for no tag |
| `SyncRepairs` | after a synchronisation rows and registry agree, whatever went wrong before | changes during the synchronisation |
| `CacheFresh` | with nothing under way the cache is empty or has the rows | an older refresh put last; `SyncRegistry`, which does not refresh |
| `PagesComplete` | a listing has every row once | rows deleted between two pages |
| `RowsOwned` | rows belong to projects that are there | a row added between check and statement of `ProjectAPI.Delete` |
| `CopyComplete` | a manifest is pushed after all its blobs | - |
| `SearchComplete` | a search skips no cached repository | names whose order is not that of their projects, see below |

Each exception is a behaviour of the code that TLC finds at once when the condition is
dropped.

Run `catalog`: three repositories in two projects, two blobs, pages of one, two pushes, two
requests, one fault (a failing call, a repository that the registry loses, or the end of the
ui).  The synchronisation at the start is not counted, so a listing or a search meets up to
two rows.  With three pushes the instance has 7 142 259 states (one blob, no error), too many
to be run each time.  Run `catalog_search` has the projects `a` and `a-b` with `a-b/x` and
`a/y`: `SearchComplete` is violated, since `filterRepositories` merges two lists of which one
is sorted by full name and the other by project, and `-` sorts before `/`.

`CHECK_DEADLOCK FALSE` in this and the two modules before: when the bounded requests are used
up nothing is left to do.

Proved in `Catalog_proofs.tla`, for any repositories, projects, tags, blobs, page size, and any
number of requests, pushes and faults:

| theorem | property |
|---|---|
| `TypeCorrect` | `TypeOK` |
| `RowsAlwaysComplete`, `RowsAlwaysReal` | `RowsComplete`, `RowsReal` |
| `SyncAlwaysRepairs` | `SyncRepairs` |
| `CacheAlwaysFresh` | `CacheFresh` |
| `PagesAlwaysComplete` | `PagesComplete` |
| `RowsAlwaysOwned` | `RowsOwned` |
| `CopyAlwaysComplete` | `CopyComplete` |
| `SearchAlwaysComplete` | `SearchComplete`, where the order of the repositories agrees with that of their projects (`InProjectOrder`); `catalog_search` shows that it is false without |
| `DiffReposRight` | what the merge of `diffRepos` computes from any two finite lists |

The properties speak of settled states or of the last step of a request, so that none of them is
inductive.  The invariant `IInv`, checked by TLC on the instance of `catalog` before it was
proved, has five parts.  `TypeInv`: the types, and the fields that each step presupposes
(`Filled`).  `GroundsInv`: a clean request still has what it counts on (`Grounds`) - the rows
and the registry differ by at most what a comparison has left to add and to delete, what a
listing has so far is the beginning of the list as it is now, the blobs that the destination
of a copy lacks are still on its list, a row about to be deleted has no tag, a project about to
be deleted has no rows.  `RealInv` and `CompleteInv`: a row without tags, or a repository
without a row, has a request or an event that is about to mend it.  `CacheInv`: when the last
version that was put is not the newest, a refresh that has read the newest, or has yet to read,
is under way.  `GroundsStep`, `RealStep`, `CompleteStep` and `CacheStep` reduce a step to the request that
makes it and to whether the others are `Calm`: each handler either leaves alone what they
count on or takes their `clean` away.

The two merges are recursive functions over pairs of places in sorted lists.  What they compute
is proved without induction: of the places where the result is wrong, take one with the least
distance to the end.  `SortedExists` and `ListsUnique` (a finite set of numbers has one sorted
list) and `ListingGrows` (a new row is added behind, so a list of a project's rows
keeps its beginning) are proved in the same way from `Sums.tla`.

## 8. How the modules fit together

`Transfer` refines `Mirror` (`INSTANCE Mirror WITH`, property `MirrorsSource`).  The others
share their boundary and not their variables: `JobService` lets targets and projects vanish
at any time, which allows more than the handlers of `Replication` do; `Transfer` starts any
waiting job, more than the queue of `JobService` does; `Quota` and `Catalog` each have their
part of a push and of a deletion, which touch different tables.

## 9. Plan

Every invariant that a run checks is proved.

## 10. What is only model-checked, and what is not modelled

TLC alone: the liveness properties of `JobService` (fairness and ENABLED are beyond the
prover).

Known weaknesses that no property speaks about, because the code promises nothing there: a
trigger that cannot reach the job service is only logged (`api/utils.go:227`); `Post` of the
job service keeps the jobs it has added before an error (`api/jobs/replication.go:95`); a tag
deleted before its turn ends the whole job (`transfer.go:299`); the goroutines of
`PartialReplication` share a loop variable (`replication_policy.go:474`); a token outlives the
quota check (`token/authutils.go:154`); the goroutine of a push is lost with the ui
(`notification.go:109`); the goroutine of `initRegistryClient` never ends (`api/utils.go:464`);
`SearchAPI.Get` sorts the slice in the cache in place, next to its readers (`search.go:94`).

Not modelled: HTTP, JSON, the parsing of names and the encryption of passwords in `utils/`;
the dialogue with Clair, SMTP and LDAP; the aggregation of Clair's reports for a mail, which
nothing reads back; page rendering and session handling (`controllers/`, `ui/`); the scopes
of a token, a pure function of role and publicity; access log, statistics and pull counts, one
statement each; `GetStatus` and the other handlers that only read; `ToggleProjectPublic`, one
statement; `CopyPro`, which has an unused variable and so does not compile.  MySQL, the
registries and the target are external: a statement or request is atomic, has its effect or
fails, and for requests may lose its answer.
