------------------------------ MODULE Catalog ------------------------------
(***************************************************************************)
(* The list of repositories: what the registry has, the rows the ui keeps  *)
(* about it, and the cache of these rows.                                  *)
(*                                                                         *)
(* The registry tells the ui of every push; deletions go through the ui,   *)
(* and SyncRegistry compares both sides.  Handlers run side by side, one   *)
(* statement or one call of the registry at a time; the goroutines that    *)
(* refresh the cache are the last steps of the request that starts them.   *)
(***************************************************************************)
EXTENDS Integers, Sequences, FiniteSets, Functions

CONSTANTS Repos, Projects,  \* numbers, in the order of the names
          ProjectOf,        \* the project in the name of each repository
          Tags, Blobs,      \* an image has all blobs
          PageSize,
          None,
          Requests,         \* bound: requests under way at a time
          MaxBatch,         \* bound: events in one notification
          MaxPushes, MaxRequests, MaxFaults  \* bounds

ASSUME CatalogAssumption ==
  /\ Repos \subseteq Nat /\ Projects \subseteq Nat
  /\ IsFiniteSet(Repos) /\ IsFiniteSet(Projects)
  /\ ProjectOf \in [Repos -> Projects]
  /\ PageSize \in Nat \ {0} /\ MaxBatch \in Nat \ {0}
  /\ MaxPushes \in Nat /\ MaxRequests \in Nat /\ MaxFaults \in Nat
  /\ None \notin Repos \cup Projects

VARIABLES
  project,    \* projects that are not deleted
  tags,       \* registry: tags of each repository
  known,      \* registry: its catalog, which keeps repositories without tags
  blobs,      \* registry: blobs of each repository
  rows,       \* table repository in the order of its ids
  cache,      \* catalog in the cache, see CacheEntry
  events,     \* notifications of pushes on the way, in order
  ui,         \* the process: "down", "starting" or "up"
  req,        \* requests under way, see RequestState
  version,    \* number of changes of rows
  pushes, begun, faults,
  raced,      \* history: a row was added or removed on grounds that had changed since
  batched,    \* history: one notification had events of several repositories
  synced,     \* history: SyncRegistry has changed a row
  newest,     \* history: last version put into the cache
  overtaken   \* history: an older refresh came after a newer one

registry == <<tags, known, blobs>>
history  == <<raced, batched, synced, newest, overtaken>>
vars == <<project, registry, rows, cache, events, ui, req, version, pushes, begun, faults, history>>

Steps == {"idle", "notify_exists", "notify_add", "delete_tags", "delete_exist", "delete_row",
          "refresh_read", "refresh_put", "sync_rows", "sync_diff", "sync_add", "sync_del",
          "synced", "list", "listed", "project_delete", "copy_check", "copy_blobs",
          "copy_manifest"}

\* The list of all rows, and how many changes it has seen.
CacheEntry == [repos : Seq(Repos), version : Nat]

RequestState ==
  [step    : Steps,
   repo    : Repos \cup {None},
   src     : Repos \cup {None},   \* where a copy comes from
   tags    : SUBSET Tags,         \* to be deleted, or copied
   blobs   : SUBSET Blobs,        \* to be copied
   project : Projects \cup {None},
   seen    : CacheEntry,          \* rows as read, and for a listing what it has so far
   catalog : SUBSET Repos,        \* the registry's, and for a listing the rows at its start
   add     : SUBSET Repos,
   del     : SUBSET Repos,
   page    : Nat,                 \* of a listing; copies of an event still to be handled
   clean   : BOOLEAN]             \* history: what the request relies on has not changed

Idle == [step |-> "idle", repo |-> None, src |-> None, tags |-> {}, blobs |-> {},
         project |-> None, seen |-> [repos |-> <<>>, version |-> 0], catalog |-> {}, add |-> {}, del |-> {},
         page |-> 0, clean |-> TRUE]

TypeOK ==
  /\ project \in SUBSET Projects
  /\ tags \in [Repos -> SUBSET Tags]
  /\ known \in SUBSET Repos /\ \A r \in Repos : tags[r] # {} => r \in known
  /\ blobs \in [Repos -> SUBSET Blobs]
  /\ rows \in Seq(Repos) /\ IsInjective(rows)
  /\ cache \in CacheEntry \cup {None}
  /\ events \in Seq([repo : Repos, clean : BOOLEAN])
  /\ ui \in {"down", "starting", "up"}
  /\ req \in [Requests -> RequestState]
  /\ version \in Nat
  /\ pushes \in 0..MaxPushes /\ begun \in 0..MaxRequests /\ faults \in 0..MaxFaults
  /\ raced \in BOOLEAN /\ batched \in BOOLEAN /\ synced \in BOOLEAN
  /\ newest \in Nat /\ overtaken \in BOOLEAN

Init ==
  /\ project = Projects
  /\ tags = [r \in Repos |-> {}] /\ known = {} /\ blobs = [r \in Repos |-> {}]
  /\ rows = <<>>
  /\ cache = None
  /\ events = <<>>
  /\ ui = "down"
  /\ req = [o \in Requests |-> Idle]
  /\ version = 0
  /\ pushes = 0 /\ begun = 0 /\ faults = 0
  /\ raced = FALSE /\ batched = FALSE /\ synced = FALSE /\ newest = 0 /\ overtaken = FALSE

-----------------------------------------------------------------------------
(***************************************************************************)
(* Queries.                                                                *)
(***************************************************************************)
RepositoryExists(r) == r \in Range(rows)

\* What the registry answers.
ListTag(r)      == tags[r]
CatalogList     == known
BlobExist(r, b) == b \in blobs[r]
PullManifest(r, t) == t \in tags[r]

\* Mutant of RepositoryExist: a repository without tags exists, too.
RepositoryExist_Known(r) == r \in known

\* In the registry.
RepositoryExist(r) == ListTag(r) # {}

ProjectExists(r) == ProjectOf[r] \in project

Sorted(S) ==
  CHOOSE s \in [1..Cardinality(S) -> S] : \A i, j \in DOMAIN s : i < j => s[i] < s[j]

\* The rows of a project, in the order of their ids.
GetReposByProject(p) ==
  LET ids == Sorted({i \in DOMAIN rows : ProjectOf[rows[i]] = p})
  IN [k \in DOMAIN ids |-> rows[ids[k]]]

\* RepositoryAPI.Get: one page of a list.
PageOf(s, page) ==
  SubSeq(s, (page - 1) * PageSize + 1,
         IF page * PageSize <= Len(s) THEN page * PageSize ELSE Len(s))

\* Mutant of HasNext: pages are counted from zero.
HasNext_FromZero(total, page) == PageSize * (page + 1) < total

\* setPaginationHeader: whether there is a link to the next page.
HasNext(total, page) == PageSize * page < total

\* The page of the link that Links.Next finds in the header, 0 without one.
NextPage(total, page) == IF HasNext(total, page) THEN page + 1 ELSE 0

\* Mutant of DiffRepos: what follows the last row is forgotten.
DiffRepos_NoTail(inRegistry, inDB) ==
  [add |-> {r \in inRegistry \ inDB : ProjectExists(r) /\ RepositoryExist(r)
                                        /\ \E d \in inDB : r < d},
   del |-> inDB \ inRegistry]

\* The merge of both sorted lists.
DiffRepos(inRegistry, inDB) ==
  LET R == Sorted(inRegistry)
      D == Sorted(inDB)
      Add(d, r, needed) == IF needed THEN [d EXCEPT !.add = @ \cup {r}] ELSE d
      Del(d, r) == [d EXCEPT !.del = @ \cup {r}]
      diff[at \in (1..Len(R) + 1) \X (1..Len(D) + 1)] ==
        LET i == at[1]
            j == at[2]
        IN CASE i <= Len(R) /\ j <= Len(D) /\ R[i] < D[j] ->
                  Add(diff[<<i + 1, j>>], R[i], ProjectExists(R[i]) /\ RepositoryExist(R[i]))
             [] i <= Len(R) /\ j <= Len(D) /\ R[i] = D[j] -> diff[<<i + 1, j + 1>>]
             [] i <= Len(R) /\ j > Len(D) -> Add(diff[<<i + 1, j>>], R[i], ProjectExists(R[i]))
             [] j <= Len(D) /\ (i > Len(R) \/ R[i] > D[j]) -> Del(diff[<<i, j + 1>>], D[j])
             [] OTHER -> [add |-> {}, del |-> {}]
  IN diff[<<1, 1>>]

\* Mutant of FilterRepositories: one repository of each project.
FilterRepositories_One(repos, projects) ==
  {r \in repos : ProjectOf[r] \in projects
                   /\ \A q \in repos : ProjectOf[q] = ProjectOf[r] => r <= q}

\* filterRepositories: the merge of the sorted repositories with the sorted projects.
FilterRepositories(repos, projects) ==
  LET R == Sorted(repos)
      P == Sorted(projects)
      found[at \in (1..Len(R) + 1) \X (1..Len(P) + 1)] ==
        LET i == at[1]
            j == at[2]
        IN IF i > Len(R) \/ j > Len(P) THEN {}
           ELSE CASE ProjectOf[R[i]] < P[j] -> found[<<i + 1, j>>]
                  [] ProjectOf[R[i]] = P[j] -> {R[i]} \cup found[<<i + 1, j>>]
                  [] OTHER                  -> found[<<i, j + 1>>]
  IN found[<<1, 1>>]

-----------------------------------------------------------------------------
(***************************************************************************)
(* The course of a request.                                                *)
(***************************************************************************)
At(o, s) == req[o].step = s

AllIdle == \A o \in Requests : At(o, "idle")

Syncing == {"sync_rows", "sync_diff", "sync_add", "sync_del", "synced"}

\* Steps that rely on the registry, that is, on a repository ...
Removing == {"delete_row"} \cup Syncing                     \* not being pushed,
Adding   == {"notify_exists", "notify_add", "refresh_read", "refresh_put"} \cup Syncing
                                                            \* having a tag,
Copying  == {"copy_check", "copy_blobs", "copy_manifest"}   \* keeping its blobs

About(q, R) == req[q].repo = None \/ req[q].repo \in R

\* A request when repositories R change in what the steps in S rely on.
Spoiled(q, S, R) == [req[q] EXCEPT !.clean = @ /\ ~(req[q].step \in S /\ About(q, R))]

\* Leaves events and batched to the action.
Begin(o, r) ==
  /\ ui = "up"
  /\ At(o, "idle")
  /\ begun < MaxRequests
  /\ begun' = begun + 1
  /\ req' = [req EXCEPT ![o] = r]
  /\ UNCHANGED <<project, registry, rows, cache, ui, version, pushes, faults,
                 raced, synced, newest, overtaken>>

\* The request goes on without a change of anything else.
Proceed(o, s, r) ==
  /\ At(o, s)
  /\ req' = [req EXCEPT ![o] = r]
  /\ UNCHANGED <<project, registry, rows, cache, events, ui, version, pushes, begun, faults,
                 history>>

Step(o, next) == [req[o] EXCEPT !.step = next]

\* Request o adds or removes a row and becomes r; the steps in S rely on the rows.
\* Leaves synced to the action.
ChangeRows(o, s, new, r, S) ==
  /\ At(o, s)
  /\ rows' = new
  /\ version' = version + (IF new = rows THEN 0 ELSE 1)
  /\ raced' = (raced \/ (new # rows /\ ~req[o].clean))
  /\ req' = [q \in Requests |-> IF q = o THEN r
                               ELSE IF new = rows THEN req[q] ELSE Spoiled(q, S, Repos)]
  /\ UNCHANGED <<project, registry, cache, events, ui, pushes, begun, faults, batched,
                 newest, overtaken>>

\* Mutant of WithRow: the name is not unique.
WithRow_Twice(r) == IF ~ProjectExists(r) THEN rows ELSE Append(rows, r)

\* AddRepository: the name is unique, and a deleted project has another name.
WithRow(r) == IF RepositoryExists(r) \/ ~ProjectExists(r) THEN rows ELSE Append(rows, r)

WithoutRow(r) ==
  LET id == CHOOSE i \in DOMAIN rows : rows[i] = r
  IN IF RepositoryExists(r)
       THEN [i \in 1..Len(rows) - 1 |-> rows[IF i < id THEN i ELSE i + 1]]
       ELSE rows

-----------------------------------------------------------------------------
(***************************************************************************)
(* The registry and its clients.                                           *)
(***************************************************************************)

\* An image arrives with all blobs, and the ui is to be told.
Arrives(r, t) ==
  /\ tags' = [tags EXCEPT ![r] = @ \cup {t}]
  /\ known' = known \cup {r}
  /\ events' = Append(events, [repo |-> r, clean |-> TRUE])

\* A docker client, whose token says that the project is there.
Push(r, t) ==
  /\ pushes < MaxPushes
  /\ ProjectExists(r)
  /\ pushes' = pushes + 1
  /\ Arrives(r, t)
  /\ blobs' = [blobs EXCEPT ![r] = Blobs]
  /\ req' = [q \in Requests |-> Spoiled(q, Removing, {r})]
  /\ UNCHANGED <<project, rows, cache, ui, version, begun, faults, history>>

\* The registry is restored or cleaned without the ui.
RegistryLoses(r) ==
  /\ r \in known
  /\ faults < MaxFaults
  /\ faults' = faults + 1
  /\ tags' = [tags EXCEPT ![r] = {}]
  /\ known' = known \ {r}
  /\ blobs' = [blobs EXCEPT ![r] = {}]
  /\ req' = [q \in Requests |-> Spoiled(q, Adding \cup Copying, {r})]
  /\ UNCHANGED <<project, rows, cache, events, ui, version, pushes, begun, history>>

-----------------------------------------------------------------------------
(***************************************************************************)
(* NotificationHandler.Post, and the refresh of the cache.                 *)
(***************************************************************************)

\* The registry sends its first n events.  filterEvents takes the address of the loop variable,
\* so that Post gets n copies of the last one.
Notify(o, n) ==
  LET e == events[n] IN
  /\ n <= Len(events)
  /\ Begin(o, [Idle EXCEPT !.step = "notify_exists", !.repo = e.repo, !.page = n,
                           !.clean = e.clean])
  /\ events' = SubSeq(events, n + 1, Len(events))
  /\ batched' = (batched \/ \E i \in 1..n : events[i].repo # e.repo)

\* What follows the handling of one copy.
NextCopy(o) == IF req[o].page > 1 THEN [Step(o, "notify_exists") EXCEPT !.page = @ - 1] ELSE Idle

NotifyExists(o) ==
  Proceed(o, "notify_exists",
          IF RepositoryExists(req[o].repo) THEN NextCopy(o) ELSE Step(o, "notify_add"))

\* Mutant of NotifyAdd: the cache is not refreshed.
NotifyAdd_NoRefresh(o) ==
  /\ ChangeRows(o, "notify_add", WithRow(req[o].repo), NextCopy(o), Syncing \cup {"project_delete"})
  /\ UNCHANGED synced

NotifyAdd(o) ==
  /\ ChangeRows(o, "notify_add", WithRow(req[o].repo), Step(o, "refresh_read"),
                Syncing \cup {"project_delete"})
  /\ UNCHANGED synced

RefreshRead(o) ==
  Proceed(o, "refresh_read",
          [Step(o, "refresh_put") EXCEPT !.seen = [repos |-> rows, version |-> version]])

RefreshPut(o) ==
  /\ At(o, "refresh_put")
  /\ cache' = req[o].seen
  /\ newest' = req[o].seen.version
  /\ overtaken' = (overtaken \/ req[o].seen.version < newest)
  /\ req' = [req EXCEPT ![o] = NextCopy(o)]
  /\ UNCHANGED <<project, registry, rows, events, ui, version, pushes, begun, faults,
                 raced, batched, synced>>

\* Refreshes an empty cache, within the request.
GetRepoFromCache(o) ==
  /\ cache = None
  /\ Begin(o, [Idle EXCEPT !.step = "refresh_read"])

\* SearchAPI.Get, which else changes nothing; see SearchComplete for its result.
Search(o) == GetRepoFromCache(o) /\ UNCHANGED <<events, batched>>

\* After ten minutes.
Expire ==
  /\ cache # None
  /\ cache' = None
  /\ UNCHANGED <<project, registry, rows, events, ui, req, version, pushes, begun, faults, history>>

-----------------------------------------------------------------------------
(***************************************************************************)
(* RepositoryAPI.Delete.                                                   *)
(***************************************************************************)

\* The tags of the request, or all that the registry lists.
DeleteRepo(o, r, S) ==
  /\ ProjectExists(r)
  /\ Begin(o, [Idle EXCEPT !.step = "delete_tags", !.repo = r,
                           !.tags = IF S = {} THEN ListTag(r) ELSE S])
  /\ UNCHANGED <<events, batched>>

\* The other requests and the events, when the registry has no tag of r left.
LastTagGone(o, r, mine) ==
  LET last == tags'[r] = {} IN
  /\ events' = [i \in DOMAIN events |->
                 [events[i] EXCEPT !.clean = @ /\ ~(last /\ events[i].repo = r)]]
  /\ req' = [q \in Requests |-> IF q = o THEN mine
                               ELSE IF last THEN Spoiled(q, Adding, {r}) ELSE req[q]]

\* A tag that is not found is passed over.
DeleteTag(o, t) ==
  LET r == req[o].repo
      left == [req[o] EXCEPT !.tags = @ \ {t}]
  IN /\ At(o, "delete_tags")
     /\ t \in req[o].tags
     /\ tags' = [tags EXCEPT ![r] = @ \ {t}]
     /\ LastTagGone(o, r, left)
     /\ UNCHANGED <<project, known, blobs, rows, cache, ui, version, pushes, begun, faults, history>>

TagsDeleted(o) ==
  /\ req[o].tags = {}
  /\ Proceed(o, "delete_tags", Step(o, "delete_exist"))

\* Mutant of DeleteExist: the row goes with the tags of the request.
DeleteExist_Unchecked(o) == Proceed(o, "delete_exist", Step(o, "delete_row"))

DeleteExist(o) ==
  Proceed(o, "delete_exist",
          Step(o, IF RepositoryExist(req[o].repo) THEN "refresh_read" ELSE "delete_row"))

DeleteRow(o) ==
  /\ ChangeRows(o, "delete_row", WithoutRow(req[o].repo), Step(o, "refresh_read"),
                Syncing \cup {"list", "listed"})
  /\ UNCHANGED synced

-----------------------------------------------------------------------------
(***************************************************************************)
(* SyncRegistry, at the request of an admin and when the ui starts.        *)
(***************************************************************************)
SyncRequest == [Idle EXCEPT !.step = "sync_rows", !.catalog = CatalogList]

SyncRegistry(o) ==
  /\ Begin(o, SyncRequest)
  /\ UNCHANGED <<events, batched>>

\* main: nothing is served before the rows are compared with the registry.
Start(o) ==
  /\ ui = "down"
  /\ ui' = "starting"
  /\ req' = [req EXCEPT ![o] = SyncRequest]
  /\ UNCHANGED <<project, registry, rows, cache, events, version, pushes, begun, faults, history>>

Serve ==
  /\ ui = "starting" /\ AllIdle
  /\ ui' = "up"
  /\ UNCHANGED <<project, registry, rows, cache, events, req, version, pushes, begun, faults,
                 history>>

SyncRows(o) ==
  Proceed(o, "sync_rows", [Step(o, "sync_diff") EXCEPT !.seen.repos = rows])

SyncDiff(o) ==
  LET d == DiffRepos(req[o].catalog, Range(req[o].seen.repos)) IN
  Proceed(o, "sync_diff", [Step(o, "sync_add") EXCEPT !.add = d.add, !.del = d.del])

\* The first of a sorted list.
First(S) == CHOOSE r \in S : \A q \in S : r <= q

SyncAdd(o) ==
  LET r == First(req[o].add) IN
  /\ req[o].add # {}
  /\ ChangeRows(o, "sync_add", WithRow(r), [req[o] EXCEPT !.add = @ \ {r}],
                Syncing \cup {"project_delete"})
  /\ synced' = TRUE

SyncDel(o) ==
  LET r == First(req[o].del) IN
  /\ req[o].del # {}
  /\ ChangeRows(o, "sync_del", WithoutRow(r), [req[o] EXCEPT !.del = @ \ {r}],
                Syncing \cup {"list", "listed"})
  /\ synced' = TRUE

SyncEnds(o) ==
  \/ req[o].add = {} /\ Proceed(o, "sync_add", Step(o, "sync_del"))
  \/ req[o].del = {} /\ Proceed(o, "sync_del", Step(o, "synced"))
  \/ Proceed(o, "synced", Idle)

-----------------------------------------------------------------------------
(***************************************************************************)
(* getRepoList: the job service reads the repositories of a project page   *)
(* by page, each from a query of its own.                                  *)
(***************************************************************************)
List(o, p) ==
  /\ p \in project
  /\ Begin(o, [Idle EXCEPT !.step = "list", !.project = p, !.page = 1,
                           !.catalog = Range(GetReposByProject(p))])
  /\ UNCHANGED <<events, batched>>

GetPage(o) ==
  LET repos == GetReposByProject(req[o].project)
      page  == req[o].page
      next  == NextPage(Len(repos), page)
      got   == [req[o] EXCEPT !.seen.repos = @ \o PageOf(repos, page)]
  IN Proceed(o, "list",
       IF req[o].project \notin project THEN Idle
       ELSE [got EXCEPT !.page = next, !.step = IF next = 0 THEN "listed" ELSE "list"])

Listed(o) == Proceed(o, "listed", Idle)

-----------------------------------------------------------------------------
(***************************************************************************)
(* ProjectAPI.Delete.                                                      *)
(***************************************************************************)

\* Mutant of ProjectContainsRepo: asks the cache.
ProjectContainsRepo_Cached(p) ==
  cache # None /\ \E r \in Range(cache.repos) : ProjectOf[r] = p

ProjectContainsRepo(p) == GetReposByProject(p) # <<>>

ProjectDelete(o, p) ==
  /\ p \in project
  /\ ~ProjectContainsRepo(p)
  /\ Begin(o, [Idle EXCEPT !.step = "project_delete", !.project = p])
  /\ UNCHANGED <<events, batched>>

DeleteProject(o) ==
  /\ At(o, "project_delete")
  /\ project' = project \ {req[o].project}
  /\ raced' = (raced \/ ~req[o].clean)
  /\ req' = [req EXCEPT ![o] = Idle]
  /\ UNCHANGED <<registry, rows, cache, events, ui, version, pushes, begun, faults,
                 batched, synced, newest, overtaken>>

-----------------------------------------------------------------------------
(***************************************************************************)
(* RepositoryAPI.CopyRepo, whose goroutine copies blob by blob.            *)
(***************************************************************************)
CopyRepo(o, src, t, dest, t2) ==
  /\ ProjectExists(src) /\ ProjectExists(dest)
  /\ PullManifest(src, t)
  /\ Begin(o, [Idle EXCEPT !.step = "copy_check", !.src = src, !.repo = dest, !.tags = {t2}])
  /\ UNCHANGED <<events, batched>>

CopyCheck(o) ==
  Proceed(o, "copy_check",
          [Step(o, "copy_blobs") EXCEPT !.blobs = {b \in Blobs : ~BlobExist(req[o].repo, b)}])

PullBlob(o, b) == BlobExist(req[o].src, b)
PushBlob(r, b) == blobs' = [blobs EXCEPT ![r] = @ \cup {b}]

\* Mutant of CopyLost: the next blob is tried.
CopyLost_Continues(o, b) ==
  /\ b \in req[o].blobs /\ ~PullBlob(o, b)
  /\ Proceed(o, "copy_blobs", [req[o] EXCEPT !.blobs = @ \ {b}])

\* The source has lost the blob: the goroutine gives up.
CopyLost(o, b) ==
  /\ b \in req[o].blobs /\ ~PullBlob(o, b)
  /\ Proceed(o, "copy_blobs", Idle)

CopyBlob(o, b) ==
  /\ At(o, "copy_blobs")
  /\ b \in req[o].blobs /\ PullBlob(o, b)
  /\ PushBlob(req[o].repo, b)
  /\ req' = [req EXCEPT ![o].blobs = @ \ {b}]
  /\ UNCHANGED <<project, tags, known, rows, cache, events, ui, version, pushes, begun, faults,
                 history>>

BlobsCopied(o) ==
  /\ req[o].blobs = {}
  /\ Proceed(o, "copy_blobs", Step(o, "copy_manifest"))

\* The registry refuses a manifest whose blobs it does not have.
CopyManifest(o) ==
  LET r == req[o].repo IN
  /\ At(o, "copy_manifest")
  /\ IF Blobs \subseteq blobs[r]
       THEN /\ \E t \in req[o].tags : Arrives(r, t)
            /\ req' = [q \in Requests |-> IF q = o THEN Idle ELSE Spoiled(q, Removing, {r})]
       ELSE /\ req' = [req EXCEPT ![o] = Idle]
            /\ UNCHANGED <<tags, known, events>>
  /\ UNCHANGED <<project, blobs, rows, cache, ui, version, pushes, begun, faults, history>>

-----------------------------------------------------------------------------
(***************************************************************************)
(* Faults.                                                                 *)
(***************************************************************************)

\* A statement or a call of the registry fails: Post takes a failed query for a missing row and
\* logs a failed insert, SyncRegistry goes on with the next repository, CopyRepo takes a failed
\* check for a missing blob, and everything else is given up.
AfterFailure(o) ==
  LET q == req[o] IN
  CASE q.step = "notify_exists" -> Step(o, "notify_add")
    [] q.step = "notify_add"    -> Step(o, "refresh_read")
    [] q.step = "refresh_read"  -> NextCopy(o)
    [] q.step = "sync_add" /\ q.add # {} -> [q EXCEPT !.add = @ \ {First(q.add)}, !.clean = FALSE]
    [] q.step = "sync_del" /\ q.del # {} -> [q EXCEPT !.del = @ \ {First(q.del)}, !.clean = FALSE]
    [] q.step = "copy_check"    -> [Step(o, "copy_blobs") EXCEPT !.blobs = Blobs]
    [] OTHER -> Idle

Fails(o) ==
  /\ faults < MaxFaults
  /\ ~(req[o].step \in {"idle", "refresh_put", "synced", "listed"})
  /\ faults' = faults + 1
  /\ req' = [req EXCEPT ![o] = AfterFailure(o)]
  /\ UNCHANGED <<project, registry, rows, cache, events, ui, version, pushes, begun, history>>

\* The ui loses its requests and its cache.
Crash ==
  /\ ui = "up"
  /\ faults < MaxFaults
  /\ faults' = faults + 1
  /\ ui' = "down"
  /\ cache' = None
  /\ req' = [o \in Requests |-> Idle]
  /\ UNCHANGED <<project, registry, rows, events, version, pushes, begun, history>>

-----------------------------------------------------------------------------
NotifyStep(o) ==
  \/ \E n \in 1..MaxBatch : Notify(o, n)
  \/ NotifyExists(o) \/ NotifyAdd(o) \/ RefreshRead(o) \/ RefreshPut(o) \/ Search(o)

DeleteStep(o) ==
  \/ \E r \in Repos, S \in SUBSET Tags : DeleteRepo(o, r, S)
  \/ \E t \in Tags : DeleteTag(o, t)
  \/ TagsDeleted(o) \/ DeleteExist(o) \/ DeleteRow(o)

SyncStep(o) ==
  \/ SyncRegistry(o) \/ Start(o) \/ SyncRows(o) \/ SyncDiff(o)
  \/ SyncAdd(o) \/ SyncDel(o) \/ SyncEnds(o)

ProjectStep(o) ==
  \/ \E p \in Projects : List(o, p) \/ ProjectDelete(o, p)
  \/ GetPage(o) \/ Listed(o) \/ DeleteProject(o)

CopyStep(o) ==
  \/ \E src, dest \in Repos, t, t2 \in Tags : CopyRepo(o, src, t, dest, t2)
  \/ CopyCheck(o) \/ BlobsCopied(o) \/ CopyManifest(o)
  \/ \E b \in Blobs : CopyBlob(o, b) \/ CopyLost(o, b)

Next ==
  \/ \E r \in Repos, t \in Tags : Push(r, t)
  \/ \E r \in Repos : RegistryLoses(r)
  \/ \E o \in Requests : NotifyStep(o) \/ DeleteStep(o) \/ SyncStep(o) \/ ProjectStep(o)
                           \/ CopyStep(o) \/ Fails(o)
  \/ Expire \/ Serve \/ Crash

Spec == Init /\ [][Next]_vars

-----------------------------------------------------------------------------
(***************************************************************************)
(* Properties.                                                             *)
(***************************************************************************)
Settled == AllIdle /\ events = <<>>

\* Repositories that users can pull from.
InUse == {r \in Repos : tags[r] # {} /\ ProjectExists(r)}

\* Once all is settled, every repository with a tag has its row: a deletion that is overtaken by a
\* push keeps the row.  Excepted: a push between the check and the statement of Delete or within a
\* SyncRegistry, notifications with several repositories, and failures.
RowsComplete ==
  Settled /\ faults = 0 /\ ~raced /\ ~batched => InUse \subseteq Range(rows)

\* Once all is settled, no row is left of a repository whose tags were deleted, under the same
\* conditions, unless SyncRegistry has added it: the end of diffRepos does not ask for tags.
RowsReal ==
  Settled /\ faults = 0 /\ ~raced /\ ~synced => \A r \in Range(rows) : tags[r] # {}

\* Whatever has happened before, crashes included, after a SyncRegistry during which nothing else
\* changed the rows match the registry.
SyncRepairs ==
  \A o \in Requests : At(o, "synced") /\ req[o].clean =>
                        InUse \subseteq Range(rows) /\ Range(rows) \subseteq known

\* When no request is under way the cache is empty or up to date, unless an older refresh was put
\* after a newer one; SyncRegistry does not refresh it.
CacheFresh ==
  AllIdle /\ faults = 0 /\ ~overtaken /\ ~synced => cache = None \/ cache.repos = rows

\* A listing page by page has every repository that was there from start to end, once.
PagesComplete ==
  \A o \in Requests : At(o, "listed") /\ req[o].clean =>
    LET got == req[o].seen.repos IN
    \A r \in req[o].catalog : Cardinality({i \in DOMAIN got : got[i] = r}) = 1

\* No row belongs to a deleted project, unless the row came after the check of the deletion.
RowsOwned == ~raced => \A r \in Range(rows) : ProjectExists(r)

\* CopyRepo pushes a manifest only when the destination has all its blobs, though errors of the
\* checks are only logged.
CopyComplete ==
  \A o \in Requests : At(o, "copy_manifest") /\ req[o].clean => Blobs \subseteq blobs[req[o].repo]

\* A search finds every repository in the cache whose project is there ("lists all matching
\* projects and repositories", docs/user_guide.md): the merge of two sorted lists skips none.
SearchComplete ==
  cache # None => FilterRepositories(Range(cache.repos), project) =
                    {r \in Range(cache.repos) : ProjectExists(r)}
=============================================================================
