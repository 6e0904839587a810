----------------------------- MODULE JobService -----------------------------
(***************************************************************************)
(* The replication job service: the goroutines of the jobservice process   *)
(* (API handlers, Dispatch, the pool of workers with one state machine     *)
(* each, the Reschedule timers), the rows of MySQL they work on, and what  *)
(* the ui process does to those rows behind its back.                      *)
(*                                                                         *)
(* A step is one database statement, one critical section of SM.lock, one  *)
(* rendezvous on a channel or one state handler of a job.  The registry    *)
(* traffic inside a handler is the subject of module Transfer; here a      *)
(* handler succeeds, meets a network error or fails.                       *)
(***************************************************************************)
EXTENDS Naturals, FiniteSets

CONSTANTS Jobs,       \* ids of replication_job rows
          Workers,    \* workers of the pool (MAX_JOB_WORKERS of them)
          Policies,   \* ids of replication_policy rows
          PolicyOf,   \* policy_id column of each job, written once by AddRepJob
          Operation,  \* operation column of each job, written once by AddRepJob
          NoJob,      \* JobID of a state machine that has not had a job
          RowsLimit,  \* rows a query without a limit returns (1000: orm.DefaultRowsLimit)
          Requests,   \* bound: kinds of request that users make
          MaxTags,    \* bound: tags of a repository
          MaxFaults,  \* bound: database statements that return an error
          MaxCrashes  \* bound: kills of the process from outside

ASSUME ConstantsAssumption ==
  /\ PolicyOf \in [Jobs -> Policies]
  /\ Operation \in [Jobs -> {"transfer", "delete", "other"}]
  /\ NoJob \notin Jobs
  /\ Requests \subseteq {"stop", "delete_job", "enablement", "delete_target", "delete_project"}
  /\ RowsLimit \in Nat
  /\ MaxTags \in Nat
  /\ MaxFaults \in Nat
  /\ MaxCrashes \in Nat

VARIABLES
  \* rows in MySQL: they survive a crash of the process
  status,      \* status column; "none": id not used yet, "deleted": row removed
  polEnabled,  \* enabled column of the policy
  target,      \* the row of the policy's target is there
  project,     \* the policy's project is there, not marked deleted
  \* memory of the jobservice process
  up,          \* how far main() has come
  resumeTodo,  \* jobs resumeJobs has still to schedule
  waiting,     \* per job: goroutines of Dispatch waiting for a free worker
  sleeping,    \* per job: Reschedule goroutines in their five minutes
  wk,          \* state of each worker and of its state machine, see WorkerState
  stopTodo,    \* (job, worker) pairs StopJobs has still to visit
  \* memory of the ui process
  deleting,    \* jobs whose Delete request has passed its status check
  \* history: jobs that some stop request has listed
  asked,
  \* bounds
  faults, crashes

dbVars     == <<status, polEnabled, target, project>>
mainVars   == <<up, resumeTodo>>
queueVars  == <<waiting, sleeping>>
stopVars   == <<stopTodo, asked>>
boundVars  == <<faults, crashes>>
vars == <<dbVars, mainVars, queueVars, wk, stopVars, deleting, boundVars>>

-----------------------------------------------------------------------------
(***************************************************************************)
(* Statuses, states and the transition table.                              *)
(***************************************************************************)
Active   == {"pending", "running", "retrying"}
Final    == {"error", "stopped", "finished", "canceled"}
NoRow    == {"none", "deleted"}
Statuses == Active \cup Final \cup NoRow

WorkStates == {"initialize", "check", "pull_manifest", "transfer_blob",
               "push_manifest", "delete"}
States     == Active \cup Final \cup WorkStates
Continue   == "_continue"

\* The states that need no entry in the table (SM.Init).
ForcedStates == {"error", "stopped", "canceled", "retrying"}

\* SM.Transitions as Reset, addImgTransferTransition and addImgDeleteTransition
\* fill it for job j.
Transitions(j, s) ==
  CASE s \in {"pending", "retrying"} -> {"running"}
    [] s = "running" -> IF Operation[j] = "transfer" THEN {"initialize"} ELSE {"delete"}
    [] s = "initialize"    -> {"check"}
    [] s = "check"         -> {"pull_manifest"}
    [] s = "pull_manifest" -> {"transfer_blob", "finished"}
    [] s = "transfer_blob" -> {"push_manifest"}
    [] s = "push_manifest" -> {"pull_manifest"}
    [] s = "delete"        -> {"finished"}
    [] OTHER -> {}

PCs == {"idle",        \* in workerChan, waiting on RepJobs
        "reset",       \* handleRepJob called
        "load_job", "load_policy", "load_target",   \* in SM.Reset
        "reset_error", \* Reset failed, status to be set to error
        "cancel",      \* policy disabled, status to be set to canceled
        "enter",       \* in SM.EnterState(next)
        "loop",        \* at the head of the loop of SM.Start
        "clear",       \* desired state read, not cleared yet
        "fail"}        \* SM.Start about to EnterState(error)

WorkerState ==
  [pc      : PCs,                         \* where the worker is
   arg     : Jobs \cup {NoJob},           \* the id handleRepJob works on
   smJob   : Jobs \cup {NoJob},           \* SM.JobID
   current : States,                      \* SM.CurrentState
   next    : States \cup {Continue, ""},  \* the local n of SM.Start
   desired : {"", "stopped"},             \* SM.desiredState
   tags    : 0..MaxTags]                  \* length of BaseHandler.tags

NewWorker ==
  [pc |-> "idle", arg |-> NoJob, smJob |-> NoJob, current |-> "pending",
   next |-> "", desired |-> "", tags |-> 0]

TypeOK ==
  /\ status \in [Jobs -> Statuses]
  /\ polEnabled \in [Policies -> BOOLEAN]
  /\ target \in [Policies -> BOOLEAN]
  /\ project \in [Policies -> BOOLEAN]
  /\ up \in {"down", "booting", "resuming", "serving"}
  /\ resumeTodo \in SUBSET Jobs
  /\ waiting \in [Jobs -> Nat]
  /\ sleeping \in [Jobs -> Nat]
  /\ wk \in [Workers -> WorkerState]
  /\ stopTodo \in SUBSET (Jobs \X Workers)
  /\ asked \in SUBSET Jobs
  /\ deleting \in SUBSET Jobs
  /\ faults \in 0..MaxFaults
  /\ crashes \in 0..MaxCrashes

Init ==
  /\ status = [j \in Jobs |-> "none"]
  /\ polEnabled = [p \in Policies |-> TRUE]
  /\ target = [p \in Policies |-> TRUE]
  /\ project = [p \in Policies |-> TRUE]
  /\ up = "down"
  /\ resumeTodo = {}
  /\ waiting = [j \in Jobs |-> 0]
  /\ sleeping = [j \in Jobs |-> 0]
  /\ wk = [w \in Workers |-> NewWorker]
  /\ stopTodo = {}
  /\ asked = {}
  /\ deleting = {}
  /\ faults = 0
  /\ crashes = 0

-----------------------------------------------------------------------------
(***************************************************************************)
(* Database statements.                                                    *)
(***************************************************************************)

\* A statement returns an error.
Fault ==
  /\ faults < MaxFaults
  /\ faults' = faults + 1
  /\ UNCHANGED crashes

\* The UPDATE of UpdateRepJobStatus changes a row: there is one, and with
\* another status (MySQL counts changed rows, and update_time is not set).
RowChanges(j, s) == status[j] \notin NoRow \cup {s}

\* UpdateRepJobStatus returning nil.
UpdateStatus(j, s) ==
  /\ RowChanges(j, s)
  /\ status' = [status EXCEPT ![j] = s]
  /\ UNCHANGED <<polEnabled, target, project, boundVars>>

\* UpdateRepJobStatus returning an error.
UpdateStatusError == Fault /\ UNCHANGED dbVars

\* What a query for the rows in S returns: the orm adds LIMIT to a query that has none,
\* and no order is asked for.
FirstRows(S) ==
  IF Cardinality(S) <= RowsLimit THEN {S}
  ELSE {T \in SUBSET S : Cardinality(T) = RowsLimit}

\* The status worker w is about to write, "" if it is not at such a point.
StatusWrite(w) ==
  CASE wk[w].pc \in {"reset_error", "fail"} -> "error"
    [] wk[w].pc = "cancel" -> "canceled"
    [] wk[w].pc = "enter" /\ wk[w].next \in {"running", "retrying", "stopped", "finished"} -> wk[w].next
    [] OTHER -> ""

-----------------------------------------------------------------------------
(***************************************************************************)
(* Scheduling: jobQueue is unbuffered and Dispatch does nothing but start  *)
(* a goroutine, so Schedule is one rendezvous.                             *)
(***************************************************************************)
Schedule(j) == waiting' = [waiting EXCEPT ![j] = @ + 1]

\* ReplicationJob.addJob: insert the row as pending, then Schedule.  A crash
\* between the two loses the same as a crash right after both.
AddJob(j) ==
  /\ up = "serving"
  /\ status[j] = "none"
  /\ status' = [status EXCEPT ![j] = "pending"]
  /\ Schedule(j)
  /\ UNCHANGED <<polEnabled, target, project, mainVars, sleeping, wk, stopVars,
                 deleting, boundVars>>

\* Reschedule after its sleep.
Reschedule(j) ==
  /\ sleeping[j] > 0
  /\ sleeping' = [sleeping EXCEPT ![j] = @ - 1]
  /\ Schedule(j)
  /\ UNCHANGED <<dbVars, mainVars, wk, stopVars, deleting, boundVars>>

\* The goroutine of Dispatch takes a free worker and hands it the job.
Assign(j, w) ==
  /\ waiting[j] > 0
  /\ wk[w].pc = "idle"
  /\ waiting' = [waiting EXCEPT ![j] = @ - 1]
  /\ wk' = [wk EXCEPT ![w].pc = "reset", ![w].arg = j]
  /\ UNCHANGED <<dbVars, mainVars, sleeping, stopVars, deleting, boundVars>>

-----------------------------------------------------------------------------
(***************************************************************************)
(* SM.Reset.                                                               *)
(***************************************************************************)

\* Worker w goes on as r and changes nothing else in memory.
Become(w, r) ==
  /\ wk' = [wk EXCEPT ![w] = r]
  /\ UNCHANGED <<mainVars, queueVars, stopVars, deleting>>

Goto(w, l) == Become(w, [wk[w] EXCEPT !.pc = l])

\* Mutant of ResetLock: the desired state of the previous job is kept.
ResetLock_KeepsDesired(w) ==
  /\ wk[w].pc = "reset"
  /\ Become(w, [wk[w] EXCEPT !.pc = "load_job", !.smJob = wk[w].arg])
  /\ UNCHANGED <<dbVars, boundVars>>

\* The critical section that makes the new job id visible to Stop.
ResetLock(w) ==
  /\ wk[w].pc = "reset"
  /\ Become(w, [wk[w] EXCEPT !.pc = "load_job", !.smJob = wk[w].arg, !.desired = ""])
  /\ UNCHANGED <<dbVars, boundVars>>

\* GetRepJob.  A read error comes back as a job with policy id 0, whose policy
\* is then not found: Reset fails either way.
LoadJob(w) ==
  /\ wk[w].pc = "load_job"
  /\ \/ /\ status[wk[w].arg] \notin NoRow
        /\ Goto(w, "load_policy") /\ UNCHANGED boundVars
     \/ /\ status[wk[w].arg] \in NoRow
        /\ Goto(w, "reset_error") /\ UNCHANGED boundVars
     \/ Goto(w, "reset_error") /\ Fault
  /\ UNCHANGED dbVars

\* Mutant of LoadPolicy: the enabled column is not looked at.
LoadPolicy_IgnoresEnabled(w) ==
  /\ wk[w].pc = "load_policy"
  /\ Goto(w, "load_target")
  /\ UNCHANGED <<dbVars, boundVars>>

\* GetRepPolicy: rows are only ever marked deleted, so it is found.
LoadPolicy(w) ==
  /\ wk[w].pc = "load_policy"
  /\ \/ /\ polEnabled[PolicyOf[wk[w].arg]]
        /\ Goto(w, "load_target") /\ UNCHANGED boundVars
     \/ /\ ~polEnabled[PolicyOf[wk[w].arg]]
        /\ Goto(w, "cancel") /\ UNCHANGED boundVars
     \/ Goto(w, "reset_error") /\ Fault
  /\ UNCHANGED dbVars

\* GetRepTarget and the rest of Reset; handleRepJob then calls Start(running).
LoadTarget(w) ==
  /\ wk[w].pc = "load_target"
  /\ \/ /\ target[PolicyOf[wk[w].arg]]
        /\ Operation[wk[w].arg] \in {"transfer", "delete"}
        /\ Become(w, [wk[w] EXCEPT !.pc = "enter", !.current = "pending",
                                   !.next = "running", !.tags = 0])
        /\ UNCHANGED boundVars
     \/ /\ target[PolicyOf[wk[w].arg]]
        /\ Operation[wk[w].arg] \notin {"transfer", "delete"}
        /\ Become(w, [wk[w] EXCEPT !.pc = "reset_error", !.current = "pending"])
        /\ UNCHANGED boundVars
     \/ /\ ~target[PolicyOf[wk[w].arg]]
        /\ Goto(w, "reset_error") /\ UNCHANGED boundVars
     \/ Goto(w, "reset_error") /\ Fault
  /\ UNCHANGED dbVars

\* The last write of handleRepJob or of Start: Reset failed, the policy is disabled, or
\* the forced entry into error.  An error of the statement is only logged.
LastWrite(w) ==
  /\ wk[w].pc \in {"reset_error", "cancel", "fail"}
  /\ \/ /\ UpdateStatus(wk[w].arg, StatusWrite(w))
        /\ Become(w, [wk[w] EXCEPT !.pc = "idle", !.next = "",
                                   !.current = IF wk[w].pc = "fail" THEN "error" ELSE @])
     \/ UpdateStatusError /\ Become(w, [wk[w] EXCEPT !.pc = "idle", !.next = ""])

-----------------------------------------------------------------------------
(***************************************************************************)
(* SM.Start: the loop.                                                     *)
(***************************************************************************)

\* getDesiredState found a state: it replaces the handler's choice ...
ReadDesired(w) ==
  /\ wk[w].pc = "loop"
  /\ wk[w].desired # ""
  /\ Become(w, [wk[w] EXCEPT !.pc = "clear", !.next = wk[w].desired])
  /\ UNCHANGED <<dbVars, boundVars>>

\* ... and setDesiredState("") is a critical section of its own.
ClearDesired(w) ==
  /\ wk[w].pc = "clear"
  /\ Become(w, [wk[w] EXCEPT !.pc = "loop", !.desired = ""])
  /\ UNCHANGED <<dbVars, boundVars>>

\* EnterState accepts a state that follows in the table or is forced.
CanEnter(w) == wk[w].next \in Transitions(wk[w].arg, wk[w].current) \cup ForcedStates

\* The table has exactly one way on from the current state.
OneWay(w) == \E s \in States : Transitions(wk[w].arg, wk[w].current) = {s}

\* No desired state: "_continue" stands for the one way on that the table has, and
\* any other state is entered; Start goes to error when the table has several ways
\* on, or none, or EnterState finds no such transition.
FollowNext(w) ==
  /\ wk[w].pc = "loop"
  /\ wk[w].desired = ""
  /\ IF wk[w].next = Continue /\ OneWay(w)
     THEN \E s \in Transitions(wk[w].arg, wk[w].current) :
            Become(w, [wk[w] EXCEPT !.next = s])
     ELSE IF wk[w].next # Continue /\ CanEnter(w)
          THEN Goto(w, "enter")
          ELSE Goto(w, "fail")
  /\ UNCHANGED <<dbVars, boundVars>>

-----------------------------------------------------------------------------
(***************************************************************************)
(* SM.EnterState and the state handlers.                                   *)
(***************************************************************************)

\* EnterState ends without error: Start goes round its loop with n, the worker having
\* t tags left, or returns to the pool if n is "".
Entered(w, n, t) ==
  Become(w, [wk[w] EXCEPT !.pc = IF n = "" THEN "idle" ELSE "loop",
                          !.current = wk[w].next, !.next = n, !.tags = t])

\* EnterState returns an error.  (next keeps the state that was not entered.)
EnterError(w) == Goto(w, "fail")

\* StatusUpdater.Enter: running goes on to the first state of the operation, stopped
\* and finished are the end.
EnterStatus(w) ==
  /\ wk[w].pc = "enter" /\ wk[w].next \in {"running", "stopped", "finished"}
  /\ \/ /\ UpdateStatus(wk[w].arg, wk[w].next)
        /\ Entered(w, IF wk[w].next = "running" THEN Continue ELSE "", wk[w].tags)
     \/ UpdateStatusError /\ EnterError(w)

\* Mutant of EnterRetrying: "_continue" is returned instead of "".
EnterRetrying_Continues(w) ==
  /\ wk[w].pc = "enter" /\ wk[w].next = "retrying"
  /\ sleeping' = [sleeping EXCEPT ![wk[w].arg] = @ + 1]
  /\ UpdateStatus(wk[w].arg, "retrying")
  /\ wk' = [wk EXCEPT ![w].pc = "loop", ![w].current = "retrying", ![w].next = Continue]
  /\ UNCHANGED <<mainVars, waiting, stopVars, deleting>>

\* Retry.Enter: the timer is started whether or not the status was written.
EnterRetrying(w) ==
  /\ wk[w].pc = "enter" /\ wk[w].next = "retrying"
  /\ sleeping' = [sleeping EXCEPT ![wk[w].arg] = @ + 1]
  /\ \/ /\ UpdateStatus(wk[w].arg, "retrying")
        /\ wk' = [wk EXCEPT ![w].pc = "idle", ![w].current = "retrying", ![w].next = ""]
     \/ UpdateStatusError /\ wk' = [wk EXCEPT ![w].pc = "fail"]
  /\ UNCHANGED <<mainVars, waiting, stopVars, deleting>>

\* A handler of package replication for state s: success goes on to n with t tags
\* left, a network error to retrying, any other error to error.
Handler(w, s, n, t) ==
  /\ wk[w].pc = "enter" /\ wk[w].next = s
  /\ \/ Entered(w, n, t)
     \/ Entered(w, "retrying", wk[w].tags)
     \/ EnterError(w)
  /\ UNCHANGED <<dbVars, boundVars>>

\* Initializer: the tags of the request, or all tags of the source repository.
Initialize(w)   == \E t \in 0..MaxTags : Handler(w, "initialize", "check", t)
TransferBlob(w) == Handler(w, "transfer_blob", "push_manifest", wk[w].tags)
PushManifest(w) == Handler(w, "push_manifest", "pull_manifest", wk[w].tags - 1)
DeleteImage(w)  == Handler(w, "delete", "finished", wk[w].tags)

\* Checker, when the source project is there (if it is not: see Panic).
Check(w) ==
  /\ wk[w].pc = "enter" /\ project[PolicyOf[wk[w].arg]]
  /\ Handler(w, "check", "pull_manifest", wk[w].tags)

\* Mutants of PullManifest: the test for the last tag is missing; and success is
\* reported as "_continue".
PullManifest_NoEmptyTest(w) == Handler(w, "pull_manifest", "transfer_blob", wk[w].tags)
PullManifest_Continues(w) ==
  Handler(w, "pull_manifest", IF wk[w].tags = 0 THEN "finished" ELSE Continue, wk[w].tags)

\* ManifestPuller: with no tag left it does nothing and cannot fail.
PullManifest(w) ==
  \/ wk[w].tags > 0 /\ Handler(w, "pull_manifest", "transfer_blob", wk[w].tags)
  \/ /\ wk[w].pc = "enter" /\ wk[w].next = "pull_manifest" /\ wk[w].tags = 0
     /\ Entered(w, "finished", 0)
     /\ UNCHANGED <<dbVars, boundVars>>

-----------------------------------------------------------------------------
(***************************************************************************)
(* Stopping the jobs of a policy.                                          *)
(***************************************************************************)

\* The rows that GetRepJobToStop asks for.
JobsToStop(p) == {j \in Jobs : PolicyOf[j] = p /\ status[j] \in {"pending", "running"}}

\* ReplicationJob.HandleAction up to the call of StopJobs.  Bound: one stop request
\* of a policy at a time.
HandleAction(p) ==
  /\ "stop" \in Requests
  /\ up = "serving"
  /\ \A pair \in stopTodo : PolicyOf[pair[1]] # p
  /\ \E listed \in FirstRows(JobsToStop(p)) :
       /\ stopTodo' = stopTodo \cup (listed \X Workers)
       /\ asked' = asked \cup listed
  /\ UNCHANGED <<dbVars, mainVars, queueVars, wk, deleting, boundVars>>

\* One iteration of StopJobs: its unlocked test of JobID adds nothing to the one
\* SM.Stop makes under the lock.  The pairs are visited in any order.
StopJob(j, w) ==
  /\ <<j, w>> \in stopTodo
  /\ stopTodo' = stopTodo \ {<<j, w>>}
  /\ wk' = [wk EXCEPT ![w].desired = IF wk[w].smJob = j THEN "stopped" ELSE @]
  /\ UNCHANGED <<dbVars, mainVars, queueVars, asked, deleting, boundVars>>

-----------------------------------------------------------------------------
(***************************************************************************)
(* The end of the process, and its restart (docker: restart always).       *)
(***************************************************************************)
LoseMemory ==
  /\ up' = "down"
  /\ resumeTodo' = {}
  /\ waiting' = [j \in Jobs |-> 0]
  /\ sleeping' = [j \in Jobs |-> 0]
  /\ wk' = [w \in Workers |-> NewWorker]
  /\ stopTodo' = {}
  /\ UNCHANGED <<dbVars, asked, deleting, faults>>

Crash ==
  /\ up # "down"
  /\ crashes < MaxCrashes
  /\ crashes' = crashes + 1
  /\ LoseMemory

\* The panic of one worker's goroutine ends the process: UpdateRepJobStatus calls Error()
\* on a nil error when no row was changed, and Checker dereferences the nil project that
\* GetProjectByName returns for one that is gone.
Panic(w) ==
  /\ \/ StatusWrite(w) # "" /\ ~RowChanges(wk[w].arg, StatusWrite(w))
     \/ wk[w].pc = "enter" /\ wk[w].next = "check" /\ ~project[PolicyOf[wk[w].arg]]
  /\ LoseMemory
  /\ UNCHANGED crashes

\* main() up to ResetRunningJobs, whose error is only logged.
Boot ==
  /\ up = "down"
  /\ up' = "booting"
  /\ \/ /\ status' = [j \in Jobs |-> IF status[j] = "running" THEN "pending" ELSE status[j]]
        /\ UNCHANGED boundVars
     \/ Fault /\ UNCHANGED status
  /\ UNCHANGED <<polEnabled, target, project, resumeTodo, queueVars, wk, stopVars, deleting>>

\* Mutants of ResumeQuery: other sets of statuses are resumed.
Resume(S) ==
  /\ up = "booting"
  /\ up' = "resuming"
  /\ resumeTodo' = {j \in Jobs : status[j] \in S}
  /\ UNCHANGED <<dbVars, queueVars, wk, stopVars, deleting, boundVars>>
ResumeQuery_PendingOnly  == Resume({"pending"})
ResumeQuery_RetryingOnly == Resume({"retrying"})
ResumeQuery_CanceledToo  == Resume({"pending", "retrying", "canceled"})

\* GetRepJobByStatus(pending, retrying); on an error nothing is resumed.
ResumeQuery ==
  /\ up = "booting"
  /\ up' = "resuming"
  /\ \/ /\ resumeTodo' \in FirstRows({j \in Jobs : status[j] \in {"pending", "retrying"}})
        /\ UNCHANGED boundVars
     \/ Fault /\ UNCHANGED resumeTodo
  /\ UNCHANGED <<dbVars, queueVars, wk, stopVars, deleting>>

\* One iteration of the loop of resumeJobs.
ResumeJob(j) ==
  /\ j \in resumeTodo
  /\ resumeTodo' = resumeTodo \ {j}
  /\ Schedule(j)
  /\ UNCHANGED <<dbVars, up, sleeping, wk, stopVars, deleting, boundVars>>

\* beego.Run: requests are served only from here on.
Serve ==
  /\ up = "resuming"
  /\ resumeTodo = {}
  /\ up' = "serving"
  /\ UNCHANGED <<dbVars, resumeTodo, queueVars, wk, stopVars, deleting, boundVars>>

-----------------------------------------------------------------------------
(***************************************************************************)
(* What the ui process does to the same rows.                              *)
(***************************************************************************)

\* RepJobAPI.Delete: the status check.  GetRepJob hides a read error and returns a
\* job without status, which passes the check.
DeleteCheck(j) ==
  /\ "delete_job" \in Requests
  /\ status[j] \notin NoRow
  /\ \/ status[j] \notin {"pending", "running"} /\ UNCHANGED boundVars
     \/ Fault
  /\ deleting' = deleting \cup {j}
  /\ UNCHANGED <<dbVars, mainVars, queueVars, wk, stopVars>>

\* RepJobAPI.Delete: DeleteRepJob, which may fail.
DeleteRepJob(j) ==
  /\ j \in deleting
  /\ deleting' = deleting \ {j}
  /\ \/ status' = [status EXCEPT ![j] = "deleted"] /\ UNCHANGED boundVars
     \/ Fault /\ UNCHANGED status
  /\ UNCHANGED <<polEnabled, target, project, mainVars, queueVars, wk, stopVars>>

UpdateRepPolicyEnablement(p) ==
  /\ "enablement" \in Requests
  /\ polEnabled' = [polEnabled EXCEPT ![p] = ~@]
  /\ UNCHANGED <<status, target, project, mainVars, queueVars, wk, stopVars, deleting, boundVars>>

\* The target and the project of a policy can only be deleted after the policy; the checks
\* for this are made before, and a policy can get jobs between its own check and its
\* deletion, so a job may lose either at any time.
DeleteRepTarget(p) ==
  /\ "delete_target" \in Requests
  /\ target[p]
  /\ target' = [target EXCEPT ![p] = FALSE]
  /\ UNCHANGED <<status, polEnabled, project, mainVars, queueVars, wk, stopVars, deleting, boundVars>>

DeleteProject(p) ==
  /\ "delete_project" \in Requests
  /\ project[p]
  /\ project' = [project EXCEPT ![p] = FALSE]
  /\ UNCHANGED <<status, polEnabled, target, mainVars, queueVars, wk, stopVars, deleting, boundVars>>

-----------------------------------------------------------------------------
WorkerRun(w) ==
  \/ ResetLock(w) \/ LoadJob(w) \/ LoadPolicy(w) \/ LoadTarget(w) \/ LastWrite(w)
  \/ ReadDesired(w) \/ ClearDesired(w) \/ FollowNext(w)
  \/ EnterStatus(w) \/ EnterRetrying(w)
  \/ Initialize(w) \/ Check(w) \/ PullManifest(w) \/ TransferBlob(w)
  \/ PushManifest(w) \/ DeleteImage(w)

WorkerStep(w) == WorkerRun(w) \/ Panic(w)

ServiceStep ==
  \/ \E w \in Workers : WorkerStep(w)
  \/ \E j \in Jobs : Reschedule(j) \/ ResumeJob(j)
  \/ \E j \in Jobs, w \in Workers : Assign(j, w) \/ StopJob(j, w)
  \/ Boot \/ ResumeQuery \/ Serve

RequestStep ==
  \/ \E j \in Jobs : AddJob(j) \/ DeleteCheck(j) \/ DeleteRepJob(j)
  \/ \E p \in Policies : HandleAction(p) \/ UpdateRepPolicyEnablement(p)
                         \/ DeleteRepTarget(p) \/ DeleteProject(p)

Next == ServiceStep \/ RequestStep \/ Crash

Spec == Init /\ [][Next]_vars

(***************************************************************************)
(* Fairness.  Every goroutine that can run does run, sleeps end and docker *)
(* restarts the process.  The channel of free workers serves its receivers *)
(* in the order they came, so a job cannot be overtaken forever.  Nothing  *)
(* is assumed of users, the network, faults and crashes.                   *)
(***************************************************************************)
Fairness ==
  /\ \A w \in Workers : WF_vars(WorkerStep(w))
  /\ \A j \in Jobs : /\ WF_vars(Reschedule(j))
                     /\ WF_vars(ResumeJob(j))
                     /\ SF_vars(\E w \in Workers : Assign(j, w))
                     /\ WF_vars(\E w \in Workers : StopJob(j, w))
  /\ WF_vars(Boot) /\ WF_vars(ResumeQuery) /\ WF_vars(Serve)

FairSpec == Spec /\ Fairness

-----------------------------------------------------------------------------
(***************************************************************************)
(* Safety.                                                                 *)
(***************************************************************************)

\* Worker w still has work to do for job j.  After a failed write in Retry.Enter
\* only the entry into error is left for it, while a timer already has the job.
Holds(w, j) ==
  /\ wk[w].pc # "idle"
  /\ wk[w].arg = j
  /\ ~(wk[w].pc = "fail" /\ wk[w].next = "retrying")

\* A job is in one place only: on the list of resumeJobs, in one goroutine of
\* Dispatch, in one Reschedule timer or with one worker.  Otherwise two workers
\* would replicate the same job at the same time and overwrite each other's status.
ExclusiveHolder ==
  \A j \in Jobs :
    /\ waiting[j] + sleeping[j] <= 1
    /\ waiting[j] + sleeping[j] = 1 => j \notin resumeTodo
    /\ \A w \in Workers : Holds(w, j) => /\ waiting[j] + sleeping[j] = 0
                                         /\ j \notin resumeTodo
    /\ \A v, w \in Workers : Holds(v, j) /\ Holds(w, j) => v = w

\* As long as no database statement has failed, a job whose row says pending, running
\* or retrying is somewhere in the process, crashes and restarts (resumeJobs) included:
\* no job is forgotten in an unfinished status.  (True up to RowsLimit jobs.)
NoLostJob ==
  faults = 0 /\ up \in {"resuming", "serving"} =>
    \A j \in Jobs : status[j] \in Active =>
      \/ j \in resumeTodo
      \/ waiting[j] + sleeping[j] > 0
      \/ \E w \in Workers : Holds(w, j)

\* As long as no database statement has failed, a worker never writes the status the
\* row has already: such an UPDATE changes no row and UpdateRepJobStatus panics.
NoRewrite ==
  faults = 0 => \A w \in Workers : StatusWrite(w) # "" => status[wk[w].arg] # StatusWrite(w)

\* As long as no database statement has failed, a job that was reported as error,
\* stopped, finished or canceled never gets another status: nothing of it is left in
\* the queue, a timer or a worker that could run it again.
FinalStable ==
  [][faults' = 0 => \A j \in Jobs : status[j] \in Final => status'[j] \in {status[j], "deleted"}]_vars

\* A job ends as stopped only if a stop request has listed it: SM.Stop and Reset keep a
\* request for the previous job of a state machine away from the next one.
StoppedWasAsked == \A j \in Jobs : status[j] = "stopped" => j \in asked

\* The handlers that work on tags[0] are entered only with a tag left: an index into
\* the empty list would end the process.
TagsLeft ==
  \A w \in Workers :
    wk[w].pc = "enter" /\ wk[w].next \in {"transfer_blob", "push_manifest"} => wk[w].tags > 0

\* SM.Start never fails because of the transition table: "_continue" is returned only
\* where there is one way on, and every other state a handler returns follows in the
\* table or is forced.
TableComplete ==
  \A w \in Workers : wk[w].pc = "loop" =>
    IF wk[w].next = Continue THEN OneWay(w) ELSE CanEnter(w)

\* Every status write of a worker finds a row to change, so that UpdateRepJobStatus
\* returns and the worker goes on, as the error branches of its callers expect.
StatusWriteFindsRow ==
  \A w \in Workers : StatusWrite(w) # "" => RowChanges(wk[w].arg, StatusWrite(w))

-----------------------------------------------------------------------------
(***************************************************************************)
(* Liveness, under FairSpec.                                               *)
(***************************************************************************)

\* Every job that was accepted gets a worker and is worked off: it reaches a final
\* status or is put off by a network error, whatever the other jobs do.
PendingIsHandled ==
  \A j \in Jobs : status[j] = "pending" ~> status[j] \in Final \cup {"retrying", "deleted"}

\* The jobs of a policy that stays disabled drain, even those that would retry forever:
\* in the end none is pending, running or retrying, and the policy can be deleted.
DisabledPolicyDrains ==
  \A p \in Policies :
    <>[]~polEnabled[p] => <>[](\A j \in Jobs : PolicyOf[j] = p => status[j] \notin Active)

\* The service recovers from every crash and every panic: a restart does not run into
\* the same panic again.
Recovers == <>[](up = "serving")
=============================================================================
