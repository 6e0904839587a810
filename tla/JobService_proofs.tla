-------------------------- MODULE JobService_proofs --------------------------
(***************************************************************************)
(* The invariants of JobService, for any number of jobs, workers, policies *)
(* and tags, any sequence of requests, faults and crashes.                 *)
(***************************************************************************)
EXTENDS JobService, FiniteSetTheorems, TLAPS

-----------------------------------------------------------------------------
(***************************************************************************)
(* The inductive invariant: LocalInv /\ HolderInv /\ StatusInv /\ StopInv. *)
(***************************************************************************)

\* Program counters of a worker before its job is marked running.
Early == {"reset", "load_job", "load_policy", "load_target", "reset_error", "cancel"}

\* What SM.Start may find in n at the head of its loop.
LoopNext == WorkStates \cup {Continue, "stopped", "retrying", "finished"}

\* Which n goes with which program counter in the state r of a worker, that n follows in
\* the table, and that the handlers of a tag are only ever asked for with a tag left.
WorkerOK(r) ==
  /\ r.pc # "idle" => r.arg \in Jobs
  /\ r.pc \notin {"idle", "reset"} => r.smJob = r.arg
  /\ r.pc \in Early \cup {"idle"} => r.next = ""
  /\ r.pc \in {"loop", "clear"} => r.next \in LoopNext
  /\ r.pc = "clear" => r.next = "stopped"
  /\ r.pc = "loop" /\ r.next = Continue => r.current = "running"
  /\ r.pc = "loop" /\ r.next # Continue => r.next \in Transitions(r.arg, r.current) \cup ForcedStates
  /\ r.pc = "enter" => r.next \in (LoopNext \ {Continue}) \cup {"running"}
  /\ r.next \in {"transfer_blob", "push_manifest"} => r.tags > 0

LocalInv == TypeOK /\ \A w \in Workers : WorkerOK(wk[w])

\* Nobody has job j.
Unheld(j) ==
  /\ waiting[j] = 0
  /\ sleeping[j] = 0
  /\ j \notin resumeTodo
  /\ \A w \in Workers : ~Holds(w, j)

\* Each job has at most one holder, none before its row is there, and none at all
\* before resumeJobs has looked for the jobs to resume.
HolderInv ==
  /\ ExclusiveHolder
  /\ \A j \in Jobs : status[j] = "none" => Unheld(j)
  /\ up \in {"down", "booting"} =>
       /\ \A j \in Jobs : waiting[j] = 0 /\ sleeping[j] = 0
       /\ \A w \in Workers : wk[w].pc = "idle"
  /\ up # "resuming" => resumeTodo = {}

\* What the row of its job says while a worker is in state r, up to the removal of the
\* row by a user.
RowOf(r) ==
  IF r.pc \in Early \/ (r.pc = "enter" /\ r.next = "running")
  THEN {"pending", "retrying", "deleted"}
  ELSE {"running", "deleted"}

\* As long as no statement has failed, the holder of a job knows what its row says.
RowsAgree ==
  /\ \A j \in Jobs : waiting[j] > 0 \/ j \in resumeTodo
                       => status[j] \in {"pending", "retrying", "deleted"}
  /\ \A j \in Jobs : sleeping[j] > 0 => status[j] \in {"retrying", "deleted"}
  /\ \A w \in Workers : wk[w].pc # "idle" => status[wk[w].arg] \in RowOf(wk[w])
  /\ \A w \in Workers : wk[w].pc = "fail" => wk[w].next \notin {"running", "retrying"}
  /\ up = "booting" => \A j \in Jobs : status[j] # "running"

\* No query for jobs meets the limit of the orm.
Fits == IsFiniteSet(Jobs) /\ Cardinality(Jobs) <= RowsLimit

StatusInv == (faults = 0 => RowsAgree) /\ (Fits => NoLostJob)

\* A stop request that reaches a state machine, or that its worker has read, is one
\* for its job.
StopInv ==
  /\ StoppedWasAsked
  /\ \A pair \in stopTodo : pair[1] \in asked
  /\ \A w \in Workers : wk[w].desired = "stopped" => wk[w].smJob \in asked
  /\ \A w \in Workers : wk[w].next = "stopped" => wk[w].arg \in asked

-----------------------------------------------------------------------------
(***************************************************************************)
(* The transition table and the bounds.                                    *)
(***************************************************************************)
USE DEF vars, dbVars, mainVars, queueVars, stopVars, boundVars

\* There is one way on from running: the first state of the operation.
LEMMA RunningGoesToWork ==
  ASSUME NEW j, NEW s, s \in Transitions(j, "running")
  PROVE  s \in {"initialize", "delete"}
BY DEF Transitions

\* A query returns some of the rows it asks for, and all of them below the limit.
LEMMA RowsOfQuery ==
  ASSUME NEW S \in SUBSET Jobs, NEW T \in FirstRows(S)
  PROVE  T \subseteq S /\ (Fits => T = S)
<1>1. ASSUME Fits PROVE Cardinality(S) <= RowsLimit
  <2>1. Cardinality(S) <= Cardinality(Jobs) /\ IsFiniteSet(S)
    BY <1>1, FS_Subset DEF Fits
  <2>2. Cardinality(S) \in Nat /\ Cardinality(Jobs) \in Nat
    BY <1>1, <2>1, FS_CardinalityType DEF Fits
  <2> QED
    BY <1>1, <2>1, <2>2, ConstantsAssumption DEF Fits
<1> QED
  BY <1>1 DEF FirstRows

\* The bounds are kept by a step that counts at most a fault, and a fault is remembered.
LEMMA FaultStep ==
  ASSUME TypeOK, UNCHANGED boundVars \/ Fault
  PROVE  /\ faults' \in 0..MaxFaults
         /\ crashes' \in 0..MaxCrashes
         /\ faults' = 0 => faults = 0 /\ UNCHANGED boundVars
<1>1. faults \in 0..MaxFaults /\ crashes \in 0..MaxCrashes
  BY DEF TypeOK
<1>2. CASE UNCHANGED boundVars
  BY <1>1, <1>2
<1>3. CASE Fault
  <2>1. faults' = faults + 1 /\ faults < MaxFaults /\ crashes' = crashes
    BY <1>3 DEF Fault
  <2> QED
    BY <1>1, <2>1, ConstantsAssumption
<1> QED
  BY <1>2, <1>3

-----------------------------------------------------------------------------
(***************************************************************************)
(* Types, and the local state of the workers.                              *)
(***************************************************************************)

\* The part of TypeOK that is not about the workers.
RestOK ==
  /\ status \in [Jobs -> Statuses]
  /\ polEnabled \in [Policies -> BOOLEAN]
  /\ target \in [Policies -> BOOLEAN]
  /\ project \in [Policies -> BOOLEAN]
  /\ up \in {"down", "booting", "resuming", "serving"}
  /\ resumeTodo \in SUBSET Jobs
  /\ waiting \in [Jobs -> Nat]
  /\ sleeping \in [Jobs -> Nat]
  /\ stopTodo \in SUBSET (Jobs \X Workers)
  /\ asked \in SUBSET Jobs
  /\ deleting \in SUBSET Jobs
  /\ faults \in 0..MaxFaults
  /\ crashes \in 0..MaxCrashes

LEMMA LocalInit == Init => LocalInv
<1> SUFFICES ASSUME Init PROVE LocalInv
  OBVIOUS
<1>1. NewWorker \in WorkerState /\ WorkerOK(NewWorker)
  BY ConstantsAssumption DEF NewWorker, WorkerState, WorkerOK, PCs, States, Active, Early
<1>2. RestOK
  BY ConstantsAssumption DEF Init, RestOK, Statuses, NoRow
<1> QED
  BY <1>1, <1>2 DEF Init, LocalInv, TypeOK, RestOK

\* A worker that becomes a well-formed r keeps the local invariant.
LEMMA BecomeLocal ==
  ASSUME LocalInv, NEW w \in Workers, NEW r \in WorkerState, WorkerOK(r),
         wk' = [wk EXCEPT ![w] = r], RestOK'
  PROVE  LocalInv'
<1>1. wk' \in [Workers -> WorkerState]
  BY DEF LocalInv, TypeOK
<1>2. \A v \in Workers : WorkerOK(wk'[v])
  BY DEF LocalInv, TypeOK
<1> QED
  BY <1>1, <1>2 DEF LocalInv, TypeOK, RestOK, WorkerOK

\* A step that only moves a worker and counts faults.
LEMMA RestQuiet ==
  ASSUME TypeOK, UNCHANGED dbVars, UNCHANGED <<mainVars, queueVars, stopVars, deleting>>,
         UNCHANGED boundVars \/ Fault
  PROVE  RestOK'
BY FaultStep DEF TypeOK, RestOK

\* A step that moves a worker and writes the status of its job.
LEMMA RestUpdate ==
  ASSUME TypeOK, NEW j \in Jobs, NEW s \in Statuses, UpdateStatus(j, s) \/ UpdateStatusError,
         UNCHANGED <<mainVars, queueVars, stopVars, deleting>>
  PROVE  RestOK'
<1>1. UNCHANGED boundVars \/ Fault
  BY DEF UpdateStatus, UpdateStatusError
<1>2. status' \in [Jobs -> Statuses]
  BY DEF TypeOK, UpdateStatus, UpdateStatusError
<1>3. UNCHANGED <<polEnabled, target, project>>
  BY DEF UpdateStatus, UpdateStatusError
<1> QED
  BY <1>1, <1>2, <1>3, FaultStep DEF TypeOK, RestOK

\* A plain move of the program counter within Reset, or to fail.
LEMMA GotoOK ==
  ASSUME NEW r \in WorkerState, WorkerOK(r),
         NEW l, \/ r.pc \in Early \ {"reset"} /\ l \in Early \ {"reset"}
                \/ r.pc \in {"enter", "loop"} /\ l = "fail"
                \/ r.pc = "loop" /\ r.next # Continue /\ l = "enter"
  PROVE  [r EXCEPT !.pc = l] \in WorkerState /\ WorkerOK([r EXCEPT !.pc = l])
BY DEF WorkerState, WorkerOK, PCs, Early

\* The entry into a state after which the state machine goes on with n.
LEMMA EnteredOK ==
  ASSUME NEW r \in WorkerState, WorkerOK(r), r.pc = "enter",
         NEW n \in LoopNext, NEW t \in 0..MaxTags,
         n = Continue => r.next = "running",
         n # Continue => n \in Transitions(r.arg, r.next) \cup ForcedStates,
         n \in {"transfer_blob", "push_manifest"} => t > 0
  PROVE  LET q == [r EXCEPT !.pc = "loop", !.current = r.next, !.next = n, !.tags = t]
         IN  q \in WorkerState /\ WorkerOK(q)
<1> DEFINE q == [r EXCEPT !.pc = "loop", !.current = r.next, !.next = n, !.tags = t]
<1>1. r.next \in States /\ n \in States \cup {Continue, ""}
  BY DEF WorkerOK, LoopNext, States, Active, Final, WorkStates, Continue
<1>2. q \in WorkerState
  BY <1>1 DEF WorkerState, PCs
<1>3. q.pc = "loop" /\ q.arg = r.arg /\ q.smJob = r.smJob /\ q.current = r.next
      /\ q.next = n /\ q.tags = t
  BY DEF WorkerState
<1>4. r.arg \in Jobs /\ r.smJob = r.arg
  BY DEF WorkerOK
<1> HIDE DEF q
<1>5. WorkerOK(q)
  BY <1>3, <1>4 DEF WorkerOK, Early
<1> QED
  BY <1>2, <1>5 DEF q

\* A step of a worker keeps the local invariant.
LEMMA LocalWorker ==
  ASSUME LocalInv, NEW w \in Workers, WorkerRun(w)
  PROVE  LocalInv'
<1> DEFINE r == wk[w]
<1>0. TypeOK /\ r \in WorkerState /\ WorkerOK(r)
  BY DEF LocalInv, TypeOK
<1>a. r.tags \in 0..MaxTags
  BY <1>0 DEF WorkerState
<1> USE DEF Become
<1>1. CASE ResetLock(w)
  <2>1. r.pc = "reset" /\ r.arg \in Jobs
    BY <1>0, <1>1 DEF ResetLock, WorkerOK
  <2> HIDE DEF r
  <2> DEFINE q == [r EXCEPT !.pc = "load_job", !.smJob = r.arg, !.desired = ""]
  <2>2. q \in WorkerState /\ WorkerOK(q)
    BY <1>0, <2>1 DEF WorkerState, WorkerOK, PCs, Early
  <2>3. RestOK'
    BY <1>0, <1>1, RestQuiet DEF ResetLock
  <2> QED
    BY <1>1, <2>2, <2>3, BecomeLocal DEF ResetLock, r
<1>2. CASE LoadJob(w) \/ LoadPolicy(w)
  <2>1. PICK l \in Early \ {"reset"} : r.pc \in Early \ {"reset"} /\ Goto(w, l)
    BY <1>2 DEF LoadJob, LoadPolicy, Early
  <2>2. RestOK'
    BY <1>0, <1>2, RestQuiet DEF LoadJob, LoadPolicy, Goto
  <2> QED
    BY <1>0, <2>1, <2>2, GotoOK, BecomeLocal DEF Goto
<1>3. CASE LoadTarget(w)
  <2>1. RestOK'
    BY <1>0, <1>3, RestQuiet DEF LoadTarget, Goto
  <2>2. CASE Goto(w, "reset_error")
    BY <1>0, <1>3, <2>1, <2>2, GotoOK, BecomeLocal DEF Goto, LoadTarget, Early
  <2>3. r.pc = "load_target"
    BY <1>3 DEF LoadTarget
  <2> DEFINE q == [r EXCEPT !.pc = "reset_error", !.current = "pending"]
             p == [r EXCEPT !.pc = "enter", !.current = "pending", !.next = "running", !.tags = 0]
  <2>4. q \in WorkerState /\ WorkerOK(q) /\ p \in WorkerState /\ WorkerOK(p)
    <3> HIDE DEF r
    <3>0. 0 \in 0..MaxTags
      BY ConstantsAssumption
    <3>1. q \in WorkerState /\ p \in WorkerState
      BY <1>0, <3>0 DEF WorkerState, PCs, States, Active
    <3>2. WorkerOK(q)
      BY <1>0, <2>3 DEF WorkerState, WorkerOK, Early
    <3>3. WorkerOK(p)
      BY <1>0, <2>3 DEF WorkerState, WorkerOK, Early
    <3> QED
      BY <3>1, <3>2, <3>3
  <2>5. CASE Become(w, q)
    BY <2>1, <2>4, <2>5, BecomeLocal
  <2>6. CASE Become(w, p)
    BY <2>1, <2>4, <2>6, BecomeLocal
  <2> QED
    BY <1>3, <2>2, <2>5, <2>6 DEF LoadTarget
<1>4. CASE LastWrite(w)
  <2>1. r.pc \in {"reset_error", "cancel", "fail"} /\ r.arg \in Jobs
    BY <1>0, <1>4 DEF LastWrite, WorkerOK
  <2>2. StatusWrite(w) \in Statuses
    BY <2>1 DEF StatusWrite, Statuses, Final
  <2>3. RestOK'
    BY <1>0, <1>4, <2>1, <2>2, RestUpdate DEF LastWrite
  <2>4. PICK c \in States : wk' = [wk EXCEPT ![w] = [r EXCEPT !.pc = "idle", !.next = "", !.current = c]]
    <3>1. r.current \in States /\ "error" \in States
      BY <1>0 DEF WorkerState, States, Final
    <3>2. [r EXCEPT !.pc = "idle", !.next = ""] = [r EXCEPT !.pc = "idle", !.next = "", !.current = r.current]
      BY <1>0 DEF WorkerState
    <3> QED
      BY <1>4, <3>1, <3>2 DEF LastWrite
  <2> HIDE DEF r
  <2> DEFINE q == [r EXCEPT !.pc = "idle", !.next = "", !.current = c]
  <2>5. q \in WorkerState /\ WorkerOK(q)
    BY <1>0, <2>1 DEF WorkerState, WorkerOK, PCs, Early
  <2> QED
    BY <2>3, <2>4, <2>5, BecomeLocal
<1>5. CASE ReadDesired(w) \/ ClearDesired(w)
  <2>1. RestOK'
    BY <1>0, <1>5, RestQuiet DEF ReadDesired, ClearDesired
  <2> DEFINE q == [r EXCEPT !.pc = "clear", !.next = r.desired]
             p == [r EXCEPT !.pc = "loop", !.desired = ""]
  <2>2. CASE ReadDesired(w)
    <3>1. r.pc = "loop" /\ r.desired = "stopped"
      BY <1>0, <2>2 DEF ReadDesired, WorkerState
    <3>2. q \in WorkerState /\ WorkerOK(q)
      <4> HIDE DEF r
      <4> QED
        BY <1>0, <3>1 DEF WorkerState, WorkerOK, PCs, Early, LoopNext, States, Final
    <3> QED
      BY <2>1, <2>2, <3>2, BecomeLocal DEF ReadDesired
  <2>3. CASE ClearDesired(w)
    <3>1. r.pc = "clear"
      BY <2>3 DEF ClearDesired
    <3>2. p \in WorkerState /\ WorkerOK(p)
      <4> HIDE DEF r
      <4> QED
        BY <1>0, <3>1 DEF WorkerState, WorkerOK, PCs, Early, LoopNext, Continue, ForcedStates
    <3> QED
      BY <2>1, <2>3, <3>2, BecomeLocal DEF ClearDesired
  <2> QED
    BY <1>5, <2>2, <2>3
<1>6. CASE FollowNext(w)
  <2>1. RestOK'
    BY <1>0, <1>6, RestQuiet DEF FollowNext, Goto
  <2>2. r.pc = "loop"
    BY <1>6 DEF FollowNext
  <2>3. CASE r.next = Continue /\ OneWay(w)
    <3>1. r.current = "running"
      BY <1>0, <2>2, <2>3 DEF WorkerOK
    <3>2. PICK s \in {"initialize", "delete"} :
            s \in Transitions(r.arg, r.current) /\ wk' = [wk EXCEPT ![w] = [r EXCEPT !.next = s]]
      BY <1>6, <2>3, <3>1, RunningGoesToWork DEF FollowNext
    <3> HIDE DEF r
    <3> DEFINE q == [r EXCEPT !.next = s]
    <3>3. q \in WorkerState
      BY <1>0, <3>2 DEF WorkerState, States, WorkStates
    <3>4. WorkerOK(q)
      BY <1>0, <2>2, <3>2 DEF WorkerState, WorkerOK, Early, LoopNext, WorkStates, Continue
    <3> QED
      BY <2>1, <3>2, <3>3, <3>4, BecomeLocal
  <2>4. CASE ~(r.next = Continue /\ OneWay(w))
    <3>1. PICK l : Goto(w, l) /\ (l = "fail" \/ (r.next # Continue /\ l = "enter"))
      BY <1>6, <2>4 DEF FollowNext
    <3> QED
      BY <1>0, <2>1, <2>2, <3>1, GotoOK, BecomeLocal DEF Goto
  <2> QED
    BY <2>3, <2>4
<1>7. CASE EnterStatus(w)
  <2>1. r.pc = "enter" /\ r.next \in {"running", "stopped", "finished"} /\ r.arg \in Jobs
    BY <1>0, <1>7 DEF EnterStatus, WorkerOK
  <2>2. RestOK'
    BY <1>0, <1>7, <2>1, RestUpdate DEF EnterStatus, Entered, EnterError, Goto, Statuses, Active, Final
  <2>3. CASE EnterError(w)
    BY <1>0, <2>1, <2>2, <2>3, GotoOK, BecomeLocal DEF EnterError, Goto
  <2>4. CASE r.next = "running" /\ Entered(w, Continue, r.tags)
    <3> DEFINE q == [r EXCEPT !.pc = "loop", !.current = r.next, !.next = Continue, !.tags = r.tags]
    <3>1. q \in WorkerState /\ WorkerOK(q)
      BY <1>0, <1>a, <2>1, <2>4, EnteredOK DEF LoopNext, Continue
    <3>2. wk' = [wk EXCEPT ![w] = q]
      BY <2>4 DEF Entered, Continue
    <3> QED
      BY <2>2, <3>1, <3>2, BecomeLocal
  <2>5. CASE r.next # "running" /\ Entered(w, "", r.tags)
    <3> DEFINE q == [r EXCEPT !.pc = "idle", !.current = r.next, !.next = "", !.tags = r.tags]
    <3>1. q \in WorkerState /\ WorkerOK(q)
      <4> HIDE DEF r
      <4> QED
        BY <1>0, <1>a, <2>1 DEF WorkerState, WorkerOK, PCs, Early, States, Final, Active
    <3>2. wk' = [wk EXCEPT ![w] = q]
      BY <2>5 DEF Entered
    <3> QED
      BY <2>2, <3>1, <3>2, BecomeLocal
  <2> QED
    BY <1>7, <2>3, <2>4, <2>5 DEF EnterStatus
<1>8. CASE EnterRetrying(w)
  <2>1. r.pc = "enter" /\ r.next = "retrying" /\ r.arg \in Jobs
    BY <1>0, <1>8 DEF EnterRetrying, WorkerOK
  <2>2. RestOK'
    <3>1. sleeping' \in [Jobs -> Nat]
      <4>1. sleeping \in [Jobs -> Nat] /\ sleeping' = [sleeping EXCEPT ![r.arg] = @ + 1]
        BY <1>0, <1>8 DEF EnterRetrying, TypeOK
      <4> HIDE DEF r
      <4> QED
        BY <2>1, <4>1
    <3>2. status' \in [Jobs -> Statuses] /\ UNCHANGED <<polEnabled, target, project>>
      BY <1>0, <1>8, <2>1 DEF EnterRetrying, TypeOK, UpdateStatus, UpdateStatusError, Statuses, Active
    <3>3. UNCHANGED boundVars \/ Fault
      BY <1>8 DEF EnterRetrying, UpdateStatus, UpdateStatusError
    <3> QED
      BY <1>0, <1>8, <3>1, <3>2, <3>3, FaultStep DEF EnterRetrying, TypeOK, RestOK
  <2> DEFINE q == [r EXCEPT !.pc = "idle", !.current = "retrying", !.next = ""]
  <2>3. q \in WorkerState /\ WorkerOK(q)
    <3> HIDE DEF r
    <3> QED
      BY <1>0, <2>1 DEF WorkerState, WorkerOK, PCs, Early, States, Active
  <2>4. CASE wk' = [wk EXCEPT ![w] = q]
    BY <2>2, <2>3, <2>4, BecomeLocal
  <2>5. CASE wk' = [wk EXCEPT ![w] = [r EXCEPT !.pc = "fail"]]
    BY <1>0, <2>1, <2>2, <2>5, GotoOK, BecomeLocal
  <2> QED
    BY <1>8, <2>4, <2>5 DEF EnterRetrying
<1>9. ASSUME NEW s, NEW n \in WorkStates \cup {"finished"}, NEW t \in 0..MaxTags,
             Handler(w, s, n, t), n \in {"transfer_blob", "push_manifest"} => t > 0,
             n \in Transitions(r.arg, s)
      PROVE  LocalInv'
  <2>1. r.pc = "enter" /\ r.next = s /\ RestOK'
    BY <1>0, <1>9, RestQuiet DEF Handler, Entered, EnterError, Goto
  <2>2. CASE EnterError(w)
    BY <1>0, <2>1, <2>2, GotoOK, BecomeLocal DEF EnterError, Goto
  <2>3. ASSUME NEW m \in WorkStates \cup {"finished", "retrying"}, NEW u \in 0..MaxTags,
               Entered(w, m, u), m \in {"transfer_blob", "push_manifest"} => u > 0,
               m \in Transitions(r.arg, s) \cup ForcedStates
        PROVE  LocalInv'
    <3> DEFINE q == [r EXCEPT !.pc = "loop", !.current = r.next, !.next = m, !.tags = u]
    <3>1. m \in LoopNext /\ m # Continue /\ m # ""
      BY <2>3 DEF LoopNext, WorkStates, Continue
    <3>2. q \in WorkerState /\ WorkerOK(q)
      BY <1>0, <2>1, <2>3, <3>1, EnteredOK
    <3>3. wk' = [wk EXCEPT ![w] = q]
      BY <2>3, <3>1 DEF Entered
    <3> QED
      BY <2>1, <3>2, <3>3, BecomeLocal
  <2> QED
    BY <1>9, <1>a, <2>2, <2>3 DEF Handler, ForcedStates
<1>b. /\ "check" \in Transitions(r.arg, "initialize")
      /\ "pull_manifest" \in Transitions(r.arg, "check")
      /\ {"transfer_blob", "finished"} \subseteq Transitions(r.arg, "pull_manifest")
      /\ "push_manifest" \in Transitions(r.arg, "transfer_blob")
      /\ "pull_manifest" \in Transitions(r.arg, "push_manifest")
      /\ "finished" \in Transitions(r.arg, "delete")
  BY DEF Transitions
<1>10. CASE Initialize(w) \/ Check(w) \/ DeleteImage(w)
  BY <1>9, <1>10, <1>a, <1>b DEF Initialize, Check, DeleteImage, WorkStates
<1>11. CASE TransferBlob(w) \/ PushManifest(w)
  <2>1. r.tags > 0
    BY <1>0, <1>11 DEF TransferBlob, PushManifest, Handler, WorkerOK
  <2>2. r.tags - 1 \in 0..MaxTags
    BY <1>a, <2>1, ConstantsAssumption
  <2> QED
    BY <1>9, <1>11, <1>a, <1>b, <2>1, <2>2 DEF TransferBlob, PushManifest, WorkStates
<1>12. CASE PullManifest(w)
  <2>1. CASE r.tags > 0 /\ Handler(w, "pull_manifest", "transfer_blob", r.tags)
    BY <1>9, <1>a, <1>b, <2>1 DEF WorkStates
  <2>2. CASE /\ r.pc = "enter" /\ r.next = "pull_manifest"
             /\ Entered(w, "finished", 0) /\ UNCHANGED <<dbVars, boundVars>>
    <3>1. Handler(w, "pull_manifest", "finished", 0) /\ 0 \in 0..MaxTags
      BY <2>2, ConstantsAssumption DEF Handler
    <3> QED
      BY <1>9, <1>b, <3>1
  <2> QED
    BY <1>12, <2>1, <2>2 DEF PullManifest
<1> QED
  BY <1>1, <1>2, <1>3, <1>4, <1>5, <1>6, <1>7, <1>8, <1>10, <1>11, <1>12 DEF WorkerRun

\* A step that leaves the workers alone keeps the local invariant if it keeps the rest.
LEMMA SameWorkersLocal ==
  ASSUME LocalInv, UNCHANGED wk, RestOK'
  PROVE  LocalInv'
BY DEF LocalInv, TypeOK, RestOK, WorkerOK

\* The end of the process leaves new workers behind.
LEMMA LoseMemoryLocal ==
  ASSUME LocalInv, LoseMemory, crashes' \in 0..MaxCrashes
  PROVE  LocalInv'
<1>1. NewWorker \in WorkerState /\ WorkerOK(NewWorker)
  BY ConstantsAssumption DEF NewWorker, WorkerState, WorkerOK, PCs, States, Active, Early
<1>2. RestOK'
  BY DEF LoseMemory, RestOK, LocalInv, TypeOK
<1>3. wk' = [w \in Workers |-> NewWorker]
  BY DEF LoseMemory
<1> QED
  BY ZenonT(60), <1>1, <1>2, <1>3 DEF LocalInv, TypeOK, RestOK, WorkerOK

\* Scheduling a job keeps the type of the queue.
LEMMA ScheduleType ==
  ASSUME TypeOK, NEW j \in Jobs, Schedule(j)
  PROVE  waiting' \in [Jobs -> Nat]
<1>1. waiting \in [Jobs -> Nat]
  BY DEF TypeOK
<1> QED
  BY <1>1 DEF Schedule

LEMMA LocalNext ==
  ASSUME LocalInv, Next
  PROVE  LocalInv'
<1>0. TypeOK
  BY DEF LocalInv
<1>1. ASSUME NEW w \in Workers, WorkerStep(w) PROVE LocalInv'
  <2>1. CASE WorkerRun(w)
    BY <2>1, LocalWorker
  <2>2. CASE Panic(w)
    BY <1>0, <2>2, LoseMemoryLocal DEF Panic, TypeOK
  <2> QED
    BY <1>1, <2>1, <2>2 DEF WorkerStep
<1>2. ASSUME NEW j \in Jobs, Reschedule(j) PROVE LocalInv'
  <2>1. sleeping \in [Jobs -> Nat]
    BY <1>0 DEF TypeOK
  <2>2. sleeping' \in [Jobs -> Nat]
    BY <1>2, <2>1 DEF Reschedule
  <2>3. waiting' \in [Jobs -> Nat]
    BY <1>0, <1>2, ScheduleType DEF Reschedule
  <2>4. RestOK'
    BY <1>0, <1>2, <2>2, <2>3 DEF Reschedule, TypeOK, RestOK
  <2> QED
    BY <1>2, <2>4, SameWorkersLocal DEF Reschedule
<1>3. ASSUME NEW j \in Jobs, ResumeJob(j) PROVE LocalInv'
  <2>1. waiting' \in [Jobs -> Nat]
    BY <1>0, <1>3, ScheduleType DEF ResumeJob
  <2>2. RestOK'
    BY <1>0, <1>3, <2>1 DEF ResumeJob, TypeOK, RestOK
  <2> QED
    BY <1>3, <2>2, SameWorkersLocal DEF ResumeJob
<1>4. ASSUME NEW j \in Jobs, NEW w \in Workers, Assign(j, w) PROVE LocalInv'
  <2>1. waiting \in [Jobs -> Nat]
    BY <1>0 DEF TypeOK
  <2>2. waiting' \in [Jobs -> Nat]
    BY <1>4, <2>1 DEF Assign
  <2>3. RestOK'
    BY <1>0, <1>4, <2>2 DEF Assign, TypeOK, RestOK
  <2> DEFINE r == wk[w]
             q == [r EXCEPT !.pc = "reset", !.arg = j]
  <2>4. r \in WorkerState /\ WorkerOK(r) /\ r.pc = "idle"
    BY <1>4 DEF LocalInv, TypeOK, Assign
  <2>5. q \in WorkerState /\ WorkerOK(q)
    <3> HIDE DEF r
    <3> QED
      BY <2>4 DEF WorkerState, WorkerOK, PCs, Early
  <2>6. wk' = [wk EXCEPT ![w] = q]
    BY <1>4 DEF Assign
  <2> QED
    BY <2>3, <2>5, <2>6, BecomeLocal
<1>5. ASSUME NEW j \in Jobs, NEW w \in Workers, StopJob(j, w) PROVE LocalInv'
  <2>1. RestOK'
    BY <1>0, <1>5 DEF StopJob, TypeOK, RestOK
  <2> DEFINE r == wk[w]
             q == [r EXCEPT !.desired = IF r.smJob = j THEN "stopped" ELSE @]
  <2>2. r \in WorkerState /\ WorkerOK(r)
    BY DEF LocalInv, TypeOK
  <2>3. q \in WorkerState /\ WorkerOK(q)
    <3> HIDE DEF r
    <3> QED
      BY ZenonT(60), <2>2 DEF WorkerState, WorkerOK
  <2>4. wk' = [wk EXCEPT ![w] = q]
    BY <1>5 DEF StopJob
  <2> QED
    BY <2>1, <2>3, <2>4, BecomeLocal
<1>6. CASE Boot
  <2>1. status' \in [Jobs -> Statuses]
    BY <1>0, <1>6 DEF Boot, TypeOK, Statuses, Active
  <2>2. UNCHANGED boundVars \/ Fault
    BY <1>6 DEF Boot
  <2>3. RestOK'
    BY <1>0, <1>6, <2>1, <2>2, FaultStep DEF Boot, TypeOK, RestOK
  <2> QED
    BY <1>6, <2>3, SameWorkersLocal DEF Boot
<1>7. CASE ResumeQuery
  <2>1. UNCHANGED boundVars \/ Fault
    BY <1>7 DEF ResumeQuery
  <2>2. resumeTodo' \in SUBSET Jobs
    BY <1>0, <1>7, RowsOfQuery DEF ResumeQuery, TypeOK
  <2>3. RestOK'
    BY <1>0, <1>7, <2>1, <2>2, FaultStep DEF ResumeQuery, TypeOK, RestOK
  <2> QED
    BY <1>7, <2>3, SameWorkersLocal DEF ResumeQuery
<1>8. CASE Serve
  BY <1>0, <1>8, SameWorkersLocal DEF Serve, TypeOK, RestOK
<1>9. ASSUME NEW j \in Jobs, AddJob(j) PROVE LocalInv'
  <2>1. status' \in [Jobs -> Statuses]
    BY <1>0, <1>9 DEF AddJob, TypeOK, Statuses, Active
  <2>2. waiting' \in [Jobs -> Nat]
    BY <1>0, <1>9, ScheduleType DEF AddJob
  <2>3. RestOK'
    BY <1>0, <1>9, <2>1, <2>2 DEF AddJob, TypeOK, RestOK
  <2> QED
    BY <1>9, <2>3, SameWorkersLocal DEF AddJob
<1>10. ASSUME NEW j \in Jobs, DeleteCheck(j) PROVE LocalInv'
  <2>1. UNCHANGED boundVars \/ Fault
    BY <1>10 DEF DeleteCheck
  <2>2. RestOK'
    BY <1>0, <1>10, <2>1, FaultStep DEF DeleteCheck, TypeOK, RestOK
  <2> QED
    BY <1>10, <2>2, SameWorkersLocal DEF DeleteCheck
<1>11. ASSUME NEW j \in Jobs, DeleteRepJob(j) PROVE LocalInv'
  <2>1. UNCHANGED boundVars \/ Fault
    BY <1>11 DEF DeleteRepJob
  <2>2. status' \in [Jobs -> Statuses]
    BY <1>0, <1>11 DEF DeleteRepJob, TypeOK, Statuses, NoRow
  <2>3. RestOK'
    BY <1>0, <1>11, <2>1, <2>2, FaultStep DEF DeleteRepJob, TypeOK, RestOK
  <2> QED
    BY <1>11, <2>3, SameWorkersLocal DEF DeleteRepJob
<1>12. ASSUME NEW p \in Policies, HandleAction(p) PROVE LocalInv'
  <2>1. PICK listed \in FirstRows(JobsToStop(p)) :
          stopTodo' = stopTodo \cup (listed \X Workers) /\ asked' = asked \cup listed
    BY <1>12 DEF HandleAction
  <2>2. listed \subseteq Jobs
    BY RowsOfQuery DEF JobsToStop
  <2>3. RestOK'
    BY <1>0, <1>12, <2>1, <2>2 DEF HandleAction, TypeOK, RestOK
  <2> QED
    BY <1>12, <2>3, SameWorkersLocal DEF HandleAction
<1>13. ASSUME NEW p \in Policies, UpdateRepPolicyEnablement(p) PROVE LocalInv'
  <2>1. polEnabled' \in [Policies -> BOOLEAN]
    BY <1>0, <1>13, Zenon DEF UpdateRepPolicyEnablement, TypeOK
  <2>2. RestOK'
    BY <1>0, <1>13, <2>1 DEF UpdateRepPolicyEnablement, TypeOK, RestOK
  <2> QED
    BY <1>13, <2>2, SameWorkersLocal DEF UpdateRepPolicyEnablement
<1>14. ASSUME NEW p \in Policies, DeleteRepTarget(p) PROVE LocalInv'
  <2>1. target' \in [Policies -> BOOLEAN]
    BY <1>0, <1>14 DEF DeleteRepTarget, TypeOK
  <2>2. RestOK'
    BY <1>0, <1>14, <2>1 DEF DeleteRepTarget, TypeOK, RestOK
  <2> QED
    BY <1>14, <2>2, SameWorkersLocal DEF DeleteRepTarget
<1>15. ASSUME NEW p \in Policies, DeleteProject(p) PROVE LocalInv'
  <2>1. project' \in [Policies -> BOOLEAN]
    BY <1>0, <1>15 DEF DeleteProject, TypeOK
  <2>2. RestOK'
    BY <1>0, <1>15, <2>1 DEF DeleteProject, TypeOK, RestOK
  <2> QED
    BY <1>15, <2>2, SameWorkersLocal DEF DeleteProject
<1>16. CASE Crash
  <2>1. crashes \in 0..MaxCrashes /\ crashes < MaxCrashes /\ crashes' = crashes + 1
    BY <1>0, <1>16 DEF Crash, TypeOK
  <2>2. crashes' \in 0..MaxCrashes
    BY <2>1, ConstantsAssumption
  <2> QED
    BY <1>16, <2>2, LoseMemoryLocal DEF Crash
<1> QED
  BY <1>1, <1>2, <1>3, <1>4, <1>5, <1>6, <1>7, <1>8, <1>9, <1>10, <1>11, <1>12, <1>13, <1>14,
     <1>15, <1>16 DEF Next, ServiceStep, RequestStep

LEMMA LocalStep == LocalInv /\ [Next]_vars => LocalInv'
<1>1. ASSUME LocalInv, UNCHANGED vars PROVE LocalInv'
  BY <1>1 DEF LocalInv, TypeOK, WorkerOK
<1> QED
  BY <1>1, LocalNext

\* The type invariant of the model holds for every instance; PushManifest keeps the
\* number of tags a number because no handler of a tag is entered without one.
THEOREM TypeCorrect == Spec => []TypeOK
<1>1. LocalInv => TypeOK
  BY DEF LocalInv
<1> QED
  BY <1>1, LocalInit, LocalStep, PTL DEF Spec

\* The handlers that work on the first tag always find one.
THEOREM TagsAlwaysLeft == Spec => []TagsLeft
<1>1. LocalInv => TagsLeft
  BY DEF LocalInv, TagsLeft, WorkerOK
<1> QED
  BY <1>1, LocalInit, LocalStep, PTL DEF Spec

\* SM.Start never runs into its error branches for the table: there is one way on from
\* running, and every state a handler asks for follows in the table or is forced.
THEOREM TableSuffices == Spec => []TableComplete
<1>1. ASSUME NEW j PROVE \E s \in States : Transitions(j, "running") = {s}
  BY DEF Transitions, States, WorkStates
<1>2. ASSUME LocalInv, NEW w \in Workers, wk[w].pc = "loop"
      PROVE  IF wk[w].next = Continue THEN OneWay(w) ELSE CanEnter(w)
  <2>1. WorkerOK(wk[w])
    BY <1>2 DEF LocalInv
  <2>2. CASE wk[w].next = Continue
    BY <1>1, <1>2, <2>1, <2>2 DEF WorkerOK, OneWay
  <2>3. CASE wk[w].next # Continue
    BY <1>2, <2>1, <2>3 DEF WorkerOK, CanEnter
  <2> QED
    BY <2>2, <2>3
<1>3. LocalInv => TableComplete
  BY <1>2 DEF TableComplete
<1> QED
  BY <1>3, LocalInit, LocalStep, PTL DEF Spec
=============================================================================
