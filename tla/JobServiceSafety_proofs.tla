----------------------- MODULE JobServiceSafety_proofs -----------------------
(***************************************************************************)
(* The safety properties of JobService that relate the rows of the jobs to *)
(* where the jobs are in the process.                                      *)
(***************************************************************************)
EXTENDS JobService_proofs

USE DEF vars, dbVars, mainVars, queueVars, stopVars, boundVars

-----------------------------------------------------------------------------
(***************************************************************************)
(* The kinds of steps of a worker that goes from state r to state q.       *)
(***************************************************************************)

\* Only the worker moves, on the same side of the write of "running".
QuietStep(r, q) ==
  /\ UNCHANGED <<status, sleeping, faults>>
  /\ q.pc # "idle"
  /\ RowOf(q) = RowOf(r)
  /\ r.pc # "fail"
  /\ q.pc = "fail" => q.next \notin {"running", "retrying"}

\* The row of the job gets a final status, and the worker is done.
EndStep(r, q) ==
  /\ \E s \in Final : /\ status' = [status EXCEPT ![r.arg] = s]
                      /\ s = "stopped" => r.next = "stopped"
  /\ UNCHANGED <<sleeping, faults>>
  /\ q.pc = "idle"

\* The job is marked running.
RunStep(r, q) ==
  /\ status' = [status EXCEPT ![r.arg] = "running"]
  /\ UNCHANGED <<sleeping, faults>>
  /\ r.pc = "enter"
  /\ q.pc = "loop"

\* The job is marked retrying and goes to a timer.
RetryStep(r, q) ==
  /\ status' = [status EXCEPT ![r.arg] = "retrying"]
  /\ sleeping' = [sleeping EXCEPT ![r.arg] = @ + 1]
  /\ r.pc = "enter" /\ r.next = "retrying"
  /\ q.pc = "idle"
  /\ UNCHANGED faults

\* A statement fails; the timer of a retry is started nevertheless.
FaultyStep(r, q) ==
  /\ faults' # 0
  /\ UNCHANGED status
  /\ \/ UNCHANGED sleeping
     \/ /\ sleeping' = [sleeping EXCEPT ![r.arg] = @ + 1]
        /\ r.pc = "enter" /\ r.next = "retrying"
        /\ q.pc = "fail" /\ q.next = "retrying"
  /\ r.pc = "fail" => q.pc = "idle"

\* What all of them have in common.
MoveOf(w, q) ==
  /\ q \in WorkerState
  /\ wk' = [wk EXCEPT ![w] = q]
  /\ wk[w].arg \in Jobs
  /\ wk[w].pc # "idle"
  /\ q.arg = wk[w].arg
  /\ UNCHANGED <<up, resumeTodo, waiting, stopVars, deleting>>
  /\ \/ QuietStep(wk[w], q) \/ EndStep(wk[w], q) \/ RunStep(wk[w], q)
     \/ RetryStep(wk[w], q) \/ FaultyStep(wk[w], q)

\* A fault is remembered.
LEMMA FaultCounts ==
  ASSUME TypeOK, Fault
  PROVE  faults' # 0
BY DEF Fault, TypeOK

\* Every step of a worker but a panic is of one of these kinds.
LEMMA WorkerMoves ==
  ASSUME LocalInv, NEW w \in Workers, WorkerRun(w)
  PROVE  \E q : MoveOf(w, q)
<1> DEFINE r == wk[w]
<1>0. TypeOK /\ r \in WorkerState /\ WorkerOK(r) /\ wk \in [Workers -> WorkerState]
  BY DEF LocalInv, TypeOK
<1>1. LocalInv' /\ wk' \in [Workers -> WorkerState]
  BY LocalWorker DEF LocalInv, TypeOK
<1>2. ASSUME NEW q, wk' = [wk EXCEPT ![w] = q], r.pc # "idle", q.arg = r.arg,
             UNCHANGED <<up, resumeTodo, waiting, stopVars, deleting>>,
             QuietStep(r, q) \/ EndStep(r, q) \/ RunStep(r, q) \/ RetryStep(r, q) \/ FaultyStep(r, q)
      PROVE  MoveOf(w, q)
  <2>1. q = wk'[w] /\ q \in WorkerState
    BY <1>0, <1>1, <1>2
  <2>2. r.arg \in Jobs
    BY <1>0, <1>2 DEF WorkerOK
  <2> QED
    BY <1>2, <2>1, <2>2 DEF MoveOf
<1> USE DEF Become
<1>3. ASSUME NEW l \in PCs, Goto(w, l), r.pc # "idle", r.pc # "fail", Fault, UNCHANGED dbVars
      PROVE  \E q : MoveOf(w, q)
  <2> DEFINE q == [r EXCEPT !.pc = l]
  <2>1. q.arg = r.arg
    BY <1>0 DEF WorkerState
  <2>2. FaultyStep(r, q)
    BY <1>0, <1>3, FaultCounts DEF FaultyStep, Goto
  <2> QED
    BY <1>2, <1>3, <2>1, <2>2 DEF Goto
<1>4. ASSUME NEW l \in PCs \ {"idle"}, Goto(w, l), r.pc \notin {"idle", "fail"}, UNCHANGED <<dbVars, boundVars>>,
             \/ r.pc \in Early /\ l \in Early
             \/ r.pc \notin Early /\ l = "fail" /\ r.next \notin {"running", "retrying"}
             \/ r.pc = "loop" /\ l = "enter"
      PROVE  \E q : MoveOf(w, q)
  <2> DEFINE q == [r EXCEPT !.pc = l]
  <2>1. q.arg = r.arg /\ q.pc = l /\ q.next = r.next
    BY <1>0 DEF WorkerState
  <2>2. r.pc = "loop" => r.next # "running"
    BY <1>0 DEF WorkerOK, LoopNext, WorkStates, Continue
  <2>3. RowOf(q) = RowOf(r)
    <3> HIDE DEF r, q
    <3> QED
      BY <1>4, <2>1, <2>2 DEF RowOf, Early
  <2>4. QuietStep(r, q)
    <3> HIDE DEF r, q
    <3> QED
      BY <1>4, <2>1, <2>3 DEF QuietStep, Goto, Early
  <2> QED
    BY <1>2, <1>4, <2>1, <2>4 DEF Goto
<1>5. CASE ResetLock(w)
  <2> DEFINE q == [r EXCEPT !.pc = "load_job", !.smJob = r.arg, !.desired = ""]
  <2>1. q.arg = r.arg /\ q.pc = "load_job" /\ r.pc = "reset" /\ wk' = [wk EXCEPT ![w] = q]
    BY <1>0, <1>5 DEF WorkerState, ResetLock
  <2>2. QuietStep(r, q)
    <3>1. UNCHANGED <<status, sleeping, faults>>
      BY <1>5 DEF ResetLock
    <3> HIDE DEF r, q
    <3> QED
      BY <3>1, <2>1 DEF QuietStep, RowOf, Early
  <2> QED
    BY <1>2, <1>5, <2>1, <2>2 DEF ResetLock
<1>6. CASE LoadJob(w) \/ LoadPolicy(w)
  <2>1. PICK l \in Early \ {"reset"} :
          /\ r.pc \in Early /\ Goto(w, l) /\ UNCHANGED dbVars
          /\ UNCHANGED boundVars \/ Fault
    BY <1>6 DEF LoadJob, LoadPolicy, Early
  <2>2. l \in PCs \ {"idle"} /\ r.pc \notin {"idle", "fail"}
    BY <2>1 DEF Early, PCs
  <2> QED
    BY <1>3, <1>4, <2>1, <2>2
<1>7. CASE LoadTarget(w)
  <2>1. r.pc = "load_target" /\ UNCHANGED dbVars
    BY <1>7 DEF LoadTarget
  <2>2. CASE Goto(w, "reset_error") /\ UNCHANGED boundVars
    BY <1>4, <2>1, <2>2 DEF Early, PCs
  <2>3. CASE Goto(w, "reset_error") /\ Fault
    BY <1>3, <2>1, <2>3 DEF PCs
  <2> DEFINE q == [r EXCEPT !.pc = "reset_error", !.current = "pending"]
             p == [r EXCEPT !.pc = "enter", !.current = "pending", !.next = "running", !.tags = 0]
  <2>4. q.arg = r.arg /\ q.pc = "reset_error" /\ p.arg = r.arg /\ p.pc = "enter" /\ p.next = "running"
    BY <1>0 DEF WorkerState
  <2>5. ASSUME UNCHANGED <<sleeping, boundVars>> PROVE QuietStep(r, q) /\ QuietStep(r, p)
    <3> HIDE DEF r, p, q
    <3> QED
      BY <2>1, <2>4, <2>5 DEF QuietStep, RowOf, Early
  <2>6. CASE Become(w, q) /\ UNCHANGED boundVars
    BY <1>2, <2>1, <2>4, <2>5, <2>6
  <2>7. CASE Become(w, p) /\ UNCHANGED boundVars
    BY <1>2, <2>1, <2>4, <2>5, <2>7
  <2> QED
    BY <1>7, <2>2, <2>3, <2>6, <2>7 DEF LoadTarget
<1>8. CASE LastWrite(w)
  <2>1. r.pc \in {"reset_error", "cancel", "fail"} /\ StatusWrite(w) \in {"error", "canceled"}
    BY <1>8 DEF LastWrite, StatusWrite
  <2>2. CASE UpdateStatusError /\ Become(w, [r EXCEPT !.pc = "idle", !.next = ""])
    <3> DEFINE q == [r EXCEPT !.pc = "idle", !.next = ""]
    <3>1. q.arg = r.arg /\ q.pc = "idle"
      BY <1>0 DEF WorkerState
    <3>2. FaultyStep(r, q)
      BY <1>0, <2>2, <3>1, FaultCounts DEF FaultyStep, UpdateStatusError
    <3> QED
      BY <1>2, <2>1, <2>2, <3>1, <3>2
  <2>3. ASSUME NEW c, UpdateStatus(r.arg, StatusWrite(w)),
               Become(w, [r EXCEPT !.pc = "idle", !.next = "", !.current = c])
        PROVE  \E q : MoveOf(w, q)
    <3> DEFINE q == [r EXCEPT !.pc = "idle", !.next = "", !.current = c]
    <3>1. q.arg = r.arg /\ q.pc = "idle"
      BY <1>0 DEF WorkerState
    <3>2. EndStep(r, q)
      <4>1. status' = [status EXCEPT ![r.arg] = StatusWrite(w)] /\ UNCHANGED <<sleeping, faults>>
        BY <2>3 DEF UpdateStatus
      <4> QED
        BY <2>1, <3>1, <4>1 DEF EndStep, Final
    <3> QED
      BY <1>2, <2>1, <2>3, <3>1, <3>2
  <2> QED
    BY <1>8, <2>2, <2>3 DEF LastWrite
<1>9. CASE ReadDesired(w) \/ ClearDesired(w)
  <2> DEFINE q == [r EXCEPT !.pc = "clear", !.next = r.desired]
             p == [r EXCEPT !.pc = "loop", !.desired = ""]
  <2>1. q.arg = r.arg /\ q.pc = "clear" /\ p.arg = r.arg /\ p.pc = "loop" /\ p.next = r.next
    BY <1>0 DEF WorkerState
  <2>2. r.pc \in {"loop", "clear"} /\ UNCHANGED <<dbVars, sleeping, boundVars>>
    BY <1>9 DEF ReadDesired, ClearDesired
  <2>3. QuietStep(r, q) /\ QuietStep(r, p)
    <3> HIDE DEF r, p, q
    <3> QED
      BY <2>1, <2>2 DEF QuietStep, RowOf, Early
  <2> QED
    BY <1>2, <1>9, <2>1, <2>2, <2>3 DEF ReadDesired, ClearDesired
<1>10. CASE FollowNext(w)
  <2>1. r.pc = "loop" /\ UNCHANGED <<dbVars, boundVars>> /\ r.next \in LoopNext
    BY <1>0, <1>10 DEF FollowNext, WorkerOK
  <2>2. CASE Goto(w, "enter")
    BY <1>4, <2>1, <2>2 DEF PCs
  <2>3. CASE r.next = Continue /\ OneWay(w)
    <3>1. PICK s : Become(w, [r EXCEPT !.next = s])
      BY <1>10, <2>3 DEF FollowNext
    <3> DEFINE q == [r EXCEPT !.next = s]
    <3>2. q.arg = r.arg /\ q.pc = "loop"
      BY <1>0, <2>1 DEF WorkerState
    <3>3. QuietStep(r, q)
      <4>1. UNCHANGED <<status, sleeping, faults>>
        BY <2>1, <3>1
      <4> HIDE DEF r, q
      <4> QED
        BY <2>1, <3>2, <4>1 DEF QuietStep, RowOf, Early
    <3> QED
      BY <1>2, <2>1, <3>1, <3>2, <3>3
  <2>4. CASE ~(r.next = Continue /\ OneWay(w)) /\ ~(r.next # Continue /\ CanEnter(w))
    <3>1. r.next \notin {"running", "retrying"}
      BY <2>1, <2>4 DEF CanEnter, ForcedStates, LoopNext, WorkStates, Continue
    <3>2. Goto(w, "fail")
      BY <1>10, <2>4 DEF FollowNext
    <3> QED
      BY <1>4, <2>1, <3>1, <3>2 DEF PCs, Early
  <2> QED
    BY <1>10, <2>2, <2>3, <2>4 DEF FollowNext
<1>11. CASE EnterStatus(w)
  <2>1. r.pc = "enter" /\ r.next \in {"running", "stopped", "finished"}
    BY <1>11 DEF EnterStatus
  <2>2. CASE UpdateStatusError /\ EnterError(w)
    BY <1>3, <2>1, <2>2 DEF UpdateStatusError, EnterError, PCs
  <2> DEFINE n == IF r.next = "running" THEN Continue ELSE ""
             q == [r EXCEPT !.pc = IF n = "" THEN "idle" ELSE "loop", !.current = r.next,
                            !.next = n, !.tags = r.tags]
  <2>3. q.arg = r.arg /\ q.pc = IF r.next = "running" THEN "loop" ELSE "idle"
    BY <1>0 DEF WorkerState, Continue
  <2>4. CASE UpdateStatus(r.arg, r.next) /\ Entered(w, n, r.tags)
    <3>1. Become(w, q) /\ status' = [status EXCEPT ![r.arg] = r.next] /\ UNCHANGED <<sleeping, faults>>
      BY <2>4 DEF Entered, UpdateStatus
    <3>2. RunStep(r, q) \/ EndStep(r, q)
      <4> HIDE DEF r, q
      <4> QED
        BY <2>1, <2>3, <3>1 DEF RunStep, EndStep, Final
    <3> QED
      BY <1>2, <2>1, <2>3, <3>1, <3>2
  <2> QED
    BY <1>11, <2>2, <2>4 DEF EnterStatus
<1>12. CASE EnterRetrying(w)
  <2>1. r.pc = "enter" /\ r.next = "retrying" /\ sleeping' = [sleeping EXCEPT ![r.arg] = @ + 1]
    BY <1>12 DEF EnterRetrying
  <2> DEFINE p == [r EXCEPT !.pc = "fail"]
             q == [r EXCEPT !.pc = "idle", !.current = "retrying", !.next = ""]
  <2>2. p.arg = r.arg /\ p.pc = "fail" /\ p.next = r.next /\ q.arg = r.arg /\ q.pc = "idle"
    BY <1>0 DEF WorkerState
  <2>3. CASE UpdateStatusError /\ wk' = [wk EXCEPT ![w] = p]
    <3>1. faults' # 0 /\ UNCHANGED status
      BY <1>0, <2>3, FaultCounts DEF UpdateStatusError
    <3>2. FaultyStep(r, p)
      BY <2>1, <2>2, <3>1 DEF FaultyStep
    <3> QED
      BY <1>2, <1>12, <2>1, <2>2, <2>3, <3>2 DEF EnterRetrying
  <2>4. CASE UpdateStatus(r.arg, "retrying") /\ wk' = [wk EXCEPT ![w] = q]
    <3>1. RetryStep(r, q)
      BY <2>1, <2>2, <2>4 DEF RetryStep, UpdateStatus
    <3> QED
      BY <1>2, <1>12, <2>1, <2>2, <2>4, <3>1 DEF EnterRetrying
  <2> QED
    BY <1>12, <2>3, <2>4 DEF EnterRetrying
<1>13. ASSUME NEW s \in WorkStates, NEW n \in WorkStates \cup {"finished"}, NEW t, Handler(w, s, n, t)
       PROVE  \E q : MoveOf(w, q)
  <2>1. r.pc = "enter" /\ r.next = s /\ UNCHANGED <<dbVars, boundVars>>
    BY <1>13 DEF Handler
  <2>2. CASE EnterError(w)
    BY <1>4, <1>13, <2>1, <2>2 DEF EnterError, PCs, Early, WorkStates
  <2>3. ASSUME NEW m \in WorkStates \cup {"finished", "retrying"}, NEW u, Entered(w, m, u)
        PROVE  \E q : MoveOf(w, q)
    <3> DEFINE q == [r EXCEPT !.pc = "loop", !.current = r.next, !.next = m, !.tags = u]
    <3>1. Become(w, q)
      BY <2>3 DEF Entered, WorkStates
    <3>2. q.arg = r.arg /\ q.pc = "loop"
      BY <1>0 DEF WorkerState
    <3>3. QuietStep(r, q)
      <4>1. UNCHANGED <<status, sleeping, faults>>
        BY <2>1, <3>1
      <4>2. r.next # "running"
        BY <2>1, <1>13 DEF WorkStates
      <4> HIDE DEF r, q
      <4> QED
        BY <2>1, <3>2, <4>1, <4>2 DEF QuietStep, RowOf, Early
    <3> QED
      BY <1>2, <2>1, <3>1, <3>2, <3>3
  <2> QED
    BY <1>13, <2>2, <2>3 DEF Handler
<1>14. CASE Initialize(w) \/ Check(w) \/ DeleteImage(w) \/ TransferBlob(w) \/ PushManifest(w)
  BY <1>13, <1>14 DEF Initialize, Check, DeleteImage, TransferBlob, PushManifest, WorkStates
<1>15. CASE PullManifest(w)
  <2>1. PICK n, t : n \in {"transfer_blob", "finished"} /\ Handler(w, "pull_manifest", n, t)
    BY <1>15 DEF PullManifest, Handler
  <2> QED
    BY <1>13, <2>1 DEF WorkStates
<1> QED
  BY <1>5, <1>6, <1>7, <1>8, <1>9, <1>10, <1>11, <1>12, <1>14, <1>15 DEF WorkerRun

-----------------------------------------------------------------------------
(***************************************************************************)
(* Each job has at most one holder.                                        *)
(***************************************************************************)

\* The state of worker r means that it holds job j.
HoldsIn(r, j) == r.pc # "idle" /\ r.arg = j /\ ~(r.pc = "fail" /\ r.next = "retrying")

LEMMA HolderInit == Init => HolderInv
<1> SUFFICES ASSUME Init PROVE HolderInv
  OBVIOUS
<1>1. \A j \in Jobs : waiting[j] = 0 /\ sleeping[j] = 0
  BY DEF Init
<1>2. \A w \in Workers : wk[w].pc = "idle"
  BY DEF Init, NewWorker
<1>3. resumeTodo = {}
  BY DEF Init
<1> QED
  BY <1>1, <1>2, <1>3 DEF HolderInv, ExclusiveHolder, Unheld, Holds

\* A step that gives no job to anybody.
LEMMA FewerHolders ==
  ASSUME HolderInv, UNCHANGED <<up, waiting, sleeping, resumeTodo>>,
         \A j \in Jobs : status'[j] = "none" => status[j] = "none",
         \A w \in Workers : wk[w].pc = "idle" => wk'[w].pc = "idle",
         \A w \in Workers, j \in Jobs : HoldsIn(wk'[w], j) => HoldsIn(wk[w], j)
  PROVE  HolderInv'
<1>1. ExclusiveHolder'
  BY DEF HolderInv, ExclusiveHolder, Holds, HoldsIn
<1>2. \A j \in Jobs : status'[j] = "none" => Unheld(j)'
  BY DEF HolderInv, Unheld, Holds, HoldsIn
<1> QED
  BY <1>1, <1>2 DEF HolderInv

\* After the end of the process nobody holds anything.
LEMMA LoseMemoryHolder ==
  ASSUME LoseMemory
  PROVE  HolderInv'
<1>1. \A j \in Jobs : waiting'[j] = 0 /\ sleeping'[j] = 0
  BY DEF LoseMemory
<1>2. \A w \in Workers : wk'[w].pc = "idle"
  BY DEF LoseMemory, NewWorker
<1>3. resumeTodo' = {}
  BY DEF LoseMemory
<1> QED
  BY <1>1, <1>2, <1>3 DEF HolderInv, ExclusiveHolder, Unheld, Holds

\* The entry into retrying passes the job from the worker to a timer.
LEMMA RetryHolder ==
  ASSUME LocalInv, HolderInv, NEW w \in Workers, NEW q \in WorkerState,
         wk' = [wk EXCEPT ![w] = q], UNCHANGED <<up, resumeTodo, waiting>>,
         \A j \in Jobs : status'[j] = "none" => status[j] = "none",
         wk[w].arg \in Jobs, wk[w].pc = "enter",
         sleeping' = [sleeping EXCEPT ![wk[w].arg] = @ + 1],
         q.pc = "idle" \/ (q.pc = "fail" /\ q.next = "retrying")
  PROVE  HolderInv'
<1> DEFINE a == wk[w].arg
<1>0. waiting \in [Jobs -> Nat] /\ sleeping \in [Jobs -> Nat] /\ wk \in [Workers -> WorkerState]
  BY DEF LocalInv, TypeOK
<1>1. Holds(w, a)
  BY DEF Holds
<1>2. waiting[a] = 0 /\ sleeping[a] = 0 /\ a \notin resumeTodo
  <2>1. waiting[a] + sleeping[a] = 0 /\ a \notin resumeTodo
    BY <1>1 DEF HolderInv, ExclusiveHolder
  <2>2. waiting[a] \in Nat /\ sleeping[a] \in Nat
    BY <1>0
  <2> QED
    BY <2>1, <2>2
<1>3. \A v \in Workers : Holds(v, a) => v = w
  BY <1>1 DEF HolderInv, ExclusiveHolder
<1>4. \A v \in Workers, j \in Jobs : HoldsIn(wk'[v], j) => v # w /\ Holds(v, j)
  BY <1>0 DEF HoldsIn, Holds
<1>5. waiting'[a] = 0 /\ sleeping'[a] = 1
  BY <1>0, <1>2
<1>6. \A j \in Jobs \ {a} : waiting'[j] = waiting[j] /\ sleeping'[j] = sleeping[j]
  BY <1>0
<1>7. status[a] # "none" /\ up \notin {"down", "booting"}
  BY <1>1 DEF HolderInv, Unheld
<1>8. ASSUME NEW j \in Jobs
      PROVE  /\ waiting'[j] + sleeping'[j] <= 1
             /\ waiting'[j] + sleeping'[j] = 1 => j \notin resumeTodo'
             /\ \A v \in Workers : Holds(v, j)' => /\ waiting'[j] + sleeping'[j] = 0
                                                   /\ j \notin resumeTodo'
             /\ \A v, u \in Workers : Holds(v, j)' /\ Holds(u, j)' => v = u
  <2>1. CASE j = a
    BY <1>2, <1>3, <1>4, <1>5, <2>1 DEF Holds, HoldsIn
  <2>2. CASE j # a
    BY <1>4, <1>6, <2>2 DEF HolderInv, ExclusiveHolder, Holds, HoldsIn
  <2> QED
    BY <2>1, <2>2
<1>9. \A j \in Jobs : status'[j] = "none" => Unheld(j)'
  BY <1>4, <1>6, <1>7 DEF HolderInv, Unheld, Holds, HoldsIn
<1> QED
  BY <1>7, <1>8, <1>9 DEF HolderInv, ExclusiveHolder

LEMMA HolderWorker ==
  ASSUME LocalInv, HolderInv, NEW w \in Workers, WorkerRun(w)
  PROVE  HolderInv'
<1>0. status \in [Jobs -> Statuses] /\ wk \in [Workers -> WorkerState]
  BY DEF LocalInv, TypeOK
<1>1. PICK q : MoveOf(w, q)
  BY WorkerMoves
<1> DEFINE r == wk[w]
<1>2. /\ q \in WorkerState /\ wk' = [wk EXCEPT ![w] = q] /\ r.arg \in Jobs /\ r.pc # "idle"
      /\ q.arg = r.arg /\ UNCHANGED <<up, resumeTodo, waiting>>
  BY <1>1 DEF MoveOf
<1>3. \A j \in Jobs : status'[j] = "none" => status[j] = "none"
  <2>1. UNCHANGED status \/ \E s \in Final \cup {"running", "retrying"} : status' = [status EXCEPT ![r.arg] = s]
    BY <1>1 DEF MoveOf, QuietStep, EndStep, RunStep, RetryStep, FaultyStep
  <2> QED
    BY <1>0, <1>2, <2>1 DEF Final
<1>4. ASSUME UNCHANGED sleeping, r.pc = "fail" => q.pc = "idle" PROVE HolderInv'
  <2>1. \A v \in Workers : wk[v].pc = "idle" => wk'[v].pc = "idle"
    BY <1>0, <1>2
  <2>2. \A v \in Workers, j \in Jobs : HoldsIn(wk'[v], j) => HoldsIn(wk[v], j)
    BY <1>0, <1>2, <1>4 DEF HoldsIn
  <2> QED
    BY <1>2, <1>3, <1>4, <2>1, <2>2, FewerHolders
<1>5. ASSUME /\ sleeping' = [sleeping EXCEPT ![r.arg] = @ + 1]
             /\ r.pc = "enter"
             /\ q.pc = "idle" \/ (q.pc = "fail" /\ q.next = "retrying")
      PROVE  HolderInv'
  BY <1>2, <1>3, <1>5, RetryHolder
<1>6. CASE QuietStep(r, q)
  BY <1>4, <1>6 DEF QuietStep
<1>7. CASE EndStep(r, q)
  BY <1>4, <1>7 DEF EndStep
<1>8. CASE RunStep(r, q)
  BY <1>4, <1>8 DEF RunStep
<1>9. CASE RetryStep(r, q)
  BY <1>5, <1>9 DEF RetryStep
<1>10. CASE FaultyStep(r, q)
  BY <1>4, <1>5, <1>10 DEF FaultyStep
<1> QED
  BY <1>1, <1>6, <1>7, <1>8, <1>9, <1>10 DEF MoveOf

\* A job that nobody has is given to a goroutine of Dispatch.
LEMMA ScheduleHolder ==
  ASSUME LocalInv, HolderInv, NEW j \in Jobs, Schedule(j), UNCHANGED <<up, wk>>,
         up \notin {"down", "booting"},
         \A i \in Jobs : status'[i] = "none" => status[i] = "none" /\ i # j,
         \A w \in Workers : ~Holds(w, j),
         waiting[j] = 0, sleeping'[j] = 0, j \notin resumeTodo',
         \A i \in Jobs \ {j} : sleeping'[i] = sleeping[i],
         \A i \in Jobs \ {j} : i \in resumeTodo' <=> i \in resumeTodo,
         resumeTodo' # {} => up = "resuming"
  PROVE  HolderInv'
<1>1. waiting'[j] = 1 /\ \A i \in Jobs \ {j} : waiting'[i] = waiting[i]
  BY DEF Schedule, LocalInv, TypeOK
<1>2. \A w \in Workers, i \in Jobs : Holds(w, i)' <=> Holds(w, i)
  BY DEF Holds
<1>3. ASSUME NEW i \in Jobs
      PROVE  /\ waiting'[i] + sleeping'[i] <= 1
             /\ waiting'[i] + sleeping'[i] = 1 => i \notin resumeTodo'
             /\ \A v \in Workers : Holds(v, i)' => /\ waiting'[i] + sleeping'[i] = 0
                                                   /\ i \notin resumeTodo'
             /\ \A v, u \in Workers : Holds(v, i)' /\ Holds(u, i)' => v = u
  <2>1. CASE i = j
    BY <1>1, <1>2, <2>1
  <2>2. CASE i # j
    BY <1>1, <1>2, <2>2 DEF HolderInv, ExclusiveHolder
  <2> QED
    BY <2>1, <2>2
<1>4. \A i \in Jobs : status'[i] = "none" => Unheld(i)'
  BY <1>1, <1>2 DEF HolderInv, Unheld
<1> QED
  BY <1>3, <1>4 DEF HolderInv, ExclusiveHolder

LEMMA AssignHolder ==
  ASSUME LocalInv, HolderInv, NEW j \in Jobs, NEW w \in Workers, Assign(j, w)
  PROVE  HolderInv'
<1>0. waiting \in [Jobs -> Nat] /\ sleeping \in [Jobs -> Nat] /\ wk \in [Workers -> WorkerState]
  BY DEF LocalInv, TypeOK
<1>1. waiting[j] > 0 /\ wk[w].pc = "idle" /\ waiting' = [waiting EXCEPT ![j] = @ - 1]
      /\ UNCHANGED <<status, up, resumeTodo, sleeping>>
  BY DEF Assign
<1>2. waiting[j] = 1 /\ sleeping[j] = 0 /\ j \notin resumeTodo /\ \A v \in Workers : ~Holds(v, j)
  <2>1. waiting[j] \in Nat /\ sleeping[j] \in Nat
    BY <1>0
  <2>2. waiting[j] + sleeping[j] <= 1
    BY DEF HolderInv, ExclusiveHolder
  <2>3. waiting[j] = 1 /\ sleeping[j] = 0
    BY <1>1, <2>1, <2>2
  <2> QED
    BY <2>3 DEF HolderInv, ExclusiveHolder
<1>3. waiting'[j] = 0 /\ \A i \in Jobs \ {j} : waiting'[i] = waiting[i]
  BY <1>0, <1>1, <1>2
<1>4. wk'[w].arg = j /\ \A v \in Workers \ {w} : wk'[v] = wk[v]
  BY <1>0 DEF Assign, WorkerState
<1>5. \A v \in Workers, i \in Jobs : Holds(v, i)' => (v = w /\ i = j) \/ (v # w /\ Holds(v, i))
  BY <1>4 DEF Holds
<1>6. ASSUME NEW i \in Jobs
      PROVE  /\ waiting'[i] + sleeping'[i] <= 1
             /\ waiting'[i] + sleeping'[i] = 1 => i \notin resumeTodo'
             /\ \A v \in Workers : Holds(v, i)' => /\ waiting'[i] + sleeping'[i] = 0
                                                   /\ i \notin resumeTodo'
             /\ \A v, u \in Workers : Holds(v, i)' /\ Holds(u, i)' => v = u
  <2>1. CASE i = j
    BY <1>1, <1>2, <1>3, <1>5, <2>1
  <2>2. CASE i # j
    BY <1>1, <1>3, <1>5, <2>2 DEF HolderInv, ExclusiveHolder
  <2> QED
    BY <2>1, <2>2
<1>7. status[j] # "none" /\ up \notin {"down", "booting"}
  BY <1>2 DEF HolderInv, Unheld
<1>8. \A i \in Jobs : status'[i] = "none" => Unheld(i)'
  BY <1>1, <1>3, <1>5, <1>7 DEF HolderInv, Unheld
<1> QED
  BY <1>1, <1>6, <1>7, <1>8 DEF HolderInv, ExclusiveHolder

LEMMA HolderNext ==
  ASSUME LocalInv, HolderInv, Next
  PROVE  HolderInv'
<1>0. TypeOK /\ wk \in [Workers -> WorkerState]
  BY DEF LocalInv, TypeOK
<1>1. ASSUME NEW w \in Workers, WorkerStep(w) PROVE HolderInv'
  BY <1>1, HolderWorker, LoseMemoryHolder DEF WorkerStep, Panic
<1>2. ASSUME NEW j \in Jobs, Reschedule(j) PROVE HolderInv'
  <2>1. sleeping \in [Jobs -> Nat] /\ waiting \in [Jobs -> Nat]
    BY <1>0 DEF TypeOK
  <2>2. sleeping[j] > 0 /\ waiting[j] + sleeping[j] <= 1
    BY <1>2 DEF Reschedule, HolderInv, ExclusiveHolder
  <2>3. sleeping[j] = 1 /\ waiting[j] = 0
    BY <2>1, <2>2
  <2>4. sleeping'[j] = 0 /\ \A i \in Jobs \ {j} : sleeping'[i] = sleeping[i]
    BY <1>2, <2>1, <2>3 DEF Reschedule
  <2>5. j \notin resumeTodo /\ \A w \in Workers : ~Holds(w, j)
    BY <2>3 DEF HolderInv, ExclusiveHolder
  <2>6. up \notin {"down", "booting"} /\ status[j] # "none"
    BY <2>3 DEF HolderInv, Unheld
  <2>7. Schedule(j) /\ UNCHANGED <<up, wk, status, resumeTodo>>
    BY <1>2 DEF Reschedule
  <2> QED
    BY <2>3, <2>4, <2>5, <2>6, <2>7, ScheduleHolder DEF HolderInv
<1>3. ASSUME NEW j \in Jobs, ResumeJob(j) PROVE HolderInv'
  <2>1. sleeping \in [Jobs -> Nat] /\ waiting \in [Jobs -> Nat]
    BY <1>0 DEF TypeOK
  <2>2. j \in resumeTodo /\ waiting[j] + sleeping[j] <= 1 /\ waiting[j] + sleeping[j] # 1
    BY <1>3 DEF ResumeJob, HolderInv, ExclusiveHolder
  <2>3. sleeping[j] = 0 /\ waiting[j] = 0
    BY <2>1, <2>2
  <2>4. \A w \in Workers : ~Holds(w, j)
    BY <2>2 DEF HolderInv, ExclusiveHolder
  <2>5. up = "resuming" /\ status[j] # "none"
    BY <2>2 DEF HolderInv, Unheld
  <2>6. Schedule(j) /\ UNCHANGED <<up, wk, status, sleeping>> /\ resumeTodo' = resumeTodo \ {j}
    BY <1>3 DEF ResumeJob
  <2> QED
    BY <2>3, <2>4, <2>5, <2>6, ScheduleHolder
<1>4. ASSUME NEW j \in Jobs, NEW w \in Workers, Assign(j, w) PROVE HolderInv'
  BY <1>4, AssignHolder
<1>5. ASSUME NEW j \in Jobs, NEW w \in Workers, StopJob(j, w) PROVE HolderInv'
  <2>1. \A v \in Workers : wk'[v].pc = wk[v].pc /\ wk'[v].arg = wk[v].arg /\ wk'[v].next = wk[v].next
    BY <1>0, <1>5 DEF StopJob, WorkerState
  <2> QED
    BY <1>5, <2>1, FewerHolders DEF StopJob, HoldsIn
<1>6. CASE Boot
  <2>1. \A j \in Jobs : status'[j] = "none" => status[j] = "none"
    BY <1>0, <1>6 DEF Boot, TypeOK
  <2>2. up = "down" /\ up' = "booting" /\ UNCHANGED <<wk, waiting, sleeping, resumeTodo>>
    BY <1>6 DEF Boot
  <2> QED
    BY <2>1, <2>2 DEF HolderInv, ExclusiveHolder, Unheld, Holds
<1>7. CASE ResumeQuery
  <2>1. up = "booting" /\ up' = "resuming" /\ UNCHANGED <<wk, waiting, sleeping, status>>
    BY <1>7 DEF ResumeQuery
  <2>2. \A j \in Jobs : waiting'[j] = 0 /\ sleeping'[j] = 0
    BY <2>1 DEF HolderInv
  <2>3. \A w \in Workers, j \in Jobs : ~Holds(w, j)'
    BY <2>1 DEF HolderInv, Holds
  <2>4. \A j \in Jobs : status[j] = "none" => j \notin resumeTodo'
    BY <1>7, <2>1, RowsOfQuery DEF ResumeQuery, HolderInv
  <2> QED
    BY <2>1, <2>2, <2>3, <2>4 DEF HolderInv, ExclusiveHolder, Unheld
<1>8. CASE Serve
  <2>1. up' = "serving" /\ resumeTodo' = {} /\ UNCHANGED <<wk, waiting, sleeping, resumeTodo, status>>
    BY <1>8 DEF Serve
  <2> QED
    BY <2>1 DEF HolderInv, ExclusiveHolder, Unheld, Holds
<1>9. ASSUME NEW j \in Jobs, AddJob(j) PROVE HolderInv'
  <2>1. status[j] = "none" /\ up = "serving" /\ Schedule(j)
        /\ UNCHANGED <<up, wk, sleeping, resumeTodo>> /\ status' = [status EXCEPT ![j] = "pending"]
    BY <1>9 DEF AddJob
  <2>2. Unheld(j) /\ resumeTodo = {}
    BY <2>1 DEF HolderInv
  <2>3. \A i \in Jobs : status'[i] = "none" => status[i] = "none" /\ i # j
    BY <1>0, <2>1 DEF TypeOK
  <2> QED
    BY <2>1, <2>2, <2>3, ScheduleHolder DEF Unheld
<1>10. ASSUME NEW j \in Jobs, DeleteCheck(j) PROVE HolderInv'
  BY <1>10, FewerHolders DEF DeleteCheck
<1>11. ASSUME NEW j \in Jobs, DeleteRepJob(j) PROVE HolderInv'
  <2>1. \A i \in Jobs : status'[i] = "none" => status[i] = "none"
    BY <1>0, <1>11 DEF DeleteRepJob, TypeOK
  <2> QED
    BY <1>11, <2>1, FewerHolders DEF DeleteRepJob
<1>12. ASSUME NEW p \in Policies,
              HandleAction(p) \/ UpdateRepPolicyEnablement(p) \/ DeleteRepTarget(p) \/ DeleteProject(p)
       PROVE  HolderInv'
  <2>1. UNCHANGED <<status, up, resumeTodo, waiting, sleeping, wk>>
    BY <1>12 DEF HandleAction, UpdateRepPolicyEnablement, DeleteRepTarget, DeleteProject
  <2> QED
    BY <2>1, FewerHolders
<1>13. CASE Crash
  BY <1>13, LoseMemoryHolder DEF Crash
<1> QED
  BY <1>1, <1>2, <1>3, <1>4, <1>5, <1>6, <1>7, <1>8, <1>9, <1>10, <1>11, <1>12, <1>13
     DEF Next, ServiceStep, RequestStep

LEMMA HolderStep == LocalInv /\ HolderInv /\ [Next]_vars => HolderInv'
<1>1. ASSUME HolderInv, UNCHANGED vars PROVE HolderInv'
  BY <1>1, FewerHolders
<1> QED
  BY <1>1, HolderNext

\* A job is never in two places: not on two workers, not on a worker and in the queue or
\* a timer, whatever statements fail and wherever the process is killed and restarted.
THEOREM Exclusive == Spec => []ExclusiveHolder
<1>1. HolderInv => ExclusiveHolder
  BY DEF HolderInv
<1> QED
  BY <1>1, LocalInit, LocalStep, HolderInit, HolderStep, PTL DEF Spec

-----------------------------------------------------------------------------
(***************************************************************************)
(* What the rows say, as long as no statement has failed.                  *)
(***************************************************************************)
LEMMA StatusInit == Init => StatusInv
<1> SUFFICES ASSUME Init PROVE StatusInv
  OBVIOUS
<1>1. \A j \in Jobs : waiting[j] = 0 /\ sleeping[j] = 0
  BY DEF Init
<1>2. \A w \in Workers : wk[w].pc = "idle"
  BY DEF Init, NewWorker
<1>3. resumeTodo = {} /\ up = "down"
  BY DEF Init
<1> QED
  BY <1>1, <1>2, <1>3 DEF StatusInv, RowsAgree, NoLostJob

\* Once a statement has failed, nothing is claimed.
LEMMA StatusAfterFault == faults' # 0 => StatusInv'
BY DEF StatusInv, NoLostJob

\* As long as no statement has failed, a worker with a job holds it, and alone.
LEMMA OnlyHolder ==
  ASSUME LocalInv, HolderInv, RowsAgree, NEW w \in Workers, wk[w].pc # "idle"
  PROVE  /\ Holds(w, wk[w].arg)
         /\ waiting[wk[w].arg] = 0 /\ sleeping[wk[w].arg] = 0 /\ wk[w].arg \notin resumeTodo
         /\ \A v \in Workers : wk[v].pc # "idle" /\ wk[v].arg = wk[w].arg => v = w
<1> DEFINE a == wk[w].arg
<1>0. a \in Jobs
  BY DEF LocalInv, WorkerOK
<1>1. \A v \in Workers : wk[v].pc # "idle" => Holds(v, wk[v].arg)
  BY DEF RowsAgree, Holds
<1>2. Holds(w, a)
  BY <1>1
<1>3. waiting[a] \in Nat /\ sleeping[a] \in Nat
  BY <1>0 DEF LocalInv, TypeOK
<1>4. waiting[a] + sleeping[a] = 0 /\ a \notin resumeTodo
  BY <1>0, <1>2 DEF HolderInv, ExclusiveHolder
<1>5. waiting[a] = 0 /\ sleeping[a] = 0
  BY <1>3, <1>4
<1>6. \A v \in Workers : wk[v].pc # "idle" /\ wk[v].arg = a => v = w
  BY <1>0, <1>1, <1>2 DEF HolderInv, ExclusiveHolder
<1> QED
  BY <1>2, <1>4, <1>5, <1>6

LEMMA StatusWorker ==
  ASSUME LocalInv, HolderInv, StatusInv, NEW w \in Workers, WorkerRun(w)
  PROVE  StatusInv'
<1>0. status \in [Jobs -> Statuses] /\ wk \in [Workers -> WorkerState] /\ sleeping \in [Jobs -> Nat]
  BY DEF LocalInv, TypeOK
<1>1. PICK q : MoveOf(w, q)
  BY WorkerMoves
<1> DEFINE r == wk[w]
           a == wk[w].arg
<1>2. /\ q \in WorkerState /\ wk' = [wk EXCEPT ![w] = q] /\ a \in Jobs /\ r.pc # "idle"
      /\ q.arg = a /\ UNCHANGED <<up, resumeTodo, waiting>>
  BY <1>1 DEF MoveOf
<1>3. wk'[w] = q /\ \A v \in Workers \ {w} : wk'[v] = wk[v]
  BY <1>0, <1>2
<1>4. CASE faults' # 0
  BY <1>4, StatusAfterFault
<1>5. CASE faults' = 0 /\ faults = 0
  <2>1. RowsAgree
    BY <1>5 DEF StatusInv
  <2>2. /\ Holds(w, a) /\ waiting[a] = 0 /\ sleeping[a] = 0 /\ a \notin resumeTodo
        /\ \A v \in Workers : wk[v].pc # "idle" /\ wk[v].arg = a => v = w
    BY <1>2, <2>1, OnlyHolder
  <2>3. up # "booting"
    BY <1>2 DEF HolderInv
  <2>4. \A v \in Workers \ {w}, j \in Jobs : Holds(v, j)' <=> Holds(v, j)
    BY <1>3 DEF Holds
  <2>5. CASE QuietStep(r, q)
    <3>1. UNCHANGED <<status, sleeping>> /\ q.pc # "idle" /\ RowOf(q) = RowOf(r)
          /\ (q.pc = "fail" => q.next \notin {"running", "retrying"})
      BY <2>5 DEF QuietStep
    <3>2. RowsAgree'
      <4>1. \A v \in Workers : wk'[v].pc # "idle" => status'[wk'[v].arg] \in RowOf(wk'[v])
        BY <1>2, <1>3, <2>1, <3>1 DEF RowsAgree
      <4>2. \A v \in Workers : wk'[v].pc = "fail" => wk'[v].next \notin {"running", "retrying"}
        BY <1>2, <1>3, <2>1, <3>1 DEF RowsAgree
      <4>3. \A j \in Jobs : waiting'[j] > 0 \/ j \in resumeTodo'
                              => status'[j] \in {"pending", "retrying", "deleted"}
        BY <1>2, <2>1, <3>1 DEF RowsAgree
      <4>4. \A j \in Jobs : sleeping'[j] > 0 => status'[j] \in {"retrying", "deleted"}
        BY <2>1, <3>1 DEF RowsAgree
      <4> QED
        BY <1>2, <2>3, <4>1, <4>2, <4>3, <4>4 DEF RowsAgree, RowOf
    <3>3. \A j \in Jobs : Holds(w, j) => Holds(w, j)'
      BY <1>2, <1>3, <3>1 DEF Holds
    <3>4. \A v \in Workers, j \in Jobs : Holds(v, j) => Holds(v, j)'
      BY <2>4, <3>3
    <3>5. Fits => NoLostJob'
      BY <1>2, <1>5, <3>1, <3>4 DEF NoLostJob, StatusInv
    <3> QED
      BY <3>2, <3>5 DEF StatusInv
  <2>6. CASE EndStep(r, q)
    <3>1. PICK s \in Final : status' = [status EXCEPT ![a] = s]
      BY <2>6 DEF EndStep
    <3>2. UNCHANGED sleeping /\ q.pc = "idle"
      BY <2>6 DEF EndStep
    <3>3. \A j \in Jobs \ {a} : status'[j] = status[j]
      BY <1>0, <3>1
    <3>4. RowsAgree'
      <4>1. \A v \in Workers : wk'[v].pc # "idle" => v # w /\ wk[v].arg # a /\ wk[v].arg \in Jobs
        BY <1>3, <2>2, <3>2 DEF LocalInv, WorkerOK
      <4>2. \A v \in Workers : wk'[v].pc # "idle" => status'[wk'[v].arg] \in RowOf(wk'[v])
        BY <1>3, <2>1, <3>3, <4>1 DEF RowsAgree
      <4>3. \A j \in Jobs : waiting'[j] > 0 \/ j \in resumeTodo'
                              => status'[j] \in {"pending", "retrying", "deleted"}
        BY <1>2, <2>1, <2>2, <3>3 DEF RowsAgree
      <4>4. \A j \in Jobs : sleeping'[j] > 0 => status'[j] \in {"retrying", "deleted"}
        BY <2>1, <2>2, <3>2, <3>3 DEF RowsAgree
      <4>5. \A v \in Workers : wk'[v].pc = "fail" => wk'[v].next \notin {"running", "retrying"}
        BY <1>3, <2>1, <3>2 DEF RowsAgree
      <4> QED
        BY <1>2, <2>3, <4>2, <4>3, <4>4, <4>5 DEF RowsAgree, RowOf
    <3>5. status'[a] \notin Active
      BY <1>0, <1>2, <3>1 DEF Active, Final
    <3>6. \A v \in Workers, j \in Jobs \ {a} : Holds(v, j) => Holds(v, j)'
      BY <1>2, <2>4 DEF Holds
    <3>7. Fits => NoLostJob'
      BY <1>2, <1>5, <3>2, <3>3, <3>5, <3>6 DEF NoLostJob, StatusInv
    <3> QED
      BY <3>4, <3>7 DEF StatusInv
  <2>7. CASE RunStep(r, q)
    <3>1. status' = [status EXCEPT ![a] = "running"] /\ UNCHANGED sleeping /\ q.pc = "loop"
      BY <2>7 DEF RunStep
    <3>2. status'[a] = "running" /\ \A j \in Jobs \ {a} : status'[j] = status[j]
      BY <1>0, <1>2, <3>1
    <3>3. RowsAgree'
      <4>1. \A v \in Workers \ {w} : wk'[v].pc # "idle" => wk[v].arg # a /\ wk[v].arg \in Jobs
        BY <1>3, <2>2 DEF LocalInv, WorkerOK
      <4>2. \A v \in Workers \ {w} : wk'[v].pc # "idle" => status'[wk'[v].arg] \in RowOf(wk'[v])
        BY <1>3, <2>1, <3>2, <4>1 DEF RowsAgree
      <4>3. status'[q.arg] \in RowOf(q)
        BY <1>2, <3>1, <3>2 DEF RowOf, Early
      <4>4. \A j \in Jobs : waiting'[j] > 0 \/ j \in resumeTodo'
                              => status'[j] \in {"pending", "retrying", "deleted"}
        BY <1>2, <2>1, <2>2, <3>2 DEF RowsAgree
      <4>5. \A j \in Jobs : sleeping'[j] > 0 => status'[j] \in {"retrying", "deleted"}
        BY <2>1, <2>2, <3>1, <3>2 DEF RowsAgree
      <4>6. \A v \in Workers : wk'[v].pc = "fail" => wk'[v].next \notin {"running", "retrying"}
        BY <1>3, <2>1, <3>1 DEF RowsAgree
      <4>7. \A v \in Workers : wk'[v].pc # "idle" => status'[wk'[v].arg] \in RowOf(wk'[v])
        BY <1>3, <4>2, <4>3
      <4> QED
        BY <1>2, <2>3, <4>4, <4>5, <4>6, <4>7 DEF RowsAgree, RowOf
    <3>4. \A j \in Jobs : j = a => Holds(w, j)'
      BY <1>2, <1>3, <3>1 DEF Holds
    <3>5. \A v \in Workers, j \in Jobs \ {a} : Holds(v, j) => Holds(v, j)'
      BY <1>2, <2>4 DEF Holds
    <3>6. Fits => NoLostJob'
      BY <1>2, <1>5, <3>1, <3>2, <3>4, <3>5 DEF NoLostJob, StatusInv
    <3> QED
      BY <3>3, <3>6 DEF StatusInv
  <2>8. CASE RetryStep(r, q)
    <3>1. status' = [status EXCEPT ![a] = "retrying"] /\ q.pc = "idle"
          /\ sleeping' = [sleeping EXCEPT ![a] = @ + 1]
      BY <2>8 DEF RetryStep
    <3>2. status'[a] = "retrying" /\ \A j \in Jobs \ {a} : status'[j] = status[j]
      BY <1>0, <1>2, <3>1
    <3>3. sleeping'[a] = 1 /\ \A j \in Jobs \ {a} : sleeping'[j] = sleeping[j]
      BY <1>0, <1>2, <2>2, <3>1
    <3>4. RowsAgree'
      <4>1. \A v \in Workers : wk'[v].pc # "idle" => v # w /\ wk[v].arg # a /\ wk[v].arg \in Jobs
        BY <1>3, <2>2, <3>1 DEF LocalInv, WorkerOK
      <4>2. \A v \in Workers : wk'[v].pc # "idle" => status'[wk'[v].arg] \in RowOf(wk'[v])
        BY <1>3, <2>1, <3>2, <4>1 DEF RowsAgree
      <4>3. \A j \in Jobs : waiting'[j] > 0 \/ j \in resumeTodo'
                              => status'[j] \in {"pending", "retrying", "deleted"}
        BY <1>2, <2>1, <2>2, <3>2 DEF RowsAgree
      <4>4. \A j \in Jobs : sleeping'[j] > 0 => status'[j] \in {"retrying", "deleted"}
        BY <2>1, <3>2, <3>3 DEF RowsAgree
      <4>5. \A v \in Workers : wk'[v].pc = "fail" => wk'[v].next \notin {"running", "retrying"}
        BY <1>3, <2>1, <3>1 DEF RowsAgree
      <4> QED
        BY <1>2, <2>3, <4>2, <4>3, <4>4, <4>5 DEF RowsAgree, RowOf
    <3>5. waiting'[a] + sleeping'[a] > 0
      BY <1>2, <2>2, <3>3
    <3>6. \A v \in Workers, j \in Jobs \ {a} : Holds(v, j) => Holds(v, j)'
      BY <1>2, <2>4 DEF Holds
    <3>7. Fits => NoLostJob'
      BY <1>2, <1>5, <3>2, <3>3, <3>5, <3>6 DEF NoLostJob, StatusInv
    <3> QED
      BY <3>4, <3>7 DEF StatusInv
  <2>9. CASE FaultyStep(r, q)
    BY <1>5, <2>9 DEF FaultyStep
  <2> QED
    BY <1>1, <2>5, <2>6, <2>7, <2>8, <2>9 DEF MoveOf
<1>6. faults' = 0 => faults = 0
  BY <1>1 DEF MoveOf, QuietStep, EndStep, RunStep, RetryStep, FaultyStep
<1> QED
  BY <1>4, <1>5, <1>6

\* A step that takes no holder away and no status back.
LEMMA StatusSame ==
  ASSUME StatusInv, UNCHANGED <<up, waiting, sleeping, resumeTodo>>, faults' = 0 => faults = 0,
         \A w \in Workers : wk'[w].pc = wk[w].pc /\ wk'[w].arg = wk[w].arg /\ wk'[w].next = wk[w].next,
         \A w \in Workers : wk[w].pc # "idle" => wk[w].arg \in Jobs,
         \A j \in Jobs : status'[j] \in {status[j], "deleted"}
  PROVE  StatusInv'
<1>1. CASE faults' # 0
  BY <1>1, StatusAfterFault
<1>2. CASE faults' = 0
  <2>1. RowsAgree
    BY <1>2 DEF StatusInv
  <2>2. \A w \in Workers, j \in Jobs : Holds(w, j) => Holds(w, j)'
    BY DEF Holds
  <2>3. Fits => NoLostJob'
    BY <1>2, <2>2 DEF StatusInv, NoLostJob, Active
  <2>4. \A w \in Workers : wk'[w].pc # "idle" => status'[wk'[w].arg] \in RowOf(wk'[w])
    BY <2>1 DEF RowsAgree, RowOf
  <2>5. \A w \in Workers : wk'[w].pc = "fail" => wk'[w].next \notin {"running", "retrying"}
    BY <2>1 DEF RowsAgree
  <2>6. \A j \in Jobs : waiting'[j] > 0 \/ j \in resumeTodo'
                          => status'[j] \in {"pending", "retrying", "deleted"}
    BY <2>1 DEF RowsAgree
  <2>7. \A j \in Jobs : sleeping'[j] > 0 => status'[j] \in {"retrying", "deleted"}
    BY <2>1 DEF RowsAgree
  <2>8. up' = "booting" => \A j \in Jobs : status'[j] # "running"
    BY <2>1 DEF RowsAgree
  <2>9. RowsAgree'
    BY <2>4, <2>5, <2>6, <2>7, <2>8 DEF RowsAgree, RowOf
  <2> QED
    BY <2>3, <2>9 DEF StatusInv
<1> QED
  BY <1>1, <1>2

\* A job that waits and may run is given to a goroutine of Dispatch.
LEMMA ScheduleStatus ==
  ASSUME LocalInv, StatusInv, NEW j \in Jobs, Schedule(j), UNCHANGED <<up, wk, faults>>,
         up # "booting",
         faults = 0 => status'[j] \in {"pending", "retrying", "deleted"},
         \A i \in Jobs \ {j} : status'[i] = status[i],
         \A i \in Jobs \ {j} : sleeping'[i] = sleeping[i],
         sleeping'[j] = 0,
         \A i \in Jobs \ {j} : i \in resumeTodo' <=> i \in resumeTodo,
         j \notin resumeTodo',
         faults = 0 => \A w \in Workers : wk[w].pc # "idle" => wk[w].arg # j
  PROVE  StatusInv'
<1>1. CASE faults' # 0
  BY <1>1, StatusAfterFault
<1>2. CASE faults' = 0
  <2>0. faults = 0 /\ RowsAgree
    BY <1>2 DEF StatusInv
  <2>1. waiting'[j] = waiting[j] + 1 /\ waiting[j] \in Nat /\ \A i \in Jobs \ {j} : waiting'[i] = waiting[i]
    BY DEF Schedule, LocalInv, TypeOK
  <2>2. waiting'[j] + sleeping'[j] > 0
    BY <2>1
  <2>3. \A w \in Workers, i \in Jobs : Holds(w, i)' <=> Holds(w, i)
    BY DEF Holds
  <2>4. Fits => NoLostJob'
    BY <2>0, <2>1, <2>2, <2>3 DEF StatusInv, NoLostJob
  <2>5. \A w \in Workers : wk'[w].pc # "idle" => status'[wk'[w].arg] \in RowOf(wk'[w])
    BY <2>0 DEF RowsAgree, LocalInv, WorkerOK
  <2>6. \A i \in Jobs : waiting'[i] > 0 \/ i \in resumeTodo'
                          => status'[i] \in {"pending", "retrying", "deleted"}
    BY <2>0, <2>1 DEF RowsAgree
  <2>7. \A i \in Jobs : sleeping'[i] > 0 => status'[i] \in {"retrying", "deleted"}
    BY <2>0 DEF RowsAgree
  <2>8. RowsAgree'
    BY <2>0, <2>5, <2>6, <2>7 DEF RowsAgree, RowOf
  <2> QED
    BY <2>4, <2>8 DEF StatusInv
<1> QED
  BY <1>1, <1>2

\* After the end of the process nothing is claimed of the rows yet.
LEMMA LoseMemoryStatus ==
  ASSUME LoseMemory
  PROVE  StatusInv'
<1>1. \A j \in Jobs : waiting'[j] = 0 /\ sleeping'[j] = 0
  BY DEF LoseMemory
<1>2. \A w \in Workers : wk'[w].pc = "idle"
  BY DEF LoseMemory, NewWorker
<1>3. resumeTodo' = {} /\ up' = "down"
  BY DEF LoseMemory
<1> QED
  BY <1>1, <1>2, <1>3 DEF StatusInv, RowsAgree, NoLostJob

LEMMA StatusNext ==
  ASSUME LocalInv, HolderInv, StatusInv, Next
  PROVE  StatusInv'
<1>0. TypeOK /\ wk \in [Workers -> WorkerState] /\ status \in [Jobs -> Statuses]
  BY DEF LocalInv, TypeOK
<1>a. \A w \in Workers : wk[w].pc # "idle" => wk[w].arg \in Jobs
  BY DEF LocalInv, WorkerOK
<1>b. ASSUME UNCHANGED boundVars \/ Fault PROVE faults' = 0 => faults = 0
  BY <1>0, <1>b, FaultStep
<1>c. ASSUME NEW j \in Jobs, \A w \in Workers : ~Holds(w, j), faults = 0
      PROVE  \A w \in Workers : wk[w].pc # "idle" => wk[w].arg # j
  BY <1>c DEF StatusInv, RowsAgree, Holds
<1>1. ASSUME NEW w \in Workers, WorkerStep(w) PROVE StatusInv'
  BY <1>1, StatusWorker, LoseMemoryStatus DEF WorkerStep, Panic
<1>2. ASSUME NEW j \in Jobs, Reschedule(j) PROVE StatusInv'
  <2>1. sleeping \in [Jobs -> Nat] /\ waiting \in [Jobs -> Nat]
    BY <1>0 DEF TypeOK
  <2>2. sleeping[j] > 0 /\ waiting[j] + sleeping[j] <= 1
    BY <1>2 DEF Reschedule, HolderInv, ExclusiveHolder
  <2>3. sleeping[j] = 1 /\ waiting[j] = 0
    BY <2>1, <2>2
  <2>4. sleeping'[j] = 0 /\ \A i \in Jobs \ {j} : sleeping'[i] = sleeping[i]
    BY <1>2, <2>1, <2>3 DEF Reschedule
  <2>5. j \notin resumeTodo /\ \A w \in Workers : ~Holds(w, j)
    BY <2>3 DEF HolderInv, ExclusiveHolder
  <2>6. up # "booting"
    BY <2>3 DEF HolderInv
  <2>7. Schedule(j) /\ UNCHANGED <<up, wk, status, resumeTodo, faults>>
    BY <1>2 DEF Reschedule
  <2>8. faults = 0 => status[j] \in {"pending", "retrying", "deleted"}
    BY <2>2 DEF StatusInv, RowsAgree
  <2> QED
    BY <1>c, <2>4, <2>5, <2>6, <2>7, <2>8, ScheduleStatus
<1>3. ASSUME NEW j \in Jobs, ResumeJob(j) PROVE StatusInv'
  <2>1. sleeping \in [Jobs -> Nat] /\ waiting \in [Jobs -> Nat]
    BY <1>0 DEF TypeOK
  <2>2. j \in resumeTodo /\ waiting[j] + sleeping[j] <= 1 /\ waiting[j] + sleeping[j] # 1
    BY <1>3 DEF ResumeJob, HolderInv, ExclusiveHolder
  <2>3. sleeping[j] = 0
    BY <2>1, <2>2
  <2>4. up # "booting" /\ \A w \in Workers : ~Holds(w, j)
    BY <2>2 DEF HolderInv, ExclusiveHolder
  <2>5. Schedule(j) /\ UNCHANGED <<up, wk, status, sleeping, faults>> /\ resumeTodo' = resumeTodo \ {j}
    BY <1>3 DEF ResumeJob
  <2>6. faults = 0 => status[j] \in {"pending", "retrying", "deleted"}
    BY <2>2 DEF StatusInv, RowsAgree
  <2> QED
    BY <1>c, <2>3, <2>4, <2>5, <2>6, ScheduleStatus
<1>4. ASSUME NEW j \in Jobs, NEW w \in Workers, Assign(j, w) PROVE StatusInv'
  <2>1. waiting \in [Jobs -> Nat] /\ sleeping \in [Jobs -> Nat]
    BY <1>0 DEF TypeOK
  <2>2. waiting[j] > 0 /\ wk[w].pc = "idle" /\ waiting' = [waiting EXCEPT ![j] = @ - 1]
        /\ UNCHANGED <<status, up, resumeTodo, sleeping, faults>>
    BY <1>4 DEF Assign
  <2>3. wk'[w].pc = "reset" /\ wk'[w].arg = j /\ \A v \in Workers \ {w} : wk'[v] = wk[v]
    BY <1>0, <1>4 DEF Assign, WorkerState
  <2>4. CASE faults = 0
    <3>1. RowsAgree
      BY <2>4 DEF StatusInv
    <3>2. status[j] \in {"pending", "retrying", "deleted"} /\ up # "booting"
      BY <2>2, <3>1 DEF RowsAgree, HolderInv
    <3>3. \A i \in Jobs \ {j} : waiting'[i] = waiting[i]
      BY <2>1, <2>2
    <3>4. Holds(w, j)' /\ \A v \in Workers, i \in Jobs : Holds(v, i) => Holds(v, i)'
      BY <2>2, <2>3 DEF Holds
    <3>5. Fits => NoLostJob'
      BY <2>2, <3>3, <3>4 DEF StatusInv, NoLostJob
    <3>6. \A v \in Workers : wk'[v].pc # "idle" => status'[wk'[v].arg] \in RowOf(wk'[v])
      BY <2>2, <2>3, <3>1, <3>2 DEF RowsAgree, RowOf, Early
    <3>7. \A i \in Jobs : waiting'[i] > 0 \/ i \in resumeTodo'
                            => status'[i] \in {"pending", "retrying", "deleted"}
      BY <2>2, <3>1, <3>2, <3>3 DEF RowsAgree
    <3>8. \A v \in Workers : wk'[v].pc = "fail" => wk'[v].next \notin {"running", "retrying"}
      BY <2>3, <3>1 DEF RowsAgree
    <3>9. RowsAgree'
      BY <2>2, <3>1, <3>2, <3>6, <3>7, <3>8 DEF RowsAgree, RowOf
    <3> QED
      BY <3>5, <3>9 DEF StatusInv
  <2> QED
    BY <2>2, <2>4, StatusAfterFault
<1>5. ASSUME NEW j \in Jobs, NEW w \in Workers, StopJob(j, w) PROVE StatusInv'
  <2>1. \A v \in Workers : wk'[v].pc = wk[v].pc /\ wk'[v].arg = wk[v].arg /\ wk'[v].next = wk[v].next
    BY <1>0, <1>5 DEF StopJob, WorkerState
  <2> QED
    BY <1>5, <1>a, <2>1, StatusSame DEF StopJob
<1>6. CASE Boot
  <2>1. up = "down" /\ up' = "booting" /\ UNCHANGED <<wk, waiting, sleeping, resumeTodo>>
    BY <1>6 DEF Boot
  <2>2. \A j \in Jobs : waiting'[j] = 0 /\ sleeping'[j] = 0
    BY <2>1 DEF HolderInv
  <2>3. resumeTodo' = {} /\ \A w \in Workers : wk'[w].pc = "idle"
    BY <2>1 DEF HolderInv
  <2>4. faults' = 0 => \A j \in Jobs : status'[j] # "running"
    BY <1>0, <1>6, FaultCounts DEF Boot
  <2> QED
    BY <2>1, <2>2, <2>3, <2>4 DEF StatusInv, RowsAgree, NoLostJob
<1>7. CASE ResumeQuery
  <2>1. up = "booting" /\ up' = "resuming" /\ UNCHANGED <<wk, waiting, sleeping, status>>
    BY <1>7 DEF ResumeQuery
  <2>2. \A j \in Jobs : waiting'[j] = 0 /\ sleeping'[j] = 0
    BY <2>1 DEF HolderInv
  <2>3. \A w \in Workers : wk'[w].pc = "idle"
    BY <2>1 DEF HolderInv
  <2>4. CASE /\ resumeTodo' \in FirstRows({j \in Jobs : status[j] \in {"pending", "retrying"}})
             /\ UNCHANGED boundVars
    <3>0. /\ resumeTodo' \subseteq {j \in Jobs : status[j] \in {"pending", "retrying"}}
          /\ Fits => resumeTodo' = {j \in Jobs : status[j] \in {"pending", "retrying"}}
      BY <2>4, RowsOfQuery
    <3>1. faults' = 0 => \A j \in Jobs : status[j] # "running"
      BY <2>1, <2>4 DEF StatusInv, RowsAgree
    <3>2. faults' = 0 => RowsAgree'
      BY <2>1, <2>2, <2>3, <3>0 DEF RowsAgree
    <3>3. Fits => NoLostJob'
      BY <2>1, <3>0, <3>1 DEF NoLostJob, Active
    <3> QED
      BY <3>2, <3>3 DEF StatusInv
  <2>5. CASE Fault
    BY <1>0, <2>5, FaultCounts, StatusAfterFault
  <2> QED
    BY <1>7, <2>4, <2>5 DEF ResumeQuery
<1>8. CASE Serve
  <2>1. up = "resuming" /\ up' = "serving" /\ UNCHANGED <<wk, waiting, sleeping, resumeTodo, status, faults>>
    BY <1>8 DEF Serve
  <2>2. faults = 0 => RowsAgree'
    BY <2>1 DEF StatusInv, RowsAgree, RowOf
  <2>3. Fits => NoLostJob'
    BY <2>1 DEF StatusInv, NoLostJob, Holds
  <2> QED
    BY <2>1, <2>2, <2>3 DEF StatusInv
<1>9. ASSUME NEW j \in Jobs, AddJob(j) PROVE StatusInv'
  <2>1. status[j] = "none" /\ up = "serving" /\ Schedule(j)
        /\ UNCHANGED <<up, wk, sleeping, resumeTodo, faults>> /\ status' = [status EXCEPT ![j] = "pending"]
    BY <1>9 DEF AddJob
  <2>2. Unheld(j)
    BY <2>1 DEF HolderInv
  <2>3. status'[j] = "pending" /\ \A i \in Jobs \ {j} : status'[i] = status[i]
    BY <1>0, <2>1
  <2> QED
    BY <1>c, <2>1, <2>2, <2>3, ScheduleStatus DEF Unheld
<1>10. ASSUME NEW j \in Jobs, DeleteCheck(j) PROVE StatusInv'
  <2>1. faults' = 0 => faults = 0
    BY <1>b, <1>10 DEF DeleteCheck
  <2> QED
    BY <1>10, <1>a, <2>1, StatusSame DEF DeleteCheck
<1>11. ASSUME NEW j \in Jobs, DeleteRepJob(j) PROVE StatusInv'
  <2>1. faults' = 0 => faults = 0
    BY <1>b, <1>11 DEF DeleteRepJob
  <2>2. \A i \in Jobs : status'[i] \in {status[i], "deleted"}
    BY <1>0, <1>11 DEF DeleteRepJob
  <2> QED
    BY <1>11, <1>a, <2>1, <2>2, StatusSame DEF DeleteRepJob
<1>12. ASSUME NEW p \in Policies,
              HandleAction(p) \/ UpdateRepPolicyEnablement(p) \/ DeleteRepTarget(p) \/ DeleteProject(p)
       PROVE  StatusInv'
  <2>1. UNCHANGED <<status, up, resumeTodo, waiting, sleeping, wk, faults>>
    BY <1>12 DEF HandleAction, UpdateRepPolicyEnablement, DeleteRepTarget, DeleteProject
  <2> QED
    BY <1>a, <2>1, StatusSame
<1>13. CASE Crash
  BY <1>13, LoseMemoryStatus DEF Crash
<1> QED
  BY <1>1, <1>2, <1>3, <1>4, <1>5, <1>6, <1>7, <1>8, <1>9, <1>10, <1>11, <1>12, <1>13
     DEF Next, ServiceStep, RequestStep

LEMMA StatusStep == LocalInv /\ HolderInv /\ StatusInv /\ [Next]_vars => StatusInv'
<1>1. ASSUME LocalInv, StatusInv, UNCHANGED vars PROVE StatusInv'
  BY <1>1, StatusSame DEF LocalInv, WorkerOK
<1> QED
  BY <1>1, StatusNext

\* As long as no statement fails and there are no more jobs than a query returns, no job
\* is forgotten in an unfinished status, through any number of crashes, panics and restarts.
THEOREM NothingLost ==
  ASSUME Fits
  PROVE  Spec => []NoLostJob
<1>1. StatusInv => NoLostJob
  BY DEF StatusInv
<1> QED
  BY <1>1, LocalInit, LocalStep, HolderInit, HolderStep, StatusInit, StatusStep, PTL DEF Spec

\* As long as no statement fails, a worker never writes the status the row has already,
\* so that this cause of the panic in UpdateRepJobStatus is excluded.
THEOREM NeverRewrites == Spec => []NoRewrite
<1>1. StatusInv => NoRewrite
  BY DEF StatusInv, RowsAgree, NoRewrite, StatusWrite, RowOf, Early
<1> QED
  BY <1>1, LocalInit, LocalStep, HolderInit, HolderStep, StatusInit, StatusStep, PTL DEF Spec

\* What one step may do to a final status.
KeepsFinal == faults' = 0 => \A j \in Jobs : status[j] \in Final => status'[j] \in {status[j], "deleted"}

LEMMA FinalStep ==
  ASSUME LocalInv, StatusInv, [Next]_vars
  PROVE  KeepsFinal
<1> SUFFICES ASSUME faults' = 0 PROVE \A j \in Jobs : status[j] \in Final => status'[j] \in {status[j], "deleted"}
  BY DEF KeepsFinal
<1>0. TypeOK /\ status \in [Jobs -> Statuses]
  BY DEF LocalInv, TypeOK
<1>1. ASSUME NEW w \in Workers, WorkerRun(w)
      PROVE  \A j \in Jobs : status[j] \in Final => status'[j] = status[j]
  <2>1. PICK q : MoveOf(w, q)
    BY <1>1, WorkerMoves
  <2>2. \/ UNCHANGED status
        \/ \E s : status' = [status EXCEPT ![wk[w].arg] = s] /\ faults' = faults
    BY <2>1 DEF MoveOf, QuietStep, EndStep, RunStep, RetryStep, FaultyStep
  <2>3. faults = 0 => status[wk[w].arg] \notin Final
    BY <2>1 DEF MoveOf, StatusInv, RowsAgree, RowOf, Final
  <2> QED
    BY <1>0, <2>2, <2>3
<1>2. ASSUME NEW j \in Jobs, AddJob(j) PROVE \A i \in Jobs : status[i] \in Final => status'[i] = status[i]
  BY <1>0, <1>2 DEF AddJob, Final
<1>3. ASSUME NEW j \in Jobs, DeleteRepJob(j) PROVE \A i \in Jobs : status'[i] \in {status[i], "deleted"}
  BY <1>0, <1>3 DEF DeleteRepJob
<1>4. CASE Boot
  BY <1>0, <1>4 DEF Boot, Final
<1>5. ASSUME LoseMemory PROVE UNCHANGED status
  BY <1>5 DEF LoseMemory
<1>6. CASE \/ \E j \in Jobs : Reschedule(j) \/ ResumeJob(j) \/ DeleteCheck(j)
           \/ \E j \in Jobs, w \in Workers : Assign(j, w) \/ StopJob(j, w)
           \/ ResumeQuery \/ Serve \/ UNCHANGED vars
           \/ \E p \in Policies : HandleAction(p) \/ UpdateRepPolicyEnablement(p)
                                  \/ DeleteRepTarget(p) \/ DeleteProject(p)
  <2>1. UNCHANGED status
    BY <1>6 DEF Reschedule, ResumeJob, DeleteCheck, Assign, StopJob, ResumeQuery, Serve, HandleAction,
                UpdateRepPolicyEnablement, DeleteRepTarget, DeleteProject
  <2> QED
    BY <2>1
<1> QED
  BY <1>1, <1>2, <1>3, <1>4, <1>5, <1>6
     DEF Next, ServiceStep, RequestStep, WorkerStep, Panic, Crash

\* As long as no statement fails, a job that was reported as ended never gets another
\* status than deleted.
THEOREM FinalStays == Spec => FinalStable
<1>1. LocalInv /\ StatusInv /\ [Next]_vars => [KeepsFinal]_vars
  BY FinalStep
<1> QED
  BY <1>1, LocalInit, LocalStep, HolderInit, HolderStep, StatusInit, StatusStep, PTL
     DEF Spec, FinalStable, KeepsFinal

-----------------------------------------------------------------------------
(***************************************************************************)
(* Stop requests reach the job they were made for.                         *)
(***************************************************************************)

LEMMA StopInit == Init => StopInv
<1> SUFFICES ASSUME Init PROVE StopInv
  OBVIOUS
<1>1. \A w \in Workers : wk[w].desired = "" /\ wk[w].next = ""
  BY DEF Init, NewWorker
<1>2. \A j \in Jobs : status[j] = "none"
  BY DEF Init
<1>3. stopTodo = {}
  BY DEF Init
<1> QED
  BY <1>1, <1>2, <1>3 DEF StopInv, StoppedWasAsked

\* A step that asks for no less and writes no "stopped".
LEMMA StopSame ==
  ASSUME StopInv, asked \subseteq asked', stopTodo' \subseteq stopTodo,
         \A j \in Jobs : status'[j] = "stopped" => status[j] = "stopped",
         \A w \in Workers : /\ wk'[w].desired = "stopped" => wk'[w].smJob \in asked
                            /\ wk'[w].next = "stopped" => wk'[w].arg \in asked
  PROVE  StopInv'
BY DEF StopInv, StoppedWasAsked

LEMMA StopWorker ==
  ASSUME LocalInv, StopInv, NEW w \in Workers, WorkerRun(w)
  PROVE  StopInv'
<1> DEFINE r == wk[w]
<1>0. /\ status \in [Jobs -> Statuses] /\ wk \in [Workers -> WorkerState] /\ r \in WorkerState
      /\ WorkerOK(r)
  BY DEF LocalInv, TypeOK
<1>1. PICK q : MoveOf(w, q)
  BY WorkerMoves
<1>2. wk'[w] = q /\ (\A v \in Workers \ {w} : wk'[v] = wk[v]) /\ UNCHANGED stopVars
      /\ r.arg \in Jobs /\ q \in WorkerState
  BY <1>0, <1>1 DEF MoveOf
<1>3. \A j \in Jobs : status'[j] = "stopped" => status[j] = "stopped" \/ (j = r.arg /\ j \in asked)
  <2>1. \/ UNCHANGED status
        \/ \E s : status' = [status EXCEPT ![r.arg] = s] /\ (s = "stopped" => r.next = "stopped")
    BY <1>1 DEF MoveOf, QuietStep, EndStep, RunStep, RetryStep, FaultyStep
  <2> QED
    BY <1>0, <1>2, <2>1 DEF StopInv
<1>4. /\ q.desired = "stopped" => q.smJob \in asked
      /\ q.next = "stopped" => q.arg \in asked
  <2> USE DEF Become
  <2> DEFINE G == /\ q.desired = "stopped" => q.smJob \in asked
                  /\ q.next = "stopped" => q.arg \in asked
  <2>0. /\ r.desired = "stopped" => r.smJob \in asked
        /\ r.next = "stopped" => r.arg \in asked
    BY DEF StopInv
  <2>1. ASSUME q.desired = r.desired, q.smJob = r.smJob, q.arg = r.arg,
               q.next \in {r.next, ""} \/ q.next # "stopped"
        PROVE  G
    BY <2>0, <2>1
  <2>2. q = wk'[w] /\ wk \in [Workers -> WorkerState]
    BY <1>0, <1>2
  <2>3. CASE ResetLock(w)
    <3>1. q.desired = "" /\ q.arg = r.arg /\ q.next = r.next
      BY <1>0, <2>2, <2>3 DEF ResetLock, WorkerState
    <3> QED
      BY <2>0, <3>1
  <2>g. ASSUME NEW l, Goto(w, l) PROVE G
    <3>1. q = [r EXCEPT !.pc = l]
      BY <1>0, <2>2, <2>g DEF Goto
    <3> HIDE DEF r
    <3>2. q.desired = r.desired /\ q.smJob = r.smJob /\ q.arg = r.arg /\ q.next = r.next
      BY <1>0, <3>1 DEF WorkerState
    <3> QED
      BY <2>1, <3>2
  <2>4. CASE LoadJob(w) \/ LoadPolicy(w)
    BY <2>g, <2>4 DEF LoadJob, LoadPolicy
  <2>13. CASE LoadTarget(w)
    <3>1. CASE q = [r EXCEPT !.pc = "enter", !.current = "pending", !.next = "running", !.tags = 0]
      <4> HIDE DEF r
      <4>1. q.desired = r.desired /\ q.smJob = r.smJob /\ q.arg = r.arg /\ q.next = "running"
        BY <1>0, <3>1 DEF WorkerState
      <4> QED
        BY <2>1, <4>1
    <3>2. CASE q = [r EXCEPT !.pc = "reset_error", !.current = "pending"]
      <4> HIDE DEF r
      <4>1. q.desired = r.desired /\ q.smJob = r.smJob /\ q.arg = r.arg /\ q.next = r.next
        BY <1>0, <3>2 DEF WorkerState
      <4> QED
        BY <2>1, <4>1
    <3> QED
      BY <1>0, <2>2, <2>g, <2>13, <3>1, <3>2 DEF LoadTarget
  <2>14. CASE LastWrite(w)
    <3>1. CASE q = [r EXCEPT !.pc = "idle", !.next = ""]
      <4> HIDE DEF r
      <4>1. q.desired = r.desired /\ q.smJob = r.smJob /\ q.arg = r.arg /\ q.next = ""
        BY <1>0, <3>1 DEF WorkerState
      <4> QED
        BY <2>1, <4>1
    <3>2. ASSUME NEW c, q = [r EXCEPT !.pc = "idle", !.next = "", !.current = c] PROVE G
      <4> HIDE DEF r
      <4>1. q.desired = r.desired /\ q.smJob = r.smJob /\ q.arg = r.arg /\ q.next = ""
        BY <1>0, <3>2 DEF WorkerState
      <4> QED
        BY <2>1, <4>1
    <3> QED
      BY <1>0, <2>2, <2>14, <3>1, <3>2 DEF LastWrite
  <2>5. CASE ReadDesired(w)
    <3>1. r.pc = "loop" /\ q.desired = r.desired /\ q.smJob = r.smJob /\ q.arg = r.arg /\ q.next = r.desired
      BY <1>0, <2>2, <2>5 DEF ReadDesired, WorkerState
    <3>2. r.smJob = r.arg
      BY <1>0, <3>1 DEF WorkerOK
    <3> QED
      BY <2>0, <3>1, <3>2
  <2>6. CASE ClearDesired(w)
    <3>1. q.desired = "" /\ q.arg = r.arg /\ q.next = r.next
      BY <1>0, <2>2, <2>6 DEF ClearDesired, WorkerState
    <3> QED
      BY <2>0, <3>1
  <2>7. CASE FollowNext(w)
    <3>1. \/ \E l : wk' = [wk EXCEPT ![w] = [r EXCEPT !.pc = l]]
          \/ /\ r.next = Continue
             /\ \E s \in Transitions(r.arg, r.current) : wk' = [wk EXCEPT ![w] = [r EXCEPT !.next = s]]
      BY <2>7 DEF FollowNext, Goto
    <3>2. ASSUME r.next = Continue PROVE "stopped" \notin Transitions(r.arg, r.current)
      <4>1. r.current = "running"
        BY <1>0, <2>7, <3>2 DEF FollowNext, WorkerOK
      <4> QED
        BY <4>1, RunningGoesToWork
    <3>3. /\ q.desired = r.desired /\ q.smJob = r.smJob /\ q.arg = r.arg
          /\ q.next = r.next \/ q.next # "stopped"
      BY ZenonT(60), <1>0, <2>2, <3>1, <3>2 DEF WorkerState
    <3> QED
      BY <2>1, <3>3
  <2>8. ASSUME NEW n, NEW t, Entered(w, n, t), n # "stopped" PROVE G
    <3> DEFINE l == IF n = "" THEN "idle" ELSE "loop"
               c == r.next
    <3>1. q = [r EXCEPT !.pc = l, !.current = c, !.next = n, !.tags = t]
      BY <1>0, <2>2, <2>8 DEF Entered
    <3> HIDE DEF r, l, c
    <3>2. q.desired = r.desired /\ q.smJob = r.smJob /\ q.arg = r.arg /\ q.next = n
      BY <1>0, <3>1 DEF WorkerState
    <3> QED
      BY <2>1, <2>8, <3>2
  <2>9. CASE EnterStatus(w)
    BY <2>8, <2>9, <2>g DEF EnterStatus, EnterError, Continue
  <2>10. CASE EnterRetrying(w)
    <3>1. PICK u : /\ wk' = [wk EXCEPT ![w] = u]
                   /\ \/ u = [r EXCEPT !.pc = "fail"]
                      \/ u = [r EXCEPT !.pc = "idle", !.current = "retrying", !.next = ""]
      BY <2>10 DEF EnterRetrying
    <3>2. q = u
      BY <1>0, <2>2, <3>1
    <3>3. /\ q.desired = r.desired /\ q.smJob = r.smJob /\ q.arg = r.arg
          /\ q.next \in {r.next, ""}
      <4> HIDE DEF r
      <4> QED
        BY <1>0, <3>1, <3>2 DEF WorkerState
    <3> QED
      BY <2>1, <3>3
  <2>11. ASSUME NEW s, NEW n, NEW t, n # "stopped", Handler(w, s, n, t)
         PROVE  G
    BY <2>8, <2>11, <2>g DEF Handler, EnterError
  <2>12. CASE \/ Initialize(w) \/ Check(w) \/ PullManifest(w) \/ TransferBlob(w)
              \/ PushManifest(w) \/ DeleteImage(w)
    BY <2>8, <2>11, <2>12 DEF Initialize, Check, PullManifest, TransferBlob, PushManifest, DeleteImage
  <2> QED
    BY <2>3, <2>4, <2>5, <2>6, <2>7, <2>9, <2>10, <2>12, <2>13, <2>14 DEF WorkerRun
<1>5. \A v \in Workers : /\ wk'[v].desired = "stopped" => wk'[v].smJob \in asked
                         /\ wk'[v].next = "stopped" => wk'[v].arg \in asked
  BY <1>2, <1>4 DEF StopInv
<1> QED
  BY <1>2, <1>3, <1>5 DEF StopInv, StoppedWasAsked

LEMMA StopNext ==
  ASSUME LocalInv, StopInv, Next
  PROVE  StopInv'
<1>0. TypeOK /\ wk \in [Workers -> WorkerState] /\ status \in [Jobs -> Statuses]
  BY DEF LocalInv, TypeOK
<1>a. \A w \in Workers : /\ wk[w].desired = "stopped" => wk[w].smJob \in asked
                         /\ wk[w].next = "stopped" => wk[w].arg \in asked
  BY DEF StopInv
<1>1. ASSUME LoseMemory PROVE StopInv'
  <2>1. \A w \in Workers : wk'[w].desired = "" /\ wk'[w].next = ""
    BY <1>1 DEF LoseMemory, NewWorker
  <2> QED
    BY <1>1, <2>1, StopSame DEF LoseMemory
<1>2. ASSUME NEW w \in Workers, WorkerStep(w) PROVE StopInv'
  BY <1>1, <1>2, StopWorker DEF WorkerStep, Panic
<1>3. ASSUME NEW j \in Jobs, NEW w \in Workers, Assign(j, w) PROVE StopInv'
  <2>1. wk[w].next = ""
    BY <1>3 DEF Assign, LocalInv, WorkerOK
  <2>2. /\ wk'[w].desired = wk[w].desired /\ wk'[w].smJob = wk[w].smJob /\ wk'[w].next = wk[w].next
        /\ \A v \in Workers \ {w} : wk'[v] = wk[v]
    BY <1>0, <1>3 DEF Assign, WorkerState
  <2>3. \A v \in Workers : /\ wk'[v].desired = "stopped" => wk'[v].smJob \in asked
                           /\ wk'[v].next = "stopped" => wk'[v].arg \in asked
    BY <1>a, <2>1, <2>2
  <2> QED
    BY <1>3, <2>3, StopSame DEF Assign
<1>4. ASSUME NEW j \in Jobs, NEW w \in Workers, StopJob(j, w) PROVE StopInv'
  <2>1. j \in asked
    BY <1>4 DEF StopJob, StopInv
  <2>2. /\ wk'[w].desired = IF wk[w].smJob = j THEN "stopped" ELSE wk[w].desired
        /\ wk'[w].smJob = wk[w].smJob /\ wk'[w].next = wk[w].next /\ wk'[w].arg = wk[w].arg
        /\ \A v \in Workers \ {w} : wk'[v] = wk[v]
    BY <1>0, <1>4 DEF StopJob, WorkerState
  <2>3. \A v \in Workers : /\ wk'[v].desired = "stopped" => wk'[v].smJob \in asked
                           /\ wk'[v].next = "stopped" => wk'[v].arg \in asked
    BY <1>a, <2>1, <2>2
  <2> QED
    BY <1>4, <2>3, StopSame DEF StopJob
<1>5. ASSUME NEW p \in Policies, HandleAction(p) PROVE StopInv'
  <2>0. PICK listed : stopTodo' = stopTodo \cup (listed \X Workers) /\ asked' = asked \cup listed
    BY <1>5 DEF HandleAction
  <2>1. \A pair \in stopTodo' : pair[1] \in asked'
    BY <2>0 DEF StopInv
  <2> QED
    BY <1>5, <2>0, <2>1 DEF HandleAction, StopInv, StoppedWasAsked
<1>6. CASE \/ \E j \in Jobs : Reschedule(j) \/ ResumeJob(j) \/ AddJob(j) \/ DeleteCheck(j) \/ DeleteRepJob(j)
           \/ Boot \/ ResumeQuery \/ Serve
           \/ \E p \in Policies : UpdateRepPolicyEnablement(p) \/ DeleteRepTarget(p) \/ DeleteProject(p)
  <2>1. UNCHANGED <<wk, stopTodo, asked>>
    BY <1>6 DEF Reschedule, ResumeJob, AddJob, DeleteCheck, DeleteRepJob, Boot, ResumeQuery, Serve,
                UpdateRepPolicyEnablement, DeleteRepTarget, DeleteProject
  <2>2. \A j \in Jobs : status'[j] = "stopped" => status[j] = "stopped"
    BY <1>0, <1>6 DEF Reschedule, ResumeJob, AddJob, DeleteCheck, DeleteRepJob, Boot, ResumeQuery, Serve,
                UpdateRepPolicyEnablement, DeleteRepTarget, DeleteProject
  <2> QED
    BY <1>a, <2>1, <2>2, StopSame
<1>7. CASE Crash
  BY <1>1, <1>7 DEF Crash
<1> QED
  BY <1>2, <1>3, <1>4, <1>5, <1>6, <1>7 DEF Next, ServiceStep, RequestStep

LEMMA StopStep == LocalInv /\ StopInv /\ [Next]_vars => StopInv'
<1>1. ASSUME StopInv, UNCHANGED vars PROVE StopInv'
  BY <1>1 DEF StopInv, StoppedWasAsked
<1> QED
  BY <1>1, StopNext

\* Only a job that some stop request has listed ends as stopped: a request for the previous
\* job of a state machine never hits the next one.
THEOREM StopsAreAsked == Spec => []StoppedWasAsked
<1>1. StopInv => StoppedWasAsked
  BY DEF StopInv
<1> QED
  BY <1>1, LocalInit, LocalStep, StopInit, StopStep, PTL DEF Spec
=============================================================================
