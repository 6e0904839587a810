------------------------------- MODULE Quota -------------------------------
(***************************************************************************)
(* The quota of one project: how many images it has and how large they     *)
(* are, as the ui keeps count of them.  The images are the tags of one     *)
(* repository.                                                             *)
(*                                                                         *)
(* A push is a token, the manifest put to the registry, and a goroutine of *)
(* the notification handler that counts the image, scans it and notes its  *)
(* size; a deletion is a request to RepositoryAPI.  Each of their steps is *)
(* one database statement or one request to the registry.                  *)
(***************************************************************************)
EXTENDS Integers, FiniteSets, Functions

CONSTANTS Images,     \* tags
          Manifests,  \* manifests
          Size,       \* size of a manifest's layers
          None,       \* no manifest; no row
          Pushed,     \* bound: the <<image, manifest>> that users push
          Requests,   \* bound: pushes and deletions under way at a time
          Ordered,    \* bound: images for which a request waits for the one before
          Scopes,     \* sets of actions that clients ask a token for
          Limits,     \* limits that admins set
          MaxUse,     \* bound: requests begin while this much is used or less
          MaxFaults   \* bound: statements and requests that fail

ASSUME QuotaAssumption ==
  /\ Size \in [Manifests -> Nat]
  /\ None \notin Manifests /\ None \notin Images /\ None \notin Int
  /\ Pushed \subseteq Images \X Manifests
  /\ Ordered \subseteq Images
  /\ Limits \subseteq [num : Nat, size : Nat] /\ Limits # {}
  /\ MaxUse \in Nat
  /\ MaxFaults \in Nat

VARIABLES
  reg,                  \* registry: manifest of each image
  row,                  \* clair_result: image_size of each image
  useNum, useSize,      \* project_quota: what is used
  quota,                \* project_quota: limits; the size times quotaThreshold
  req,                  \* pushes and deletions, see RequestState
  faults

used == <<useNum, useSize>>
vars == <<reg, row, used, quota, req, faults>>

Steps == {"idle", "granted", "check_num", "add_num", "scan", "check_safety", "insert_result",
          "check_size", "old_size", "update_size", "insert_size", "add_size", "check_quota",
          "get_size", "free", "drop"}

RequestState ==
  [step  : Steps,
   image : Images \cup {None},
   check : BOOLEAN,  \* addQuotaNum: the image has a row
   size  : Nat,      \* image_size that the scan found
   add   : Int,      \* addImageSize
   clean : BOOLEAN]  \* history: no step of this request has failed

Idle == [step |-> "idle", image |-> None, check |-> FALSE, size |-> 0, add |-> 0, clean |-> TRUE]

TypeOK ==
  /\ reg \in [Images -> Manifests \cup {None}]
  /\ row \in [Images -> Nat \cup {None}]
  /\ useNum \in Int /\ useSize \in Int
  /\ quota \in Limits
  /\ req \in [Requests -> RequestState]
  /\ \A o \in Requests : req[o].image = None <=> req[o].step = "idle"
  /\ faults \in 0..MaxFaults

Init ==
  /\ reg = [i \in Images |-> None]
  /\ row = [i \in Images |-> None]
  /\ useNum = 0 /\ useSize = 0
  /\ quota \in Limits
  /\ req = [o \in Requests |-> Idle]
  /\ faults = 0

-----------------------------------------------------------------------------
Become(o, r) == req' = [req EXCEPT ![o] = r]

Succeed(o, r) == Become(o, r) /\ UNCHANGED faults

\* A step that fails: the error is logged.
Fail(o, r) ==
  /\ faults < MaxFaults
  /\ faults' = faults + 1
  /\ Become(o, [r EXCEPT !.clean = FALSE])

\* The request of o is over with an error.
GiveUp(o) ==
  /\ faults < MaxFaults
  /\ faults' = faults + 1
  /\ Become(o, Idle)

To(o, s) == [req[o] EXCEPT !.step = s]

At(o, s) == req[o].step = s

HasRow(i) == row[i] # None

\* A new request for image i.
Begins(o, i) ==
  /\ At(o, "idle")
  /\ useNum \in -MaxUse..MaxUse /\ useSize \in -MaxUse..MaxUse
  /\ i \in Ordered => \A p \in Requests : req[p].image # i

-----------------------------------------------------------------------------
(***************************************************************************)
(* The push of an image.                                                   *)
(***************************************************************************)
UsedUp == useNum >= quota.num \/ useSize >= quota.size

\* FilterAccess for a user with the permission to write: the quota counts only for clients
\* that do not ask for all actions.
FilterAccess(actions) == ~UsedUp \/ {"push", "*"} \subseteq actions

GetToken(o, i, actions) ==
  /\ Begins(o, i)
  /\ FilterAccess(actions)
  /\ Become(o, [Idle EXCEPT !.step = "granted", !.image = i])
  /\ UNCHANGED <<reg, row, used, quota, faults>>

\* The registry takes the manifest and notifies the ui.
PushManifest(o, m) ==
  /\ At(o, "granted")
  /\ <<req[o].image, m>> \in Pushed
  /\ reg' = [reg EXCEPT ![req[o].image] = m]
  /\ Become(o, To(o, "check_num"))
  /\ UNCHANGED <<row, used, quota, faults>>

\* addQuotaNum: CheckRepoName, whose error is taken for an image without row ...
CheckNum(o) ==
  /\ At(o, "check_num")
  /\ \/ Succeed(o, [To(o, "add_num") EXCEPT !.check = HasRow(req[o].image)])
     \/ Fail(o, [To(o, "add_num") EXCEPT !.check = FALSE])
  /\ UNCHANGED <<reg, row, used, quota>>

\* Mutant of AddNum: every push is counted.
AddNum_Always(o) ==
  /\ At(o, "add_num")
  /\ useNum' = useNum + 1
  /\ Succeed(o, To(o, "scan"))
  /\ UNCHANGED <<reg, row, useSize, quota>>

\* ... and AddProjectQuotaUsedNum for a new image.
AddNum(o) ==
  /\ At(o, "add_num")
  /\ \/ /\ useNum' = IF req[o].check THEN useNum ELSE useNum + 1
        /\ Succeed(o, To(o, "scan"))
     \/ Fail(o, To(o, "scan")) /\ UNCHANGED useNum
  /\ UNCHANGED <<reg, row, useSize, quota>>

\* scanImage: the size of what the tag has now; 0 if that cannot be found out.
Scan(o) ==
  /\ At(o, "scan")
  /\ LET m == reg[req[o].image] IN
     \/ m # None /\ Succeed(o, [To(o, "check_safety") EXCEPT !.size = Size[m]])
     \/ m = None /\ Succeed(o, To(o, "check_safety"))
     \/ Fail(o, To(o, "check_safety"))
  /\ UNCHANGED <<reg, row, used, quota>>

\* CheckImageSafety: a row that is there keeps its size, ...
CheckSafety(o) ==
  /\ At(o, "check_safety")
  /\ \/ Succeed(o, To(o, IF HasRow(req[o].image) THEN "check_size" ELSE "insert_result"))
     \/ Fail(o, To(o, "check_size"))
  /\ UNCHANGED <<reg, row, used, quota>>

\* AddCliarResult; the name of the image is unique.
AddCliarResult(i, size) == row' = IF HasRow(i) THEN row ELSE [row EXCEPT ![i] = size]

\* ... a new one has size 0.
InsertResult(o) ==
  /\ At(o, "insert_result")
  /\ \/ AddCliarResult(req[o].image, 0) /\ Succeed(o, To(o, "check_size"))
     \/ UNCHANGED row /\ Fail(o, To(o, "check_size"))
  /\ UNCHANGED <<reg, used, quota>>

\* CheckImageSize: is there a row, ...
CheckSize(o) ==
  /\ At(o, "check_size")
  /\ \/ Succeed(o, [To(o, IF HasRow(req[o].image) THEN "old_size" ELSE "insert_size")
                      EXCEPT !.add = req[o].size])
     \/ GiveUp(o)
  /\ UNCHANGED <<reg, row, used, quota>>

\* Mutant of OldSize: the whole size is added.
OldSize_Whole(o) ==
  /\ At(o, "old_size")
  /\ Succeed(o, To(o, "update_size"))
  /\ UNCHANGED <<reg, row, used, quota>>

\* ... what size does it have: only the difference is added.
OldSize(o) ==
  /\ At(o, "old_size")
  /\ \/ Succeed(o, [To(o, "update_size") EXCEPT
                      !.add = IF HasRow(req[o].image) THEN @ - row[req[o].image] ELSE @])
     \/ Fail(o, To(o, "update_size"))
  /\ UNCHANGED <<reg, row, used, quota>>

\* Mutants of UpdateSize: the difference is written; a size that is there stays.
UpdateSize_Difference(o) ==
  /\ At(o, "update_size")
  /\ row' = IF HasRow(req[o].image) THEN [row EXCEPT ![req[o].image] = req[o].add] ELSE row
  /\ Succeed(o, To(o, "add_size"))
  /\ UNCHANGED <<reg, used, quota>>
UpdateSize_Once(o) ==
  /\ At(o, "update_size")
  /\ row' = IF row[req[o].image] = 0 THEN [row EXCEPT ![req[o].image] = req[o].size] ELSE row
  /\ Succeed(o, To(o, "add_size"))
  /\ UNCHANGED <<reg, used, quota>>

UpdateSize(o) ==
  /\ At(o, "update_size")
  /\ \/ /\ row' = IF HasRow(req[o].image) THEN [row EXCEPT ![req[o].image] = req[o].size] ELSE row
        /\ Succeed(o, To(o, "add_size"))
     \/ UNCHANGED row /\ Fail(o, To(o, "add_size"))
  /\ UNCHANGED <<reg, used, quota>>

InsertSize(o) ==
  /\ At(o, "insert_size")
  /\ \/ AddCliarResult(req[o].image, req[o].size) /\ Succeed(o, To(o, "add_size"))
     \/ UNCHANGED row /\ Fail(o, To(o, "add_size"))
  /\ UNCHANGED <<reg, used, quota>>

\* AddProjectQuotaUsedSize; left out also if GetUseSizeByProject has failed before.
AddSize(o) ==
  /\ At(o, "add_size")
  /\ \/ useSize' = useSize + req[o].add /\ Succeed(o, To(o, "check_quota"))
     \/ UNCHANGED useSize /\ Fail(o, To(o, "check_quota"))
     \/ UNCHANGED useSize /\ GiveUp(o)
  /\ UNCHANGED <<reg, row, useNum, quota>>

\* checkQuota: a mail to the admins of the project if the quota is used up.
CheckQuota(o) ==
  /\ At(o, "check_quota")
  /\ Succeed(o, Idle)
  /\ UNCHANGED <<reg, row, used, quota>>

-----------------------------------------------------------------------------
(***************************************************************************)
(* The deletion of an image.                                               *)
(***************************************************************************)

\* RepositoryAPI.Delete: the manifest goes with all its tags; a tag that is gone already is
\* no error.
DeleteTag(o, i) ==
  /\ Begins(o, i)
  /\ reg' = [k \in Images |-> IF reg[k] = reg[i] THEN None ELSE reg[k]]
  /\ Become(o, [Idle EXCEPT !.step = "get_size", !.image = i])
  /\ UNCHANGED <<row, used, quota, faults>>

\* UpdateQuota: an image without row or size is not counted.
GetSize(o) ==
  /\ At(o, "get_size")
  /\ \/ HasRow(req[o].image) /\ row[req[o].image] > 0 /\ Succeed(o, To(o, "free"))
     \/ HasRow(req[o].image) /\ row[req[o].image] = 0 /\ Succeed(o, Idle)
     \/ ~HasRow(req[o].image) /\ Succeed(o, Idle)
     \/ GiveUp(o)
  /\ UNCHANGED <<reg, row, used, quota>>

\* UpdateUseQuotaForDelete: one statement with the size the row has now.
Free(o) ==
  /\ At(o, "free")
  /\ \/ /\ IF HasRow(req[o].image)
           THEN useNum' = useNum - 1 /\ useSize' = useSize - row[req[o].image]
           ELSE UNCHANGED used
        /\ Succeed(o, To(o, "drop"))
     \/ GiveUp(o) /\ UNCHANGED used
  /\ UNCHANGED <<reg, row, quota>>

\* DelectImage.
Drop(o) ==
  /\ At(o, "drop")
  /\ \/ row' = [row EXCEPT ![req[o].image] = None] /\ Succeed(o, Idle)
     \/ UNCHANGED row /\ GiveUp(o)
  /\ UNCHANGED <<reg, used, quota>>

-----------------------------------------------------------------------------
\* ProjectAPI.UpdateProjectQuota.
UpdateQuota ==
  /\ quota' \in Limits
  /\ UNCHANGED <<reg, row, used, req, faults>>

Push(o) ==
  \/ \E i \in Images, a \in Scopes : GetToken(o, i, a)
  \/ \E m \in Manifests : PushManifest(o, m)
  \/ CheckNum(o) \/ AddNum(o) \/ Scan(o) \/ CheckSafety(o) \/ InsertResult(o)
  \/ CheckSize(o) \/ OldSize(o) \/ UpdateSize(o) \/ InsertSize(o) \/ AddSize(o) \/ CheckQuota(o)

Delete(o) == (\E i \in Images : DeleteTag(o, i)) \/ GetSize(o) \/ Free(o) \/ Drop(o)

Next == UpdateQuota \/ \E o \in Requests : Push(o) \/ Delete(o)

Spec == Init /\ [][Next]_vars

-----------------------------------------------------------------------------
Quiet == \A o \in Requests : At(o, "idle")

Stored == {i \in Images : reg[i] # None}

\* When no request is under way and none has failed, use_num is the number of images in
\* the registry: each was counted once by addQuotaNum and taken off once by
\* UpdateUseQuotaForDelete.
CountExact == Quiet /\ faults = 0 => useNum = Cardinality(Stored)

\* When no request is under way and none has failed, use_size is the sum of the sizes of
\* the images, also of those that were pushed again with another size.
SizeExact ==
  Quiet /\ faults = 0 =>
    useSize = SumFunction([i \in Images |-> IF i \in Stored THEN Size[reg[i]] ELSE 0])

\* Whatever has failed before, a push that goes through, and that no other request for its
\* image overlaps, leaves the row with the size that the image has: CheckImageSize repairs
\* what earlier pushes left.
RowRepaired ==
  \A o \in Requests : At(o, "check_quota") /\ req[o].clean /\ req[o].image \in Ordered =>
    reg[req[o].image] # None /\ row[req[o].image] = Size[reg[req[o].image]]
=============================================================================
