---------------------------- MODULE Replication ----------------------------
(***************************************************************************)
(* Replication policies with the targets and projects they refer to, as    *)
(* the handlers of the ui change them.                                     *)
(*                                                                         *)
(* A handler checks with one statement after the other that its change is  *)
(* allowed and then makes it with another, without a transaction and next  *)
(* to other requests.  A step is one statement; a request that is refused  *)
(* ends.  The statement with which a request begins, and which could end   *)
(* it at once, is part of the step that begins it.                         *)
(***************************************************************************)
EXTENDS Naturals, FiniteSets

CONSTANTS Projects,    \* ids of projects
          Targets,     \* ids of targets
          Keys,        \* names of targets, each with its endpoint
          Policies,    \* ids of policies
          None,        \* no row
          Requests,    \* bound: requests under way at a time
          MaxRequests  \* bound: requests in all

PolicyRow ==
  [project : Projects, target : Targets, enabled : BOOLEAN, partial : BOOLEAN,
   deleted : BOOLEAN]

ASSUME ReplicationAssumption ==
  /\ None \notin Keys \cup Projects \cup Targets \cup Policies \cup PolicyRow
  /\ MaxRequests \in Nat

VARIABLES
  project,   \* projects that are not deleted
  target,    \* replication_target: name and endpoint of each row
  policy,    \* replication_policy: each row, see PolicyRow
  active,    \* policies with a pending, running or retrying job
  triggers,  \* policies for which a goroutine is about to call the job service
  req,       \* requests under way, see RequestState
  begun,     \* number of requests so far
  raced      \* history: a request made its change after another had made one about the same

rows == <<project, target, policy>>
jobs == <<active, triggers>>
vars == <<rows, jobs, req, begun, raced>>

Steps == {"idle", "post_target", "post_pair", "post_add", "put_target", "put_pair", "put_update",
          "enablement", "delete_jobs", "delete_policy", "target_add", "target_policies",
          "target_key", "target_update", "unused", "target_delete", "no_policy",
          "project_delete"}

RequestState ==
  [step    : Steps,
   project : Projects \cup {None},
   target  : Targets \cup {None},
   key     : Keys \cup {None},
   policy  : Policies \cup {None},
   enabled : BOOLEAN,   \* as the request wants it
   was     : BOOLEAN,   \* what it was; TargetPut: name and endpoint stay
   partial : BOOLEAN,   \* PartialReplication
   about   : SUBSET (Projects \cup Targets \cup Keys),
   clean   : BOOLEAN]   \* history: nobody else has changed what this is about

Idle == [step |-> "idle", project |-> None, target |-> None, key |-> None, policy |-> None,
         enabled |-> FALSE, was |-> FALSE, partial |-> FALSE, about |-> {}, clean |-> TRUE]

TypeOK ==
  /\ project \in SUBSET Projects
  /\ target \in [Targets -> Keys \cup {None}]
  /\ policy \in [Policies -> PolicyRow \cup {None}]
  /\ active \in SUBSET Policies /\ triggers \in SUBSET Policies
  /\ \A p \in active \cup triggers : policy[p] # None
  /\ req \in [Requests -> RequestState]
  /\ \A o \in Requests : req[o].policy # None => policy[req[o].policy] # None
  /\ begun \in 0..MaxRequests
  /\ raced \in BOOLEAN

Init ==
  /\ project = Projects
  /\ target = [t \in Targets |-> None]
  /\ policy = [p \in Policies |-> None]
  /\ active = {} /\ triggers = {}
  /\ req = [o \in Requests |-> Idle]
  /\ begun = 0
  /\ raced = FALSE

-----------------------------------------------------------------------------
(***************************************************************************)
(* Queries.                                                                *)
(***************************************************************************)
Exists(p) == policy[p] # None

Live(p) == Exists(p) /\ ~policy[p].deleted

GetRepPolicyByProject(pr) == {p \in Policies : Live(p) /\ policy[p].project = pr}

GetRepPolicyByTarget(t) == {p \in Policies : Live(p) /\ policy[p].target = t}

GetRepPolicyByProjectAndTarget(pr, t) == GetRepPolicyByProject(pr) \cap GetRepPolicyByTarget(t)

\* GetRepTargetByName and GetRepTargetByEndpoint.
KeyUsed(k) == \E t \in Targets : target[t] = k

-----------------------------------------------------------------------------
(***************************************************************************)
(* The course of a request.                                                *)
(***************************************************************************)
At(o, s) == req[o].step = s

Begin(o, r) ==
  /\ At(o, "idle")
  /\ begun < MaxRequests
  /\ begun' = begun + 1
  /\ req' = [req EXCEPT ![o] = r]
  /\ UNCHANGED <<rows, jobs, raced>>

\* A check: the request goes on or is refused.
Check(o, s, allowed, next) ==
  /\ At(o, s)
  /\ req' = [req EXCEPT ![o] = IF allowed THEN [@ EXCEPT !.step = next] ELSE Idle]
  /\ UNCHANGED <<rows, jobs, begun, raced>>

\* Request o makes its change and ends; requests about the same notice or not.
Change(o, s) ==
  /\ At(o, s)
  /\ raced' = (raced \/ ~req[o].clean)
  /\ req' = [q \in Requests |->
               IF q = o THEN Idle
               ELSE [req[q] EXCEPT !.clean = @ /\ req[q].about \cap req[o].about = {}]]
  /\ UNCHANGED begun

-----------------------------------------------------------------------------
(***************************************************************************)
(* RepPolicyAPI.                                                           *)
(***************************************************************************)

\* Post and PartialReplication: the project is there, ...
Post(o, pr, t, enabled, partial) ==
  /\ pr \in project
  /\ partial => enabled
  /\ Begin(o, [Idle EXCEPT !.step = "post_target", !.project = pr, !.target = t,
                           !.enabled = enabled, !.partial = partial, !.about = {pr, t}])

\* ... so is the target, ...
PostTarget(o) == Check(o, "post_target", target[req[o].target] # None, "post_pair")

Others(o) == GetRepPolicyByProjectAndTarget(req[o].project, req[o].target)

\* Mutant of PostPair: a disabled policy is no obstacle.
PostPair_EnabledOnly(o) ==
  Check(o, "post_pair", \A p \in Others(o) : ~policy[p].enabled, "post_add")

\* ... and there is no policy for both yet.
PostPair(o) ==
  /\ req[o].partial /\ Others(o) # {} => \E p \in Others(o) : ~policy[p].partial
  /\ Check(o, "post_pair", Others(o) = {}, "post_add")

\* PartialReplication uses the partial policy that is there.
PostReuse(o, p) ==
  /\ At(o, "post_pair")
  /\ req[o].partial /\ p \in Others(o) /\ policy[p].partial
  /\ req' = [req EXCEPT ![o] = Idle]
  /\ triggers' = triggers \cup {p}
  /\ UNCHANGED <<rows, active, begun, raced>>

\* AddRepPolicy; an enabled policy is triggered.
PostAdd(o, p) ==
  /\ Change(o, "post_add")
  /\ ~Exists(p)
  /\ policy' = [policy EXCEPT ![p] =
       [project |-> req[o].project, target |-> req[o].target, enabled |-> req[o].enabled,
        partial |-> req[o].partial, deleted |-> FALSE]]
  /\ triggers' = IF req[o].enabled THEN triggers \cup {p} ELSE triggers
  /\ UNCHANGED <<project, target, active>>

\* Put: GetRepPolicy returns deleted policies too.  The target of an enabled policy stays.
Put(o, p, t, enabled) ==
  /\ Exists(p)
  /\ policy[p].enabled => t = policy[p].target
  /\ Begin(o, [Idle EXCEPT !.step = IF t = policy[p].target THEN "put_update" ELSE "put_target",
                           !.policy = p, !.project = policy[p].project, !.target = t,
                           !.enabled = enabled, !.was = policy[p].enabled,
                           !.about = {policy[p].project, policy[p].target, t}])

PutTarget(o) == Check(o, "put_target", target[req[o].target] # None, "put_pair")

PutPair(o) == Check(o, "put_pair", Others(o) = {}, "put_update")

\* UpdateRepPolicy.
PutUpdate(o) ==
  /\ Change(o, "put_update")
  /\ policy' = [policy EXCEPT ![req[o].policy] =
       [@ EXCEPT !.target = req[o].target, !.enabled = req[o].enabled]]
  /\ triggers' = IF req[o].enabled /\ ~req[o].was THEN triggers \cup {req[o].policy}
                 ELSE triggers
  /\ UNCHANGED <<project, target, active>>

\* UpdateEnablement, not for a partial policy, nor to what it is already ...
UpdateEnablement(o, p, enabled) ==
  /\ Exists(p)
  /\ ~policy[p].partial
  /\ policy[p].enabled # enabled
  /\ Begin(o, [Idle EXCEPT !.step = "enablement", !.policy = p, !.enabled = enabled,
                           !.about = {policy[p].project, policy[p].target}])

\* ... triggers the policy or asks the job service to stop its jobs, see JobEnds.
UpdateRepPolicyEnablement(o) ==
  /\ Change(o, "enablement")
  /\ policy' = [policy EXCEPT ![req[o].policy] = [@ EXCEPT !.enabled = req[o].enabled]]
  /\ triggers' = IF req[o].enabled THEN triggers \cup {req[o].policy} ELSE triggers
  /\ UNCHANGED <<project, target, active>>

\* Delete: only policies that are disabled or partial ...
Delete(o, p) ==
  /\ Live(p)
  /\ policy[p].enabled => policy[p].partial
  /\ Begin(o, [Idle EXCEPT !.step = "delete_jobs", !.policy = p,
                           !.about = {policy[p].project, policy[p].target}])

\* Mutant of DeleteJobs: jobs are not looked at.
DeleteJobs_Any(o) == Check(o, "delete_jobs", TRUE, "delete_policy")

\* ... without jobs to do.
DeleteJobs(o) == Check(o, "delete_jobs", req[o].policy \notin active, "delete_policy")

\* Mutant of DeleteRepPolicy: the row is removed.
DeleteRepPolicy_Row(o) ==
  /\ Change(o, "delete_policy")
  /\ policy' = [policy EXCEPT ![req[o].policy] = None]
  /\ UNCHANGED <<project, target, jobs>>

\* The row stays, marked as deleted.
DeleteRepPolicy(o) ==
  /\ Change(o, "delete_policy")
  /\ policy' = [policy EXCEPT ![req[o].policy] = [@ EXCEPT !.deleted = TRUE]]
  /\ UNCHANGED <<project, target, jobs>>

-----------------------------------------------------------------------------
(***************************************************************************)
(* TargetAPI.                                                              *)
(***************************************************************************)

\* Post: name and endpoint are not used yet.
TargetPost(o, k) ==
  /\ ~KeyUsed(k)
  /\ Begin(o, [Idle EXCEPT !.step = "target_add", !.key = k, !.about = {k}])

AddRepTarget(o, t) ==
  /\ Change(o, "target_add")
  /\ target[t] = None
  /\ target' = [target EXCEPT ![t] = req[o].key]
  /\ UNCHANGED <<project, policy, jobs>>

\* Put: the target is there, ...
TargetPut(o, t, k) ==
  /\ target[t] # None
  /\ Begin(o, [Idle EXCEPT !.step = "target_policies", !.target = t, !.key = k,
                           !.was = (k = target[t]), !.about = {t, target[t], k}])

AfterPolicies(o) == IF req[o].was THEN "target_update" ELSE "target_key"

\* Mutant of TargetPolicies: policies are not looked at.
TargetPolicies_Any(o) == Check(o, "target_policies", TRUE, AfterPolicies(o))

\* ... no enabled policy has it, ...
TargetPolicies(o) ==
  Check(o, "target_policies",
        \A p \in GetRepPolicyByTarget(req[o].target) : ~policy[p].enabled, AfterPolicies(o))

\* ... and a new name and endpoint are not used yet.
TargetKey(o) == Check(o, "target_key", ~KeyUsed(req[o].key), "target_update")

\* UpdateRepTarget; a row that is gone meanwhile is not missed.
TargetUpdate(o) ==
  /\ Change(o, "target_update")
  /\ target' = [target EXCEPT ![req[o].target] = IF @ = None THEN None ELSE req[o].key]
  /\ UNCHANGED <<project, policy, jobs>>

\* Delete: the target is there and no policy has it.
TargetDelete(o, t) ==
  /\ target[t] # None
  /\ Begin(o, [Idle EXCEPT !.step = "unused", !.target = t, !.about = {t}])

\* Mutant of TargetUnused: disabled policies are not looked at.
TargetUnused_EnabledOnly(o) ==
  Check(o, "unused", \A p \in GetRepPolicyByTarget(req[o].target) : ~policy[p].enabled,
        "target_delete")

TargetUnused(o) == Check(o, "unused", GetRepPolicyByTarget(req[o].target) = {}, "target_delete")

DeleteRepTarget(o) ==
  /\ Change(o, "target_delete")
  /\ target' = [target EXCEPT ![req[o].target] = None]
  /\ UNCHANGED <<project, policy, jobs>>

-----------------------------------------------------------------------------
(***************************************************************************)
(* ProjectAPI.Delete, of a project without repositories.                   *)
(***************************************************************************)
ProjectDelete(o, pr) ==
  /\ pr \in project
  /\ Begin(o, [Idle EXCEPT !.step = "no_policy", !.project = pr, !.about = {pr}])

ProjectContainsPolicy(o) ==
  Check(o, "no_policy", GetRepPolicyByProject(req[o].project) = {}, "project_delete")

DeleteProject(o) ==
  /\ Change(o, "project_delete")
  /\ project' = project \ {req[o].project}
  /\ UNCHANGED <<target, policy, jobs>>

-----------------------------------------------------------------------------
(***************************************************************************)
(* Triggers and jobs.                                                      *)
(***************************************************************************)

\* TriggerReplicationByRepository, for a push to or a deletion from project pr.
TriggerByRepository(pr) ==
  /\ pr \in project
  /\ triggers' = triggers \cup {p \in GetRepPolicyByProject(pr) :
                                  policy[p].enabled /\ ~policy[p].partial}
  /\ UNCHANGED <<rows, active, req, begun, raced>>

\* TriggerReplication: the job service adds jobs for any policy that has a row, deleted or
\* disabled ones too.
AddJobs(p) ==
  /\ p \in triggers
  /\ triggers' = triggers \ {p}
  /\ active' = active \cup {p}
  /\ req' = [q \in Requests |->
               [req[q] EXCEPT !.clean = @ /\ ~(At(q, "delete_policy") /\ req[q].policy = p)]]
  /\ UNCHANGED <<rows, begun, raced>>

\* It does not answer, or the project has no repository.
TriggerFails(p) ==
  /\ p \in triggers
  /\ triggers' = triggers \ {p}
  /\ UNCHANGED <<rows, active, req, begun, raced>>

\* The last job of the policy ends: module JobService.
JobEnds(p) ==
  /\ p \in active
  /\ active' = active \ {p}
  /\ UNCHANGED <<rows, triggers, req, begun, raced>>

-----------------------------------------------------------------------------
PolicyStep(o) ==
  \/ \E pr \in Projects, t \in Targets, e, partial \in BOOLEAN : Post(o, pr, t, e, partial)
  \/ PostTarget(o) \/ PostPair(o)
  \/ \E p \in Policies : PostReuse(o, p) \/ PostAdd(o, p)
  \/ \E p \in Policies, t \in Targets, e \in BOOLEAN : Put(o, p, t, e)
  \/ PutTarget(o) \/ PutPair(o) \/ PutUpdate(o)
  \/ \E p \in Policies, e \in BOOLEAN : UpdateEnablement(o, p, e)
  \/ UpdateRepPolicyEnablement(o)
  \/ \E p \in Policies : Delete(o, p)
  \/ DeleteJobs(o) \/ DeleteRepPolicy(o)

TargetStep(o) ==
  \/ \E k \in Keys : TargetPost(o, k)
  \/ \E t \in Targets : AddRepTarget(o, t)
  \/ \E t \in Targets, k \in Keys : TargetPut(o, t, k)
  \/ TargetPolicies(o) \/ TargetKey(o) \/ TargetUpdate(o)
  \/ \E t \in Targets : TargetDelete(o, t)
  \/ TargetUnused(o) \/ DeleteRepTarget(o)

ProjectStep(o) ==
  (\E pr \in Projects : ProjectDelete(o, pr)) \/ ProjectContainsPolicy(o) \/ DeleteProject(o)

JobStep ==
  \/ \E pr \in Projects : TriggerByRepository(pr)
  \/ \E p \in Policies : AddJobs(p) \/ TriggerFails(p) \/ JobEnds(p)

Next == JobStep \/ \E o \in Requests : PolicyStep(o) \/ TargetStep(o) \/ ProjectStep(o)

Spec == Init /\ [][Next]_vars

-----------------------------------------------------------------------------
(***************************************************************************)
(* Safety, as long as no request has made its change after another had     *)
(* made one about the same project, target or name: the checks before the  *)
(* change are then worth something.  Other requests may overlap freely.    *)
(***************************************************************************)

\* A policy that is not deleted has its target and its project: neither the deletion
\* handlers nor those that add and change policies leave one without.
NoOrphans ==
  ~raced => \A p \in Policies : Live(p) =>
              target[policy[p].target] # None /\ policy[p].project \in project

\* No two policies replicate the same project to the same target, and no two targets have the
\* same name and endpoint: Post, Put and PartialReplication of policies, and Post and Put of
\* targets, keep to what they tell the user.
NoDuplicates ==
  ~raced =>
    /\ \A p, q \in Policies :
         Live(p) /\ Live(q) /\ policy[p].project = policy[q].project
           /\ policy[p].target = policy[q].target => p = q
    /\ \A t, u \in Targets : target[t] # None /\ target[t] = target[u] => t = u

\* A policy that is enabled and stays so keeps its target, and the target its endpoint:
\* what TargetAPI.Put and RepPolicyAPI.Put refuse cannot be had by a detour.
TargetFixed ==
  [][~raced' => \A p \in Policies :
       Live(p) /\ Live(p)' /\ policy[p].enabled /\ policy'[p].enabled =>
         /\ policy'[p].target = policy[p].target
         /\ target'[policy[p].target] = target[policy[p].target]]_vars

\* A policy is deleted only while it is disabled or partial and no job of it is pending,
\* running or retrying.
DeletesIdle ==
  [][~raced' => \A p \in Policies :
       Live(p) /\ ~Live(p)' => p \notin active /\ (policy[p].enabled => policy[p].partial)]_vars
=============================================================================
