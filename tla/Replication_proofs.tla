-------------------------- MODULE Replication_proofs --------------------------
(***************************************************************************)
(* Proofs about Replication, for any projects, targets, policies and       *)
(* requests: the types always hold, and as long as no request makes its    *)
(* change after another has made one about the same, policies have target  *)
(* and project, pairs and names are unique, enabled policies keep their    *)
(* target, and only idle policies are deleted.                             *)
(***************************************************************************)
EXTENDS Replication, TLAPS

-----------------------------------------------------------------------------
(***************************************************************************)
(* The inductive invariant: what a request knows at each of its steps.     *)
(***************************************************************************)
Posting  == {"post_target", "post_pair", "post_add"}
Putting  == {"put_target", "put_pair", "put_update"}
Changing == Putting \cup {"enablement", "delete_jobs", "delete_policy"}
Renaming == {"target_policies", "target_key", "target_update"}
Dropping == {"unused", "target_delete"}
Closing  == {"no_policy", "project_delete"}

\* The fields a request has set, and what it says it is about.
Filled(r) ==
  /\ r.step \in Posting \cup Putting \cup Closing => r.project \in Projects \cap r.about
  /\ r.step \in Posting \cup Putting \cup Renaming \cup Dropping =>
       r.target \in Targets \cap r.about
  /\ r.step \in Renaming \cup {"target_add"} => r.key \in Keys \cap r.about
  /\ r.step \in Changing => r.policy \in Policies

\* The policy of a request has a row, of a project that the request is about.
Belongs(r) ==
  /\ r.policy # None => policy[r.policy] # None
  /\ r.step \in Changing => policy[r.policy].project \in r.about
  /\ r.step \in Putting => policy[r.policy].project = r.project

NoPolicy(pr, t) == \A p \in Policies : Live(p) /\ policy[p].project = pr => policy[p].target # t

\* What the checks of a request have found, and what still holds while it is clean.
PostGrounds(r) ==
  /\ r.step \in Posting => r.project \in project
  /\ r.step \in {"post_pair", "post_add"} => target[r.target] # None
  /\ r.step = "post_add" => NoPolicy(r.project, r.target)

PutGrounds(r) ==
  /\ r.step = "put_target" => r.target # policy[r.policy].target
  /\ r.step \in Putting /\ r.target # policy[r.policy].target => ~policy[r.policy].enabled
  /\ r.step \in {"put_pair", "put_update"} /\ r.target # policy[r.policy].target =>
       target[r.target] # None
  /\ r.step = "put_update" /\ r.target # policy[r.policy].target =>
       NoPolicy(r.project, r.target)

ChangeGrounds(r) ==
  /\ r.step = "enablement" => policy[r.policy].target \in r.about
  /\ r.step \in {"delete_jobs", "delete_policy"} =>
       (policy[r.policy].enabled => policy[r.policy].partial)
  /\ r.step = "delete_policy" => r.policy \notin active

TargetGrounds(r) ==
  /\ r.step \in {"target_key", "target_update"} =>
       \A p \in Policies : Live(p) /\ policy[p].target = r.target => ~policy[p].enabled
  /\ r.step \in Renaming /\ r.was => target[r.target] = r.key
  /\ r.step = "target_update" /\ ~r.was => ~KeyUsed(r.key)
  /\ r.step = "target_add" => ~KeyUsed(r.key)
  /\ r.step = "target_delete" => \A p \in Policies : Live(p) => policy[p].target # r.target

ProjectGrounds(r) ==
  r.step = "project_delete" => \A p \in Policies : Live(p) => policy[p].project # r.project

Grounds(r) ==
  PostGrounds(r) /\ PutGrounds(r) /\ ChangeGrounds(r) /\ TargetGrounds(r) /\ ProjectGrounds(r)

\* Requests keep to their fields, and as long as nothing has raced those that are clean have
\* their grounds, policies their target and project, and pairs and names are unique.
IInv ==
  /\ TypeOK
  /\ \A o \in Requests : Filled(req[o]) /\ Belongs(req[o])
  /\ ~raced => \A o \in Requests : req[o].clean => Grounds(req[o])
  /\ NoOrphans
  /\ NoDuplicates

-----------------------------------------------------------------------------
(***************************************************************************)
(* The shapes of steps.                                                    *)
(***************************************************************************)
\* An idle request fits the invariant.
LEMMA IdleTyped == Idle \in RequestState /\ Filled(Idle) /\ Belongs(Idle) /\ Grounds(Idle)
BY DEF Idle, RequestState, Steps, Filled, Belongs, Grounds, PostGrounds, PutGrounds,
       ChangeGrounds, TargetGrounds, ProjectGrounds, Posting, Putting, Changing, Renaming,
       Dropping, Closing

\* The state of request r would do in the invariant.
Sound(r) ==
  /\ r \in RequestState /\ Filled(r) /\ Belongs(r)
  /\ ~raced /\ r.clean => Grounds(r)

\* The invariant seen from a request.
LEMMA RequestSound == ASSUME IInv, NEW o \in Requests PROVE Sound(req[o])
BY DEF IInv, Sound, TypeOK

\* Request o becomes r, the rest stays: the step of Begin and Check.
LEMMA Moves ==
  ASSUME IInv, NEW o \in Requests, NEW r, Sound(r),
         req' = [req EXCEPT ![o] = r], UNCHANGED <<rows, active, raced>>,
         triggers' \in SUBSET Policies, \A p \in triggers' : policy[p] # None,
         begun' \in 0..MaxRequests
  PROVE  IInv'
<1> USE DEF rows
<1>1. \A q \in Requests : req'[q] = IF q = o THEN r ELSE req[q]
  BY DEF IInv, TypeOK
<1>2. \A q \in Requests : /\ req'[q] \in RequestState /\ Filled(req'[q]) /\ Belongs(req'[q])
                          /\ ~raced /\ req'[q].clean => Grounds(req'[q])
  BY <1>1, RequestSound DEF Sound
<1>3. TypeOK'
  BY <1>2 DEF IInv, TypeOK, Belongs
<1>4. NoOrphans' /\ NoDuplicates'
  BY DEF IInv, NoOrphans, NoDuplicates, Live, Exists
<1>5. \A q \in Requests : Filled(req[q])' /\ Belongs(req[q])'
  BY <1>2 DEF Filled, Belongs
<1>6. ~raced' => \A q \in Requests : req'[q].clean => Grounds(req[q])'
  BY <1>2 DEF Grounds, PostGrounds, PutGrounds, ChangeGrounds, TargetGrounds, ProjectGrounds,
              NoPolicy, Live, Exists, KeyUsed
<1> QED
  BY <1>3, <1>4, <1>5, <1>6 DEF IInv

\* A request begins in a state that fits.
LEMMA BeginKeeps ==
  ASSUME IInv, NEW o \in Requests, NEW r, Begin(o, r), Sound(r)
  PROVE  IInv'
<1>1. begun' \in 0..MaxRequests
  BY ReplicationAssumption DEF Begin, IInv, TypeOK
<1>2. triggers' \in SUBSET Policies /\ \A p \in triggers' : policy[p] # None
  BY DEF Begin, jobs, IInv, TypeOK
<1> QED
  BY <1>1, <1>2, Moves DEF Begin, jobs

\* A check lets a request go on in a state that fits.
LEMMA CheckKeeps ==
  ASSUME IInv, NEW o \in Requests, NEW s, NEW allowed \in BOOLEAN, NEW next,
         Check(o, s, allowed, next),
         allowed => Sound([req[o] EXCEPT !.step = next])
  PROVE  IInv'
<1> DEFINE r == IF allowed THEN [req[o] EXCEPT !.step = next] ELSE Idle
<1>1. Sound(r)
  BY IdleTyped DEF Sound
<1>2. req' = [req EXCEPT ![o] = r]
  BY DEF Check, IInv, TypeOK
<1>3. triggers' \in SUBSET Policies /\ \A p \in triggers' : policy[p] # None
  BY DEF Check, jobs, IInv, TypeOK
<1>4. begun' \in 0..MaxRequests
  BY DEF Check, IInv, TypeOK
<1> HIDE DEF r
<1> QED
  BY <1>1, <1>2, <1>3, <1>4, Moves DEF Check, jobs

-----------------------------------------------------------------------------
(***************************************************************************)
(* Steps that begin a request or make one of its checks.                   *)
(***************************************************************************)
\* RepPolicyAPI.Post and PartialReplication begin with a project that is there.
LEMMA PostBegins ==
  ASSUME IInv, NEW o \in Requests, NEW pr \in Projects, NEW t \in Targets,
         NEW e \in BOOLEAN, NEW partial \in BOOLEAN, Post(o, pr, t, e, partial)
  PROVE  IInv'
<1> DEFINE r == [Idle EXCEPT !.step = "post_target", !.project = pr, !.target = t,
                             !.enabled = e, !.partial = partial, !.about = {pr, t}]
<1>1. Sound(r)
  BY DEF Post, Sound, Idle, RequestState, Steps, Filled, Belongs, Grounds, PostGrounds,
         PutGrounds, ChangeGrounds, TargetGrounds, ProjectGrounds, Posting, Putting, Changing,
         Renaming, Dropping, Closing
<1> QED
  BY <1>1, BeginKeeps DEF Post

\* RepPolicyAPI.Put begins: another target only for a policy that is disabled.
LEMMA PutBegins ==
  ASSUME IInv, NEW o \in Requests, NEW p \in Policies, NEW t \in Targets, NEW e \in BOOLEAN,
         Put(o, p, t, e)
  PROVE  IInv'
<1> DEFINE r == [Idle EXCEPT
                   !.step = IF t = policy[p].target THEN "put_update" ELSE "put_target",
                   !.policy = p, !.project = policy[p].project, !.target = t,
                   !.enabled = e, !.was = policy[p].enabled,
                   !.about = {policy[p].project, policy[p].target, t}]
<1>1. policy[p] \in PolicyRow /\ policy[p] # None
  BY DEF Put, Exists, IInv, TypeOK
<1>2. Sound(r)
  BY ZenonT(60), <1>1 DEF Put, PolicyRow, Sound, Idle, RequestState, Steps, Filled, Belongs, Grounds,
         PostGrounds, PutGrounds, ChangeGrounds, TargetGrounds, ProjectGrounds, Posting, Putting,
         Changing, Renaming, Dropping, Closing
<1> QED
  BY <1>2, BeginKeeps DEF Put

\* RepPolicyAPI.UpdateEnablement begins, about project and target of the policy.
LEMMA EnablementBegins ==
  ASSUME IInv, NEW o \in Requests, NEW p \in Policies, NEW e \in BOOLEAN,
         UpdateEnablement(o, p, e)
  PROVE  IInv'
<1> DEFINE r == [Idle EXCEPT !.step = "enablement", !.policy = p, !.enabled = e,
                             !.about = {policy[p].project, policy[p].target}]
<1>1. policy[p] \in PolicyRow /\ policy[p] # None
  BY DEF UpdateEnablement, Exists, IInv, TypeOK
<1>2. Sound(r)
  BY <1>1 DEF PolicyRow, Sound, Idle, RequestState, Steps, Filled, Belongs, Grounds,
         PostGrounds, PutGrounds, ChangeGrounds, TargetGrounds, ProjectGrounds, Posting, Putting,
         Changing, Renaming, Dropping, Closing
<1> QED
  BY <1>2, BeginKeeps DEF UpdateEnablement

\* RepPolicyAPI.Delete begins, not for a policy that is enabled and not partial.
LEMMA DeleteBegins ==
  ASSUME IInv, NEW o \in Requests, NEW p \in Policies, Delete(o, p)
  PROVE  IInv'
<1> DEFINE r == [Idle EXCEPT !.step = "delete_jobs", !.policy = p,
                             !.about = {policy[p].project, policy[p].target}]
<1>1. policy[p] \in PolicyRow /\ policy[p] # None
  BY DEF Delete, Live, Exists, IInv, TypeOK
<1>2. Sound(r)
  BY <1>1 DEF Delete, PolicyRow, Sound, Idle, RequestState, Steps, Filled, Belongs, Grounds,
         PostGrounds, PutGrounds, ChangeGrounds, TargetGrounds, ProjectGrounds, Posting, Putting,
         Changing, Renaming, Dropping, Closing
<1> QED
  BY <1>2, BeginKeeps DEF Delete

\* TargetAPI.Post begins with a name that is not used.
LEMMA TargetPostBegins ==
  ASSUME IInv, NEW o \in Requests, NEW k \in Keys, TargetPost(o, k)
  PROVE  IInv'
<1>1. Sound([Idle EXCEPT !.step = "target_add", !.key = k, !.about = {k}])
  BY DEF TargetPost, Sound, Idle, RequestState, Steps, Filled, Belongs, Grounds, PostGrounds,
         PutGrounds, ChangeGrounds, TargetGrounds, ProjectGrounds, Posting, Putting,
         Changing, Renaming, Dropping, Closing
<1> QED
  BY <1>1, BeginKeeps DEF TargetPost

\* TargetAPI.Put begins and notes whether the name stays.
LEMMA TargetPutBegins ==
  ASSUME IInv, NEW o \in Requests, NEW t \in Targets, NEW k \in Keys, TargetPut(o, t, k)
  PROVE  IInv'
<1>1. target[t] \in Keys
  BY DEF TargetPut, IInv, TypeOK
<1>2. Sound([Idle EXCEPT !.step = "target_policies", !.target = t, !.key = k,
                         !.was = (k = target[t]), !.about = {t, target[t], k}])
  BY <1>1 DEF Sound, Idle, RequestState, Steps, Filled, Belongs, Grounds, PostGrounds,
         PutGrounds, ChangeGrounds, TargetGrounds, ProjectGrounds, Posting, Putting,
         Changing, Renaming, Dropping, Closing
<1> QED
  BY <1>2, BeginKeeps DEF TargetPut

\* TargetAPI.Delete begins.
LEMMA TargetDeleteBegins ==
  ASSUME IInv, NEW o \in Requests, NEW t \in Targets, TargetDelete(o, t)
  PROVE  IInv'
<1>1. Sound([Idle EXCEPT !.step = "unused", !.target = t, !.about = {t}])
  BY DEF Sound, Idle, RequestState, Steps, Filled, Belongs, Grounds, PostGrounds,
         PutGrounds, ChangeGrounds, TargetGrounds, ProjectGrounds, Posting, Putting,
         Changing, Renaming, Dropping, Closing
<1> QED
  BY <1>1, BeginKeeps DEF TargetDelete

\* ProjectAPI.Delete begins.
LEMMA ProjectBegins ==
  ASSUME IInv, NEW o \in Requests, NEW pr \in Projects, ProjectDelete(o, pr)
  PROVE  IInv'
<1>1. Sound([Idle EXCEPT !.step = "no_policy", !.project = pr, !.about = {pr}])
  BY DEF Sound, Idle, RequestState, Steps, Filled, Belongs, Grounds, PostGrounds,
         PutGrounds, ChangeGrounds, TargetGrounds, ProjectGrounds, Posting, Putting,
         Changing, Renaming, Dropping, Closing
<1> QED
  BY <1>1, BeginKeeps DEF ProjectDelete

\* A request that goes on after a check of policies.
LEMMA PolicyChecks ==
  ASSUME IInv, NEW o \in Requests,
         PostTarget(o) \/ PostPair(o) \/ PutTarget(o) \/ PutPair(o) \/ DeleteJobs(o)
  PROVE  IInv'
<1> DEFINE To(next) == [req[o] EXCEPT !.step = next]
<1>0. Sound(req[o])
  BY RequestSound
<1> USE DEF Sound, RequestState, Steps, Filled, Belongs, Grounds, PostGrounds,
            PutGrounds, ChangeGrounds, TargetGrounds, ProjectGrounds, Posting, Putting,
            Changing, Renaming, Dropping, Closing
<1>1. CASE PostTarget(o)
  <2>1. target[req[o].target] # None => Sound(To("post_pair"))
    BY <1>0, <1>1 DEF PostTarget, Check, At
  <2> HIDE DEF Sound
  <2> QED
    BY <1>1, <2>1, CheckKeeps DEF PostTarget
<1>2. CASE PostPair(o)
  <2>1. Others(o) = {} => Sound(To("post_add"))
    BY <1>0, <1>2 DEF PostPair, Check, At, Others, GetRepPolicyByProjectAndTarget,
                      GetRepPolicyByProject, GetRepPolicyByTarget, NoPolicy
  <2> HIDE DEF Sound
  <2> QED
    BY <1>2, <2>1, CheckKeeps DEF PostPair
<1>3. CASE PutTarget(o)
  <2>1. target[req[o].target] # None => Sound(To("put_pair"))
    BY <1>0, <1>3 DEF PutTarget, Check, At
  <2> HIDE DEF Sound
  <2> QED
    BY <1>3, <2>1, CheckKeeps DEF PutTarget
<1>4. CASE PutPair(o)
  <2>1. Others(o) = {} => Sound(To("put_update"))
    BY <1>0, <1>4 DEF PutPair, Check, At, Others, GetRepPolicyByProjectAndTarget,
                      GetRepPolicyByProject, GetRepPolicyByTarget, NoPolicy
  <2> HIDE DEF Sound
  <2> QED
    BY <1>4, <2>1, CheckKeeps DEF PutPair
<1>5. CASE DeleteJobs(o)
  <2>1. req[o].policy \notin active => Sound(To("delete_policy"))
    BY <1>0, <1>5 DEF DeleteJobs, Check, At
  <2> HIDE DEF Sound
  <2> QED
    BY <1>5, <2>1, CheckKeeps DEF DeleteJobs
<1> QED
  BY <1>1, <1>2, <1>3, <1>4, <1>5

\* The same for targets and projects.
LEMMA TargetChecks ==
  ASSUME IInv, NEW o \in Requests,
         TargetPolicies(o) \/ TargetKey(o) \/ TargetUnused(o) \/ ProjectContainsPolicy(o)
  PROVE  IInv'
<1> DEFINE To(next) == [req[o] EXCEPT !.step = next]
<1>0. Sound(req[o])
  BY RequestSound
<1> USE DEF Sound, RequestState, Steps, Filled, Belongs, Grounds, PostGrounds,
            PutGrounds, ChangeGrounds, TargetGrounds, ProjectGrounds, Posting, Putting,
            Changing, Renaming, Dropping, Closing
<1>1. CASE TargetPolicies(o)
  <2> DEFINE unused == \A p \in GetRepPolicyByTarget(req[o].target) : ~policy[p].enabled
  <2>1. unused => Sound(To(AfterPolicies(o)))
    <3>1. req[o].was \in BOOLEAN
      BY <1>0
    <3>2. CASE req[o].was
      BY <1>0, <1>1, <3>2 DEF TargetPolicies, Check, At, AfterPolicies, GetRepPolicyByTarget
    <3>3. CASE ~req[o].was
      BY <1>0, <1>1, <3>3 DEF TargetPolicies, Check, At, AfterPolicies, GetRepPolicyByTarget
    <3> QED
      BY <3>1, <3>2, <3>3
  <2>2. Check(o, "target_policies", unused, AfterPolicies(o))
    BY <1>1 DEF TargetPolicies
  <2> HIDE DEF Sound, unused
  <2>3. unused \in BOOLEAN
    BY DEF unused
  <2> QED
    BY <2>1, <2>2, <2>3, CheckKeeps
<1>2. CASE TargetKey(o)
  <2>1. ~KeyUsed(req[o].key) => Sound(To("target_update"))
    BY <1>0, <1>2 DEF TargetKey, Check, At
  <2>2. (~KeyUsed(req[o].key)) \in BOOLEAN
    BY DEF KeyUsed
  <2> HIDE DEF Sound
  <2> QED
    BY <1>2, <2>1, <2>2, CheckKeeps DEF TargetKey
<1>3. CASE TargetUnused(o)
  <2>1. GetRepPolicyByTarget(req[o].target) = {} => Sound(To("target_delete"))
    BY <1>0, <1>3 DEF TargetUnused, Check, At, GetRepPolicyByTarget
  <2> HIDE DEF Sound
  <2> QED
    BY <1>3, <2>1, CheckKeeps DEF TargetUnused
<1>4. CASE ProjectContainsPolicy(o)
  <2>1. GetRepPolicyByProject(req[o].project) = {} => Sound(To("project_delete"))
    BY <1>0, <1>4 DEF ProjectContainsPolicy, Check, At, GetRepPolicyByProject
  <2> HIDE DEF Sound
  <2> QED
    BY <1>4, <2>1, CheckKeeps DEF ProjectContainsPolicy
<1> QED
  BY <1>1, <1>2, <1>3, <1>4

-----------------------------------------------------------------------------
(***************************************************************************)
(* Steps that make a change.  Of the other requests only clean may change, *)
(* and those that stay clean are about something else.                     *)
(***************************************************************************)
\* Of request q only clean may change.
Kept(q) ==
  /\ req'[q].step = req[q].step /\ req'[q].project = req[q].project
  /\ req'[q].target = req[q].target /\ req'[q].key = req[q].key
  /\ req'[q].policy = req[q].policy /\ req'[q].enabled = req[q].enabled
  /\ req'[q].was = req[q].was /\ req'[q].partial = req[q].partial
  /\ req'[q].about = req[q].about

\* What a change of request o does to the requests.
LEMMA OthersKept ==
  ASSUME IInv, NEW o \in Requests, NEW s, Change(o, s)
  PROVE  /\ req' \in [Requests -> RequestState]
         /\ req'[o] = Idle /\ req[o].step = s
         /\ \A q \in Requests \ {o} : Kept(q)
         /\ \A q \in Requests \ {o} :
              req'[q].clean => req[q].clean /\ req[q].about \cap req[o].about = {}
         /\ raced' \in BOOLEAN
         /\ ~raced' => ~raced /\ req[o].clean
         /\ begun' \in 0..MaxRequests
<1> DEFINE new(q) == [req[q] EXCEPT !.clean = @ /\ req[q].about \cap req[o].about = {}]
<1>1. \A q \in Requests : req[q] \in RequestState
  BY DEF IInv, TypeOK
<1>2. \A q \in Requests : new(q) \in RequestState
  BY <1>1 DEF RequestState
<1>3. \A q \in Requests : req'[q] = IF q = o THEN Idle ELSE new(q)
  BY DEF Change
<1>4. req' = [q \in Requests |-> IF q = o THEN Idle ELSE new(q)]
  BY DEF Change
<1>5. \A q \in Requests \ {o} : Kept(q)
  BY ZenonT(60), <1>1, <1>3 DEF Kept, RequestState
<1>6. \A q \in Requests \ {o} :
              req'[q].clean => req[q].clean /\ req[q].about \cap req[o].about = {}
  BY <1>1, <1>3 DEF RequestState
<1>7. req' \in [Requests -> RequestState]
  <2> HIDE DEF new
  <2> QED
    BY <1>2, <1>4, IdleTyped
<1>8. raced' \in BOOLEAN /\ (~raced' => ~raced /\ req[o].clean) /\ begun' \in 0..MaxRequests
  BY DEF Change, IInv, TypeOK
<1> QED
  BY <1>3, <1>5, <1>6, <1>7, <1>8 DEF Change, At

\* Rows of policies stay, with their project.
RowsStay ==
  \A p \in Policies : policy[p] # None => policy'[p] # None
                                          /\ policy'[p].project = policy[p].project

\* What is left to show for a change of request o.
LEMMA ChangeKeeps ==
  ASSUME IInv, NEW o \in Requests, NEW s, Change(o, s),
         project' \in SUBSET Projects, target' \in [Targets -> Keys \cup {None}],
         policy' \in [Policies -> PolicyRow \cup {None}], RowsStay,
         active' = active, triggers' \in SUBSET Policies,
         \A p \in triggers' \ triggers : policy'[p] # None,
         NoOrphans', NoDuplicates',
         ~raced' => \A q \in Requests \ {o} : req'[q].clean => Grounds(req[q])'
  PROVE  IInv'
<1>1. /\ req' \in [Requests -> RequestState] /\ req'[o] = Idle
      /\ \A q \in Requests \ {o} : Kept(q)
      /\ raced' \in BOOLEAN /\ begun' \in 0..MaxRequests
  BY OthersKept
<1>2. \A q \in Requests \ {o} : Filled(req[q])'
  BY <1>1 DEF Kept, IInv, Filled
<1>3. \A q \in Requests \ {o} : Belongs(req[q])'
  <2> SUFFICES ASSUME NEW q \in Requests \ {o} PROVE Belongs(req[q])'
    OBVIOUS
  <2>1. req[q].policy \in Policies \cup {None} /\ Belongs(req[q]) /\ Filled(req[q])
    BY DEF IInv, TypeOK, RequestState
  <2> QED
    BY <1>1, <2>1, ReplicationAssumption DEF Kept, Belongs, Filled, RowsStay, Changing
<1>4. Filled(req[o])' /\ Belongs(req[o])' /\ Grounds(req[o])'
  BY <1>1 DEF Idle, Filled, Belongs, Grounds, PostGrounds, PutGrounds,
       ChangeGrounds, TargetGrounds, ProjectGrounds, Posting, Putting, Changing, Renaming,
       Dropping, Closing
<1>5. \A q \in Requests : req'[q].policy # None => policy'[req'[q].policy] # None
  BY <1>3, <1>4 DEF Belongs
<1>6. \A p \in active' \cup triggers' : policy'[p] # None
  BY DEF IInv, TypeOK, RowsStay
<1>7. TypeOK'
  BY <1>1, <1>5, <1>6 DEF IInv, TypeOK
<1> QED
  BY <1>2, <1>3, <1>4, <1>7 DEF IInv

\* Facts about a request q that stays clean while o makes its change.
LEMMA Bystander ==
  ASSUME IInv, NEW o \in Requests, NEW s, Change(o, s), ~raced',
         NEW q \in Requests \ {o}, req'[q].clean
  PROVE  /\ Kept(q) /\ Filled(req[q]) /\ Belongs(req[q]) /\ Grounds(req[q])
         /\ req[q].about \cap req[o].about = {}
         /\ req[q].policy \in Policies \cup {None}
         /\ Filled(req[o]) /\ Belongs(req[o]) /\ Grounds(req[o])
<1>1. ~raced /\ req[q].clean /\ req[o].clean
  BY OthersKept
<1> QED
  BY <1>1, OthersKept DEF IInv, TypeOK, RequestState

-----------------------------------------------------------------------------
\* AddRepPolicy: a new row, for a pair that no clean request counts on.
LEMMA PostAddKeeps ==
  ASSUME IInv, NEW o \in Requests, NEW p \in Policies, PostAdd(o, p)
  PROVE  IInv'
<1> DEFINE r == req[o]
           new == [project |-> r.project, target |-> r.target, enabled |-> r.enabled,
                   partial |-> r.partial, deleted |-> FALSE]
<1>1. Change(o, "post_add") /\ policy[p] = None /\ policy' = [policy EXCEPT ![p] = new]
      /\ UNCHANGED <<project, target, active>>
      /\ triggers' \in {triggers, triggers \cup {p}}
  BY DEF PostAdd, Exists
<1>2. r.step = "post_add" /\ r \in RequestState /\ Filled(r)
  BY <1>1, RequestSound DEF Sound, Change, At
<1>3. new \in PolicyRow /\ new # None
  <2>1. new \in PolicyRow
    BY <1>2 DEF RequestState, Filled, PolicyRow, Posting
  <2> QED
    BY <2>1, ReplicationAssumption
<1>4. \A x \in Policies : policy'[x] = IF x = p THEN new ELSE policy[x]
  BY <1>1 DEF IInv, TypeOK
<1>5. policy' \in [Policies -> PolicyRow \cup {None}]
  BY <1>1, <1>3 DEF IInv, TypeOK
<1>6. ~raced' => Grounds(r)
  BY <1>1, OthersKept DEF IInv
<1>n. /\ new.project = r.project /\ new.target = r.target /\ new.enabled = r.enabled
      /\ new.partial = r.partial /\ new.deleted = FALSE
  OBVIOUS
<1> HIDE DEF new
<1>7. NoOrphans'
  BY <1>1, <1>2, <1>4, <1>6, <1>n, OthersKept
     DEF IInv, NoOrphans, Live, Exists, Grounds, PostGrounds, Posting
<1>8. NoDuplicates'
  BY <1>1, <1>2, <1>4, <1>6, <1>n, OthersKept
     DEF IInv, NoDuplicates, Live, Exists, Grounds, PostGrounds, Posting, NoPolicy
<1>9. ASSUME ~raced', NEW q \in Requests \ {o}, req'[q].clean
      PROVE  Grounds(req[q])'
  <2>1. /\ Kept(q) /\ Filled(req[q]) /\ Belongs(req[q]) /\ Grounds(req[q])
        /\ req[q].about \cap r.about = {}
    BY <1>1, <1>9, Bystander
  <2>2. r.project \in r.about /\ r.target \in r.about
    BY <1>2 DEF Filled, Posting
  <2>3. req[q].step \in Changing => req[q].policy # p
    BY <1>1, <2>1, ReplicationAssumption DEF Belongs, Filled
  <2>4. PostGrounds(req[q])'
    BY <1>1, <1>4, <1>n, <2>1, <2>2
       DEF Kept, Filled, Grounds, PostGrounds, NoPolicy, Live, Exists, Posting
  <2>5. PutGrounds(req[q])' /\ ChangeGrounds(req[q])'
    BY <1>1, <1>4, <1>n, <2>1, <2>2, <2>3
       DEF Kept, Filled, Belongs, Grounds, PutGrounds, ChangeGrounds, NoPolicy, Live, Exists,
           Putting, Changing
  <2>6. TargetGrounds(req[q])'
    BY <1>1, <1>4, <1>n, <2>1, <2>2
       DEF Kept, Filled, Grounds, TargetGrounds, Live, Exists, KeyUsed, Renaming, Dropping
  <2>7. ProjectGrounds(req[q])'
    BY <1>1, <1>4, <1>n, <2>1, <2>2
       DEF Kept, Filled, Grounds, ProjectGrounds, Live, Exists, Closing
  <2> QED
    BY <2>4, <2>5, <2>6, <2>7 DEF Grounds
<1>10. RowsStay /\ triggers' \in SUBSET Policies /\ \A x \in triggers' \ triggers : policy'[x] # None
  BY <1>1, <1>3, <1>4 DEF RowsStay, IInv, TypeOK
<1> QED
  BY <1>1, <1>5, <1>7, <1>8, <1>9, <1>10, ChangeKeeps DEF IInv, TypeOK

\* The row of a policy that a request is about, before and after a change to new.
LEMMA RowChanges ==
  ASSUME IInv, NEW o \in Requests, NEW s \in Changing, Change(o, s),
         NEW new \in PolicyRow, policy' = [policy EXCEPT ![req[o].policy] = new],
         new.project = policy[req[o].policy].project
  PROVE  /\ req[o].policy \in Policies /\ policy[req[o].policy] \in PolicyRow
         /\ policy[req[o].policy] # None /\ new # None
         /\ policy[req[o].policy].project \in req[o].about
         /\ policy' \in [Policies -> PolicyRow \cup {None}]
         /\ \A x \in Policies : policy'[x] = IF x = req[o].policy THEN new ELSE policy[x]
         /\ RowsStay
         /\ ~raced' => Grounds(req[o])
<1>1. req[o].step = s /\ Filled(req[o]) /\ Belongs(req[o])
  BY RequestSound DEF Sound, Change, At
<1>2. req[o].policy \in Policies
  BY <1>1 DEF Filled
<1>3. req[o].policy # None /\ new # None
  BY <1>2, ReplicationAssumption
<1>4. policy[req[o].policy] # None /\ policy[req[o].policy].project \in req[o].about
  BY <1>1, <1>3 DEF Belongs
<1>5. policy \in [Policies -> PolicyRow \cup {None}]
  BY DEF IInv, TypeOK
<1>6. \A x \in Policies : policy'[x] = IF x = req[o].policy THEN new ELSE policy[x]
  BY <1>5
<1>7. RowsStay
  BY <1>3, <1>6 DEF RowsStay
<1>8. ~raced' => Grounds(req[o])
  BY OthersKept DEF IInv
<1> QED
  BY <1>2, <1>3, <1>4, <1>5, <1>6, <1>7, <1>8

\* A request that has the same policy is about the same project, and so is not clean.
LEMMA OtherPolicy ==
  ASSUME IInv, NEW o \in Requests, NEW s \in Changing, Change(o, s), ~raced',
         policy[req[o].policy].project \in req[o].about,
         NEW q \in Requests \ {o}, req'[q].clean, req[q].step \in Changing
  PROVE  req[q].policy \in Policies /\ req[q].policy # req[o].policy
<1>1. Filled(req[q]) /\ Belongs(req[q]) /\ req[q].about \cap req[o].about = {}
  BY Bystander
<1> QED
  BY <1>1 DEF Filled, Belongs

\* UpdateRepPolicy: to a new target only under the grounds of a new policy.
LEMMA PutUpdateKeeps ==
  ASSUME IInv, NEW o \in Requests, PutUpdate(o)
  PROVE  IInv'
<1> DEFINE r == req[o]
           p == r.policy
           new == [policy[p] EXCEPT !.target = r.target, !.enabled = r.enabled]
<1>1. /\ Change(o, "put_update") /\ UNCHANGED <<project, target, active>>
      /\ triggers' \in {triggers, triggers \cup {p}}
  BY DEF PutUpdate
<1>2. r.step = "put_update" /\ r \in RequestState /\ Filled(r) /\ Belongs(r)
  BY <1>1, RequestSound DEF Sound, Change, At
<1>3. p \in Policies /\ p # None /\ r.target \in Targets \cap r.about /\ r.enabled \in BOOLEAN
      /\ r.project \in r.about /\ r.project = policy[p].project
  BY <1>2, ReplicationAssumption DEF Filled, RequestState, Putting, Changing, Belongs
<1>4. policy[p] \in PolicyRow
  BY <1>2, <1>3 DEF Belongs, IInv, TypeOK
<1>5. new \in PolicyRow
  BY <1>3, <1>4 DEF PolicyRow
<1>6. /\ new.project = policy[p].project /\ new.target = r.target
      /\ new.enabled = r.enabled /\ new.partial = policy[p].partial
      /\ new.deleted = policy[p].deleted
  BY <1>4 DEF PolicyRow
<1>7. policy' = [policy EXCEPT ![p] = new]
  BY <1>3 DEF PutUpdate, IInv, TypeOK
<1> HIDE DEF new
<1>8. /\ policy[p] # None /\ new # None
      /\ policy' \in [Policies -> PolicyRow \cup {None}]
      /\ \A x \in Policies : policy'[x] = IF x = p THEN new ELSE policy[x]
      /\ RowsStay
      /\ ~raced' => Grounds(r)
  BY <1>1, <1>5, <1>6, <1>7, RowChanges DEF Changing, Putting
<1>9. NoOrphans'
  BY <1>1, <1>2, <1>3, <1>6, <1>8, OthersKept
     DEF IInv, NoOrphans, Live, Exists, Grounds, PutGrounds
<1>10. NoDuplicates'
  BY <1>1, <1>2, <1>3, <1>6, <1>8, OthersKept
     DEF IInv, NoDuplicates, Live, Exists, Grounds, PutGrounds, NoPolicy
<1>11. ASSUME ~raced', NEW q \in Requests \ {o}, req'[q].clean
       PROVE  Grounds(req[q])'
  <2>1. /\ Kept(q) /\ Filled(req[q]) /\ Belongs(req[q]) /\ Grounds(req[q])
        /\ req[q].about \cap r.about = {}
    BY <1>1, <1>11, Bystander
  <2>2. req[q].step \in Changing => req[q].policy \in Policies /\ req[q].policy # p
    BY <1>1, <1>3, <1>11, OtherPolicy DEF Changing, Putting
  <2>3. PostGrounds(req[q])'
    BY <1>1, <1>3, <1>6, <1>8, <2>1
       DEF Kept, Filled, Grounds, PostGrounds, NoPolicy, Live, Exists, Posting
  <2>4. PutGrounds(req[q])' /\ ChangeGrounds(req[q])'
    BY <1>1, <1>3, <1>6, <1>8, <2>1, <2>2
       DEF Kept, Filled, Belongs, Grounds, PutGrounds, ChangeGrounds, NoPolicy, Live, Exists,
           Putting, Changing
  <2>5. TargetGrounds(req[q])'
    BY <1>1, <1>3, <1>6, <1>8, <2>1
       DEF Kept, Filled, Grounds, TargetGrounds, Live, Exists, KeyUsed, Renaming, Dropping
  <2>6. ProjectGrounds(req[q])'
    BY <1>1, <1>3, <1>6, <1>8, <2>1
       DEF Kept, Filled, Grounds, ProjectGrounds, Live, Exists, Closing
  <2> QED
    BY <2>3, <2>4, <2>5, <2>6 DEF Grounds
<1>12. triggers' \in SUBSET Policies /\ \A x \in triggers' \ triggers : policy'[x] # None
  BY <1>1, <1>3, <1>8 DEF IInv, TypeOK
<1> QED
  BY <1>1, <1>8, <1>9, <1>10, <1>11, <1>12, ChangeKeeps DEF IInv, TypeOK

\* UpdateRepPolicyEnablement: those who count on the policy being disabled notice.
LEMMA EnablementKeeps ==
  ASSUME IInv, NEW o \in Requests, UpdateRepPolicyEnablement(o)
  PROVE  IInv'
<1> DEFINE r == req[o]
           p == r.policy
           new == [policy[p] EXCEPT !.enabled = r.enabled]
<1>1. /\ Change(o, "enablement") /\ UNCHANGED <<project, target, active>>
      /\ triggers' \in {triggers, triggers \cup {p}}
  BY DEF UpdateRepPolicyEnablement
<1>2. r.step = "enablement" /\ r \in RequestState /\ Filled(r) /\ Belongs(r)
  BY <1>1, RequestSound DEF Sound, Change, At
<1>3. p \in Policies /\ p # None /\ r.enabled \in BOOLEAN /\ policy[p].project \in r.about
  BY <1>2, ReplicationAssumption DEF Filled, RequestState, Changing, Belongs
<1>4. policy[p] \in PolicyRow
  BY <1>2, <1>3 DEF Belongs, IInv, TypeOK
<1>5. new \in PolicyRow
  BY <1>3, <1>4 DEF PolicyRow
<1>6. /\ new.project = policy[p].project /\ new.target = policy[p].target
      /\ new.enabled = r.enabled /\ new.partial = policy[p].partial
      /\ new.deleted = policy[p].deleted
  BY <1>4 DEF PolicyRow
<1>7. policy' = [policy EXCEPT ![p] = new]
  BY <1>3 DEF UpdateRepPolicyEnablement, IInv, TypeOK
<1> HIDE DEF new
<1>8. /\ policy[p] # None /\ new # None
      /\ policy' \in [Policies -> PolicyRow \cup {None}]
      /\ \A x \in Policies : policy'[x] = IF x = p THEN new ELSE policy[x]
      /\ RowsStay
      /\ ~raced' => Grounds(r)
  BY <1>1, <1>5, <1>6, <1>7, RowChanges DEF Changing
<1>9. NoOrphans' /\ NoDuplicates'
  BY <1>1, <1>3, <1>6, <1>8, OthersKept DEF IInv, NoOrphans, NoDuplicates, Live, Exists
<1>11. ASSUME ~raced', NEW q \in Requests \ {o}, req'[q].clean
       PROVE  Grounds(req[q])'
  <2>1. /\ Kept(q) /\ Filled(req[q]) /\ Belongs(req[q]) /\ Grounds(req[q])
        /\ req[q].about \cap r.about = {}
    BY <1>1, <1>11, Bystander
  <2>2. req[q].step \in Changing => req[q].policy \in Policies /\ req[q].policy # p
    BY <1>1, <1>3, <1>11, OtherPolicy DEF Changing
  <2>3. PostGrounds(req[q])' /\ ProjectGrounds(req[q])'
    BY <1>1, <1>6, <1>8, <2>1
       DEF Kept, Filled, Grounds, PostGrounds, ProjectGrounds, NoPolicy, Live, Exists
  <2>4. PutGrounds(req[q])' /\ ChangeGrounds(req[q])'
    BY <1>1, <1>6, <1>8, <2>1, <2>2
       DEF Kept, Filled, Belongs, Grounds, PutGrounds, ChangeGrounds, NoPolicy, Live, Exists,
           Putting, Changing
  <2>5. policy[p].target \in r.about
    BY <1>2, <1>8, <1>11 DEF Grounds, ChangeGrounds
  <2>6. TargetGrounds(req[q])'
    BY <1>1, <1>6, <1>8, <2>1, <2>5
       DEF Kept, Filled, Grounds, TargetGrounds, Live, Exists, KeyUsed, Renaming, Dropping
  <2> QED
    BY <2>3, <2>4, <2>6 DEF Grounds
<1>12. triggers' \in SUBSET Policies /\ \A x \in triggers' \ triggers : policy'[x] # None
  BY <1>1, <1>3, <1>8 DEF IInv, TypeOK
<1> QED
  BY <1>1, <1>8, <1>9, <1>11, <1>12, ChangeKeeps DEF IInv, TypeOK

\* DeleteRepPolicy: nobody counts on a policy being there.
LEMMA DeleteRepPolicyKeeps ==
  ASSUME IInv, NEW o \in Requests, DeleteRepPolicy(o)
  PROVE  IInv'
<1> DEFINE r == req[o]
           p == r.policy
           new == [policy[p] EXCEPT !.deleted = TRUE]
<1>1. Change(o, "delete_policy") /\ UNCHANGED <<project, target, jobs>>
  BY DEF DeleteRepPolicy
<1>2. r.step = "delete_policy" /\ Filled(r) /\ Belongs(r)
  BY <1>1, RequestSound DEF Sound, Change, At
<1>3. p \in Policies /\ p # None
  BY <1>2, ReplicationAssumption DEF Filled, Changing
<1>4. policy[p] \in PolicyRow /\ policy[p].project \in r.about
  BY <1>2, <1>3 DEF Belongs, IInv, TypeOK, Changing
<1>5. new \in PolicyRow
  BY <1>4 DEF PolicyRow
<1>6. /\ new.project = policy[p].project /\ new.target = policy[p].target
      /\ new.enabled = policy[p].enabled /\ new.partial = policy[p].partial
      /\ new.deleted
  BY <1>4 DEF PolicyRow
<1>7. policy' = [policy EXCEPT ![p] = new]
  BY <1>3 DEF DeleteRepPolicy, IInv, TypeOK
<1> HIDE DEF new
<1>8. /\ policy[p] # None /\ new # None
      /\ policy' \in [Policies -> PolicyRow \cup {None}]
      /\ \A x \in Policies : policy'[x] = IF x = p THEN new ELSE policy[x]
      /\ RowsStay
  BY <1>1, <1>5, <1>6, <1>7, RowChanges DEF Changing
<1>9. NoOrphans' /\ NoDuplicates'
  BY <1>1, <1>3, <1>6, <1>8, OthersKept DEF IInv, NoOrphans, NoDuplicates, Live, Exists
<1>11. ASSUME ~raced', NEW q \in Requests \ {o}, req'[q].clean
       PROVE  Grounds(req[q])'
  <2>1. /\ Kept(q) /\ Filled(req[q]) /\ Belongs(req[q]) /\ Grounds(req[q])
        /\ req[q].about \cap r.about = {}
    BY <1>1, <1>11, Bystander
  <2>2. req[q].step \in Changing => req[q].policy \in Policies /\ req[q].policy # p
    BY <1>1, <1>4, <1>11, OtherPolicy DEF Changing
  <2>3. PostGrounds(req[q])' /\ ProjectGrounds(req[q])'
    BY <1>1, <1>6, <1>8, <2>1
       DEF Kept, Filled, Grounds, PostGrounds, ProjectGrounds, NoPolicy, Live, Exists
  <2>4. PutGrounds(req[q])' /\ ChangeGrounds(req[q])'
    BY <1>1, <1>6, <1>8, <2>1, <2>2
       DEF Kept, Filled, Belongs, Grounds, PutGrounds, ChangeGrounds, NoPolicy, Live, Exists,
           Putting, Changing, jobs
  <2>6. TargetGrounds(req[q])'
    BY <1>1, <1>6, <1>8, <2>1
       DEF Kept, Filled, Grounds, TargetGrounds, Live, Exists, KeyUsed, Renaming, Dropping
  <2> QED
    BY <2>3, <2>4, <2>6 DEF Grounds
<1> QED
  BY <1>1, <1>8, <1>9, <1>11, ChangeKeeps DEF IInv, TypeOK, jobs

\* AddRepTarget: a name that is not used.  Changes of targets and projects leave the
\* policies alone.
LEMMA AddRepTargetKeeps ==
  ASSUME IInv, NEW o \in Requests, NEW t \in Targets, AddRepTarget(o, t)
  PROVE  IInv'
<1> DEFINE r == req[o]
<1>1. /\ Change(o, "target_add") /\ UNCHANGED <<project, policy, jobs>>
      /\ target[t] = None /\ target' = [target EXCEPT ![t] = r.key]
  BY DEF AddRepTarget
<1>2. r.step = "target_add" /\ Filled(r)
  BY <1>1, RequestSound DEF Sound, Change, At
<1>3. r.key \in Keys \cap r.about /\ r.key # None
  BY <1>2, ReplicationAssumption DEF Filled
<1>4. target' \in [Targets -> Keys \cup {None}]
      /\ \A x \in Targets : target'[x] = IF x = t THEN r.key ELSE target[x]
  BY <1>1, <1>3 DEF IInv, TypeOK
<1>5. ~raced' => Grounds(r)
  BY <1>1, OthersKept DEF IInv
<1>6. \A p \in Policies : Live(p) => policy[p].target \in Targets
  BY DEF IInv, TypeOK, PolicyRow, Live, Exists
<1>7. NoOrphans'
  BY <1>1, <1>3, <1>4, <1>6, OthersKept DEF IInv, NoOrphans, Live, Exists
<1>8. NoDuplicates'
  BY <1>1, <1>2, <1>4, <1>5, OthersKept
     DEF IInv, NoDuplicates, Live, Exists, Grounds, TargetGrounds, KeyUsed
<1>9. ASSUME ~raced', NEW q \in Requests \ {o}, req'[q].clean
      PROVE  Grounds(req[q])'
  <2>1. /\ Kept(q) /\ Filled(req[q]) /\ Grounds(req[q]) /\ req[q].about \cap r.about = {}
    BY <1>1, <1>9, Bystander
  <2>2. PostGrounds(req[q])' /\ PutGrounds(req[q])'
    BY <1>1, <1>3, <1>4, <2>1
       DEF Kept, Filled, Grounds, PostGrounds, PutGrounds, NoPolicy, Live, Exists, Posting, Putting
  <2>3. ChangeGrounds(req[q])' /\ ProjectGrounds(req[q])'
    BY <1>1, <2>1 DEF Kept, Grounds, ChangeGrounds, ProjectGrounds, Live, Exists, jobs
  <2>4. TargetGrounds(req[q])'
    BY <1>1, <1>3, <1>4, <2>1, ReplicationAssumption
       DEF Kept, Filled, Grounds, TargetGrounds, Live, Exists, KeyUsed, Renaming, Dropping
  <2> QED
    BY <2>2, <2>3, <2>4 DEF Grounds
<1>10. RowsStay
  BY <1>1 DEF RowsStay
<1> QED
  BY <1>1, <1>4, <1>7, <1>8, <1>9, <1>10, ChangeKeeps DEF IInv, TypeOK, jobs

\* UpdateRepTarget: a name that stays or that is not used.
LEMMA TargetUpdateKeeps ==
  ASSUME IInv, NEW o \in Requests, TargetUpdate(o)
  PROVE  IInv'
<1> DEFINE r == req[o]
<1>1. /\ Change(o, "target_update") /\ UNCHANGED <<project, policy, jobs>>
      /\ target' = [target EXCEPT ![r.target] = IF @ = None THEN None ELSE r.key]
  BY DEF TargetUpdate
<1>2. r.step = "target_update" /\ Filled(r) /\ r.was \in BOOLEAN
  BY <1>1, RequestSound DEF Sound, Change, At, RequestState
<1>3. r.key \in Keys \cap r.about /\ r.key # None /\ r.target \in Targets \cap r.about
  BY <1>2, ReplicationAssumption DEF Filled, Renaming
<1>4. /\ target' \in [Targets -> Keys \cup {None}]
      /\ \A x \in Targets : target'[x] = IF x = r.target /\ target[x] # None THEN r.key
                                         ELSE target[x]
  BY <1>1, <1>3 DEF IInv, TypeOK
<1>5. ~raced' => Grounds(r)
  BY <1>1, OthersKept DEF IInv
<1>6. \A p \in Policies : Live(p) => policy[p].target \in Targets
  BY DEF IInv, TypeOK, PolicyRow, Live, Exists
<1>7. NoOrphans'
  BY <1>1, <1>3, <1>4, <1>6, OthersKept DEF IInv, NoOrphans, Live, Exists
<1>8. NoDuplicates'
  BY <1>1, <1>2, <1>3, <1>4, <1>5, OthersKept
     DEF IInv, NoDuplicates, Live, Exists, Grounds, TargetGrounds, KeyUsed, Renaming
<1>9. ASSUME ~raced', NEW q \in Requests \ {o}, req'[q].clean
      PROVE  Grounds(req[q])'
  <2>1. /\ Kept(q) /\ Filled(req[q]) /\ Grounds(req[q]) /\ req[q].about \cap r.about = {}
    BY <1>1, <1>9, Bystander
  <2>2. PostGrounds(req[q])' /\ PutGrounds(req[q])'
    BY <1>1, <1>3, <1>4, <2>1
       DEF Kept, Filled, Grounds, PostGrounds, PutGrounds, NoPolicy, Live, Exists, Posting, Putting
  <2>3. ChangeGrounds(req[q])' /\ ProjectGrounds(req[q])'
    BY <1>1, <2>1 DEF Kept, Grounds, ChangeGrounds, ProjectGrounds, Live, Exists, jobs
  <2>4. TargetGrounds(req[q])'
    BY <1>1, <1>3, <1>4, <2>1, ReplicationAssumption
       DEF Kept, Filled, Grounds, TargetGrounds, Live, Exists, KeyUsed, Renaming, Dropping
  <2> QED
    BY <2>2, <2>3, <2>4 DEF Grounds
<1>10. RowsStay
  BY <1>1 DEF RowsStay
<1> QED
  BY <1>1, <1>4, <1>7, <1>8, <1>9, <1>10, ChangeKeeps DEF IInv, TypeOK, jobs

\* DeleteRepTarget: no policy has the target.
LEMMA DeleteRepTargetKeeps ==
  ASSUME IInv, NEW o \in Requests, DeleteRepTarget(o)
  PROVE  IInv'
<1> DEFINE r == req[o]
<1>1. /\ Change(o, "target_delete") /\ UNCHANGED <<project, policy, jobs>>
      /\ target' = [target EXCEPT ![r.target] = None]
  BY DEF DeleteRepTarget
<1>2. r.step = "target_delete" /\ Filled(r)
  BY <1>1, RequestSound DEF Sound, Change, At
<1>3. r.target \in Targets \cap r.about
  BY <1>2 DEF Filled, Dropping
<1>4. /\ target' \in [Targets -> Keys \cup {None}]
      /\ \A x \in Targets : target'[x] = IF x = r.target THEN None ELSE target[x]
  BY <1>1, <1>3 DEF IInv, TypeOK
<1>5. ~raced' => Grounds(r)
  BY <1>1, OthersKept DEF IInv
<1>6. \A p \in Policies : Live(p) => policy[p].target \in Targets
  BY DEF IInv, TypeOK, PolicyRow, Live, Exists
<1>7. NoOrphans'
  BY <1>1, <1>2, <1>4, <1>5, <1>6, OthersKept
     DEF IInv, NoOrphans, Live, Exists, Grounds, TargetGrounds
<1>8. NoDuplicates'
  BY <1>1, <1>4, OthersKept DEF IInv, NoDuplicates, Live, Exists
<1>9. ASSUME ~raced', NEW q \in Requests \ {o}, req'[q].clean
      PROVE  Grounds(req[q])'
  <2>1. /\ Kept(q) /\ Filled(req[q]) /\ Grounds(req[q]) /\ req[q].about \cap r.about = {}
    BY <1>1, <1>9, Bystander
  <2>2. PostGrounds(req[q])' /\ PutGrounds(req[q])'
    BY <1>1, <1>3, <1>4, <2>1
       DEF Kept, Filled, Grounds, PostGrounds, PutGrounds, NoPolicy, Live, Exists, Posting, Putting
  <2>3. ChangeGrounds(req[q])' /\ ProjectGrounds(req[q])'
    BY <1>1, <2>1 DEF Kept, Grounds, ChangeGrounds, ProjectGrounds, Live, Exists, jobs
  <2>4. TargetGrounds(req[q])'
    BY <1>1, <1>3, <1>4, <2>1, ReplicationAssumption
       DEF Kept, Filled, Grounds, TargetGrounds, Live, Exists, KeyUsed, Renaming, Dropping
  <2> QED
    BY <2>2, <2>3, <2>4 DEF Grounds
<1>10. RowsStay
  BY <1>1 DEF RowsStay
<1> QED
  BY <1>1, <1>4, <1>7, <1>8, <1>9, <1>10, ChangeKeeps DEF IInv, TypeOK, jobs

\* DeleteProject: no policy has the project.
LEMMA DeleteProjectKeeps ==
  ASSUME IInv, NEW o \in Requests, DeleteProject(o)
  PROVE  IInv'
<1> DEFINE r == req[o]
<1>1. /\ Change(o, "project_delete") /\ UNCHANGED <<target, policy, jobs>>
      /\ project' = project \ {r.project}
  BY DEF DeleteProject
<1>2. r.step = "project_delete" /\ Filled(r)
  BY <1>1, RequestSound DEF Sound, Change, At
<1>3. r.project \in r.about /\ project' \in SUBSET Projects
  BY <1>1, <1>2 DEF Filled, Closing, IInv, TypeOK
<1>5. ~raced' => Grounds(r)
  BY <1>1, OthersKept DEF IInv
<1>7. NoOrphans'
  BY <1>1, <1>2, <1>5, OthersKept DEF IInv, NoOrphans, Live, Exists, Grounds, ProjectGrounds
<1>8. NoDuplicates'
  BY <1>1, OthersKept DEF IInv, NoDuplicates, Live, Exists
<1>9. ASSUME ~raced', NEW q \in Requests \ {o}, req'[q].clean
      PROVE  Grounds(req[q])'
  <2>1. /\ Kept(q) /\ Filled(req[q]) /\ Grounds(req[q]) /\ req[q].about \cap r.about = {}
    BY <1>1, <1>9, Bystander
  <2>2. PostGrounds(req[q])'
    BY <1>1, <1>3, <2>1 DEF Kept, Filled, Grounds, PostGrounds, NoPolicy, Live, Exists, Posting
  <2>3. PutGrounds(req[q])' /\ ChangeGrounds(req[q])'
    BY <1>1, <2>1 DEF Kept, Grounds, PutGrounds, ChangeGrounds, NoPolicy, Live, Exists, jobs
  <2>4. TargetGrounds(req[q])' /\ ProjectGrounds(req[q])'
    BY <1>1, <2>1 DEF Kept, Grounds, TargetGrounds, ProjectGrounds, Live, Exists, KeyUsed
  <2> QED
    BY <2>2, <2>3, <2>4 DEF Grounds
<1>10. RowsStay
  BY <1>1 DEF RowsStay
<1> QED
  BY <1>1, <1>3, <1>7, <1>8, <1>9, <1>10, ChangeKeeps DEF IInv, TypeOK, jobs

-----------------------------------------------------------------------------
(***************************************************************************)
(* Triggers and jobs.                                                      *)
(***************************************************************************)
\* PartialReplication with the policy that is there.
LEMMA PostReuseKeeps ==
  ASSUME IInv, NEW o \in Requests, NEW p \in Policies, PostReuse(o, p)
  PROVE  IInv'
<1>1. policy[p] # None
  BY DEF PostReuse, Others, GetRepPolicyByProjectAndTarget, GetRepPolicyByProject, Live, Exists
<1>2. triggers' \in SUBSET Policies /\ \A x \in triggers' : policy[x] # None
  BY <1>1 DEF PostReuse, IInv, TypeOK
<1>3. Sound(Idle)
  BY IdleTyped DEF Sound
<1>4. begun' \in 0..MaxRequests
  BY DEF PostReuse, IInv, TypeOK
<1> QED
  BY <1>2, <1>3, <1>4, Moves DEF PostReuse

\* Nothing but triggers and jobs changes, and no policy gets a job.
LEMMA JobsShrink ==
  ASSUME IInv, UNCHANGED <<rows, req, begun, raced>>,
         triggers' \in SUBSET Policies, \A x \in triggers' : policy[x] # None,
         active' \subseteq active
  PROVE  IInv'
<1> USE DEF rows
<1>1. TypeOK'
  BY DEF IInv, TypeOK
<1>2. NoOrphans' /\ NoDuplicates'
  BY DEF IInv, NoOrphans, NoDuplicates, Live, Exists
<1>3. \A q \in Requests : Filled(req[q])' /\ Belongs(req[q])'
  BY DEF IInv, Filled, Belongs
<1>4. ~raced' => \A q \in Requests : req'[q].clean => Grounds(req[q])'
  BY DEF IInv, Grounds, PostGrounds, PutGrounds, ChangeGrounds, TargetGrounds, ProjectGrounds,
         NoPolicy, Live, Exists, KeyUsed
<1> QED
  BY <1>1, <1>2, <1>3, <1>4 DEF IInv

\* The job service adds jobs: a deletion of the policy that has seen none is not clean.
LEMMA AddJobsKeeps ==
  ASSUME IInv, NEW p \in Policies, AddJobs(p)
  PROVE  IInv'
<1> USE DEF rows
<1> DEFINE new(q) == [req[q] EXCEPT
                        !.clean = @ /\ ~(At(q, "delete_policy") /\ req[q].policy = p)]
<1>1. \A q \in Requests : req[q] \in RequestState
  BY DEF IInv, TypeOK
<1>2. \A q \in Requests : new(q) \in RequestState
  BY <1>1 DEF RequestState
<1>3. req' = [q \in Requests |-> new(q)]
  BY DEF AddJobs
<1>4. req' \in [Requests -> RequestState]
  <2> HIDE DEF new
  <2> QED
    BY <1>2, <1>3
<1>5. \A q \in Requests : Kept(q)
  BY <1>1, <1>3 DEF Kept, RequestState
<1>6. \A q \in Requests :
        req'[q].clean => req[q].clean /\ ~(req[q].step = "delete_policy" /\ req[q].policy = p)
  BY <1>1, <1>3 DEF RequestState, At
<1> HIDE DEF new
<1>7. \A q \in Requests : Filled(req[q])' /\ Belongs(req[q])'
  BY <1>5 DEF AddJobs, IInv, Kept, Filled, Belongs
<1>8. TypeOK'
  <2>1. \A q \in Requests : req'[q].policy # None => policy'[req'[q].policy] # None
    BY <1>7 DEF Belongs
  <2>2. \A x \in active' \cup triggers' : policy'[x] # None
    BY DEF AddJobs, IInv, TypeOK
  <2> QED
    BY <1>4, <2>1, <2>2 DEF AddJobs, IInv, TypeOK
<1>9. NoOrphans' /\ NoDuplicates'
  BY DEF AddJobs, IInv, NoOrphans, NoDuplicates, Live, Exists
<1>10. ASSUME ~raced', NEW q \in Requests, req'[q].clean
       PROVE  Grounds(req[q])'
  <2>1. Grounds(req[q]) /\ Kept(q) /\ ~(req[q].step = "delete_policy" /\ req[q].policy = p)
    BY <1>5, <1>6, <1>10 DEF AddJobs, IInv
  <2>2. UNCHANGED rows /\ active' = active \cup {p}
    BY DEF AddJobs
  <2>3. PostGrounds(req[q])' /\ PutGrounds(req[q])' /\ ProjectGrounds(req[q])'
    BY <2>1, <2>2 DEF Kept, Grounds, PostGrounds, PutGrounds, ProjectGrounds, NoPolicy, Live,
                      Exists
  <2>4. ChangeGrounds(req[q])'
    BY <2>1, <2>2 DEF Kept, Grounds, ChangeGrounds
  <2>5. TargetGrounds(req[q])'
    BY <2>1, <2>2 DEF Kept, Grounds, TargetGrounds, Live, Exists, KeyUsed
  <2> QED
    BY <2>3, <2>4, <2>5 DEF Grounds
<1> QED
  BY <1>7, <1>8, <1>9, <1>10 DEF IInv

\* All steps of triggers and jobs.
LEMMA JobStepKeeps == ASSUME IInv, JobStep PROVE IInv'
<1>1. ASSUME NEW pr \in Projects, TriggerByRepository(pr) PROVE IInv'
  <2>1. \A p \in GetRepPolicyByProject(pr) : policy[p] # None /\ p \in Policies
    BY DEF GetRepPolicyByProject, Live, Exists
  <2>2. triggers' \in SUBSET Policies /\ \A x \in triggers' : policy[x] # None
    BY <1>1, <2>1 DEF TriggerByRepository, IInv, TypeOK
  <2> QED
    BY <1>1, <2>2, JobsShrink DEF TriggerByRepository
<1>2. ASSUME NEW p \in Policies, TriggerFails(p) PROVE IInv'
  <2>1. triggers' \in SUBSET Policies /\ \A x \in triggers' : policy[x] # None
    BY <1>2 DEF TriggerFails, IInv, TypeOK
  <2> QED
    BY <1>2, <2>1, JobsShrink DEF TriggerFails
<1>3. ASSUME NEW p \in Policies, JobEnds(p) PROVE IInv'
  <2>1. triggers' \in SUBSET Policies /\ \A x \in triggers' : policy[x] # None
    BY <1>3 DEF JobEnds, IInv, TypeOK
  <2>2. active' \subseteq active
    BY <1>3 DEF JobEnds
  <2> QED
    BY <1>3, <2>1, <2>2, JobsShrink DEF JobEnds
<1> QED
  BY <1>1, <1>2, <1>3, AddJobsKeeps DEF JobStep

-----------------------------------------------------------------------------
(***************************************************************************)
(* The theorems.                                                           *)
(***************************************************************************)
\* The invariant holds at the start ...
LEMMA InitIInv == Init => IInv
<1> SUFFICES ASSUME Init PROVE IInv
  OBVIOUS
<1>1. \A o \in Requests : req[o] = Idle
  BY DEF Init
<1>2. req \in [Requests -> RequestState]
  BY IdleTyped DEF Init
<1>3. \A o \in Requests : Filled(req[o]) /\ Belongs(req[o]) /\ Grounds(req[o])
  BY <1>1, IdleTyped
<1>4. \A o \in Requests : req[o].policy = None
  BY <1>1 DEF Idle
<1>5. TypeOK
  <2>1. begun \in 0..MaxRequests
    BY ReplicationAssumption DEF Init
  <2>2. /\ project \in SUBSET Projects /\ target \in [Targets -> Keys \cup {None}]
        /\ policy \in [Policies -> PolicyRow \cup {None}]
        /\ active = {} /\ triggers = {} /\ raced \in BOOLEAN
    BY DEF Init
  <2> QED
    BY <1>2, <1>4, <2>1, <2>2 DEF TypeOK
<1>6. NoOrphans /\ NoDuplicates
  BY DEF Init, NoOrphans, NoDuplicates, Live, Exists
<1> QED
  BY <1>3, <1>5, <1>6 DEF IInv

\* ... and every step keeps it.
LEMMA NextIInv == IInv /\ [Next]_vars => IInv'
<1> SUFFICES ASSUME IInv, [Next]_vars PROVE IInv'
  OBVIOUS
<1>1. CASE UNCHANGED vars
  BY <1>1, JobsShrink DEF vars, jobs, IInv, TypeOK
<1>2. CASE JobStep
  BY <1>2, JobStepKeeps
<1>3. ASSUME NEW o \in Requests, PolicyStep(o) PROVE IInv'
  BY <1>3, PostBegins, PutBegins, EnablementBegins, DeleteBegins, PolicyChecks, PostReuseKeeps,
     PostAddKeeps, PutUpdateKeeps, EnablementKeeps, DeleteRepPolicyKeeps DEF PolicyStep
<1>4. ASSUME NEW o \in Requests, TargetStep(o) PROVE IInv'
  BY <1>4, TargetPostBegins, TargetPutBegins, TargetDeleteBegins, TargetChecks,
     AddRepTargetKeeps, TargetUpdateKeeps, DeleteRepTargetKeeps DEF TargetStep
<1>5. ASSUME NEW o \in Requests, ProjectStep(o) PROVE IInv'
  BY <1>5, ProjectBegins, TargetChecks, DeleteProjectKeeps DEF ProjectStep
<1> QED
  BY <1>1, <1>2, <1>3, <1>4, <1>5 DEF Next

\* Types hold of all rows and requests, in every interleaving of the handlers.
THEOREM TypeCorrect == Spec => []TypeOK
<1>1. IInv => TypeOK
  BY DEF IInv
<1> QED
  BY <1>1, InitIInv, NextIInv, PTL DEF Spec

\* The checks of RepPolicyAPI, TargetAPI and ProjectAPI before their changes suffice to keep
\* target and project of every policy, as long as no two requests about the same overlap with a
\* change.
THEOREM OrphanFree == Spec => []NoOrphans
<1>1. IInv => NoOrphans
  BY DEF IInv
<1> QED
  BY <1>1, InitIInv, NextIInv, PTL DEF Spec

\* So do they to keep pairs of project and target, and names of targets, unique.
THEOREM DuplicateFree == Spec => []NoDuplicates
<1>1. IInv => NoDuplicates
  BY DEF IInv
<1> QED
  BY <1>1, InitIInv, NextIInv, PTL DEF Spec

\* The steps that change rows.
LEMMA Changes ==
  ASSUME Next
  PROVE  \/ UNCHANGED rows
         \/ \E o \in Requests :
              \/ \E p \in Policies : PostAdd(o, p)
              \/ PutUpdate(o) \/ UpdateRepPolicyEnablement(o) \/ DeleteRepPolicy(o)
              \/ \E t \in Targets : AddRepTarget(o, t)
              \/ TargetUpdate(o) \/ DeleteRepTarget(o) \/ DeleteProject(o)
<1>1. CASE JobStep
  BY <1>1 DEF JobStep, TriggerByRepository, AddJobs, TriggerFails, JobEnds
<1>2. ASSUME NEW o \in Requests, NEW r, Begin(o, r) PROVE UNCHANGED rows
  BY <1>2 DEF Begin
<1>3. ASSUME NEW o \in Requests, NEW s, NEW a, NEW n, Check(o, s, a, n) PROVE UNCHANGED rows
  BY <1>3 DEF Check
<1>4. ASSUME NEW o \in Requests, NEW p, PostReuse(o, p) PROVE UNCHANGED rows
  BY <1>4 DEF PostReuse
<1>5. ASSUME NEW o \in Requests, PolicyStep(o)
      PROVE  \/ UNCHANGED rows
             \/ \E p \in Policies : PostAdd(o, p)
             \/ PutUpdate(o) \/ UpdateRepPolicyEnablement(o) \/ DeleteRepPolicy(o)
  BY <1>2, <1>3, <1>4, <1>5
     DEF PolicyStep, Post, PostTarget, PostPair, Put, PutTarget, PutPair, UpdateEnablement,
         Delete, DeleteJobs
<1>6. ASSUME NEW o \in Requests, TargetStep(o)
      PROVE  \/ UNCHANGED rows
             \/ \E t \in Targets : AddRepTarget(o, t)
             \/ TargetUpdate(o) \/ DeleteRepTarget(o)
  BY <1>2, <1>3, <1>6
     DEF TargetStep, TargetPost, TargetPut, TargetPolicies, TargetKey, TargetDelete, TargetUnused
<1>7. ASSUME NEW o \in Requests, ProjectStep(o)
      PROVE  UNCHANGED rows \/ DeleteProject(o)
  BY <1>2, <1>3, <1>7 DEF ProjectStep, ProjectDelete, ProjectContainsPolicy
<1> QED
  BY <1>1, <1>5, <1>6, <1>7 DEF Next

\* No step changes the target of a policy that stays enabled, nor its endpoint.
LEMMA StepFixes ==
  ASSUME IInv, Next, ~raced', NEW p \in Policies,
         Live(p), Live(p)', policy[p].enabled, policy'[p].enabled
  PROVE  /\ policy'[p].target = policy[p].target
         /\ target'[policy[p].target] = target[policy[p].target]
<1>0. policy[p] \in PolicyRow /\ policy[p] # None /\ ~policy[p].deleted
  BY DEF Live, Exists, IInv, TypeOK
<1>t. policy[p].target \in Targets /\ target \in [Targets -> Keys \cup {None}]
  BY <1>0 DEF PolicyRow, IInv, TypeOK
<1>s. ASSUME NEW o \in Requests, NEW s, Change(o, s)
      PROVE  /\ ~raced /\ req[o].step = s /\ Filled(req[o]) /\ Belongs(req[o])
             /\ Grounds(req[o]) /\ req[o] \in RequestState
  BY <1>s, OthersKept, RequestSound DEF Sound
<1>1. CASE UNCHANGED rows
  BY <1>1 DEF rows
<1>2. ASSUME NEW o \in Requests, NEW x \in Policies, PostAdd(o, x)
      PROVE  UNCHANGED target /\ policy'[p] = policy[p]
  BY <1>0, <1>2 DEF PostAdd, Exists, IInv, TypeOK
<1>3. ASSUME NEW o \in Requests, PutUpdate(o)
      PROVE  UNCHANGED target /\ policy'[p].target = policy[p].target
  <2>1. Change(o, "put_update") /\ UNCHANGED target
    BY <1>3 DEF PutUpdate
  <2>2. PutGrounds(req[o]) /\ req[o].step = "put_update"
    BY <1>s, <2>1 DEF Grounds
  <2>3. req[o].policy = p => req[o].target = policy[p].target
    BY <2>2 DEF PutGrounds, Putting
  <2>4. policy'[p].target = IF req[o].policy = p THEN req[o].target ELSE policy[p].target
    BY <1>0, <1>3 DEF PutUpdate, IInv, TypeOK, PolicyRow
  <2> QED
    BY <2>1, <2>3, <2>4
<1>4. ASSUME NEW o \in Requests, UpdateRepPolicyEnablement(o) \/ DeleteRepPolicy(o)
      PROVE  UNCHANGED target /\ policy'[p].target = policy[p].target
  BY <1>0, <1>4 DEF UpdateRepPolicyEnablement, DeleteRepPolicy, IInv, TypeOK, PolicyRow
<1>5. ASSUME NEW o \in Requests, NEW t \in Targets, AddRepTarget(o, t)
      PROVE  UNCHANGED policy /\ target'[policy[p].target] = target[policy[p].target]
  <2>1. ~raced
    BY <1>5, <1>s DEF AddRepTarget
  <2>2. policy[p].target # t
    BY <1>5, <2>1 DEF AddRepTarget, IInv, NoOrphans
  <2> QED
    BY <1>5, <1>t, <2>2 DEF AddRepTarget
<1>6. ASSUME NEW o \in Requests, TargetUpdate(o)
      PROVE  UNCHANGED policy /\ target'[policy[p].target] = target[policy[p].target]
  <2>1. TargetGrounds(req[o]) /\ req[o].step = "target_update"
    BY <1>6, <1>s DEF TargetUpdate, Grounds
  <2>2. policy[p].target # req[o].target
    BY <2>1 DEF TargetGrounds
  <2> QED
    BY <1>6, <1>t, <2>2 DEF TargetUpdate
<1>7. ASSUME NEW o \in Requests, DeleteRepTarget(o)
      PROVE  UNCHANGED policy /\ target'[policy[p].target] = target[policy[p].target]
  <2>1. TargetGrounds(req[o]) /\ req[o].step = "target_delete"
    BY <1>7, <1>s DEF DeleteRepTarget, Grounds
  <2>2. policy[p].target # req[o].target
    BY <2>1 DEF TargetGrounds
  <2> QED
    BY <1>7, <1>t, <2>2 DEF DeleteRepTarget
<1>8. ASSUME NEW o \in Requests, DeleteProject(o) PROVE UNCHANGED <<policy, target>>
  BY <1>8 DEF DeleteProject
<1> QED
  BY <1>1, <1>2, <1>3, <1>4, <1>5, <1>6, <1>7, <1>8, Changes

\* An enabled policy keeps its target, and the target its name and endpoint, whatever TargetAPI
\* and RepPolicyAPI are asked for meanwhile, as long as nothing has raced.
THEOREM EnabledFixed == Spec => TargetFixed
<1>1. IInv /\ [Next]_vars =>
        [~raced' => \A p \in Policies :
           Live(p) /\ Live(p)' /\ policy[p].enabled /\ policy'[p].enabled =>
             /\ policy'[p].target = policy[p].target
             /\ target'[policy[p].target] = target[policy[p].target]]_vars
  BY StepFixes
<1> QED
  BY <1>1, InitIInv, NextIInv, PTL DEF Spec, TargetFixed

\* No step deletes a policy that has work to do.
LEMMA StepDeletes ==
  ASSUME IInv, Next, ~raced', NEW p \in Policies, Live(p), ~Live(p)'
  PROVE  p \notin active /\ (policy[p].enabled => policy[p].partial)
<1>0. policy[p] \in PolicyRow /\ policy[p] # None /\ ~policy[p].deleted
  BY DEF Live, Exists, IInv, TypeOK
<1>1. CASE UNCHANGED policy
  BY <1>1 DEF Live, Exists
<1>2. ASSUME NEW o \in Requests, NEW x \in Policies, PostAdd(o, x)
      PROVE  policy'[p] = policy[p]
  BY <1>0, <1>2 DEF PostAdd, Exists, IInv, TypeOK
<1>3. ASSUME NEW o \in Requests, PutUpdate(o) \/ UpdateRepPolicyEnablement(o)
      PROVE  FALSE
  <2>1. Filled(req[o]) /\ req[o].step \in Changing /\ req[o] \in RequestState
    BY <1>3, RequestSound
       DEF PutUpdate, UpdateRepPolicyEnablement, Change, At, Sound, Changing, Putting
  <2>2. req[o].policy \in Policies /\ req[o].enabled \in BOOLEAN
    BY <2>1 DEF Filled, RequestState
  <2> DEFINE put == [policy[req[o].policy] EXCEPT !.target = req[o].target,
                                                  !.enabled = req[o].enabled]
             set == [policy[req[o].policy] EXCEPT !.enabled = req[o].enabled]
  <2>3. RowsStay
    <3>2. policy[req[o].policy] \in PolicyRow
      BY <2>1, <2>2, ReplicationAssumption, RequestSound DEF Sound, Belongs, IInv, TypeOK
    <3>3. req[o].target \in Targets \/ req[o].step = "enablement"
      BY <1>3, <2>1 DEF PutUpdate, UpdateRepPolicyEnablement, Change, At, Filled, Putting
    <3>4. CASE PutUpdate(o)
      <4>1. put \in PolicyRow /\ put.project = policy[req[o].policy].project
        BY <1>3, <2>2, <3>2, <3>3, <3>4 DEF PolicyRow, PutUpdate, Change, At
      <4>2. policy' = [policy EXCEPT ![req[o].policy] = put]
        BY <2>2, <3>4 DEF PutUpdate, IInv, TypeOK
      <4> HIDE DEF put
      <4> QED
        BY <3>4, <4>1, <4>2, RowChanges DEF PutUpdate, Changing, Putting
    <3>5. CASE UpdateRepPolicyEnablement(o)
      <4>1. set \in PolicyRow /\ set.project = policy[req[o].policy].project
        BY <2>2, <3>2 DEF PolicyRow
      <4>2. policy' = [policy EXCEPT ![req[o].policy] = set]
        BY <2>2, <3>5 DEF UpdateRepPolicyEnablement, IInv, TypeOK
      <4> HIDE DEF set
      <4> QED
        BY <3>5, <4>1, <4>2, RowChanges DEF UpdateRepPolicyEnablement, Changing
    <3> QED
      BY <1>3, <3>4, <3>5
  <2>4. policy'[p].deleted = policy[p].deleted
    <3>1. CASE PutUpdate(o)
      BY <1>0, <3>1 DEF PutUpdate, IInv, TypeOK, PolicyRow
    <3>2. CASE UpdateRepPolicyEnablement(o)
      BY <1>0, <3>2 DEF UpdateRepPolicyEnablement, IInv, TypeOK, PolicyRow
    <3> QED
      BY <1>3, <3>1, <3>2
  <2> QED
    BY <1>0, <2>3, <2>4 DEF Live, Exists, RowsStay
<1>4. ASSUME NEW o \in Requests, DeleteRepPolicy(o)
      PROVE  p \notin active /\ (policy[p].enabled => policy[p].partial)
  <2>1. ChangeGrounds(req[o]) /\ req[o].step = "delete_policy"
    BY <1>4, OthersKept, RequestSound DEF DeleteRepPolicy, Sound, Grounds
  <2>2. req[o].policy # p => policy'[p] = policy[p]
    BY <1>4 DEF DeleteRepPolicy, IInv, TypeOK
  <2>3. req[o].policy = p
    BY <1>0, <2>2 DEF Live, Exists
  <2> QED
    BY <2>1, <2>3 DEF ChangeGrounds
<1>5. ASSUME NEW o \in Requests, NEW t \in Targets, AddRepTarget(o, t) PROVE UNCHANGED policy
  BY <1>5 DEF AddRepTarget
<1>6. ASSUME NEW o \in Requests, TargetUpdate(o) \/ DeleteRepTarget(o) \/ DeleteProject(o)
      PROVE  UNCHANGED policy
  BY <1>6 DEF TargetUpdate, DeleteRepTarget, DeleteProject
<1>7. ASSUME policy'[p] = policy[p] PROVE FALSE
  BY <1>0, <1>7 DEF Live, Exists
<1> QED
  BY <1>1, <1>2, <1>3, <1>4, <1>5, <1>6, <1>7, Changes DEF rows

\* RepPolicyAPI.Delete marks only policies that are disabled or partial and have no job to do,
\* as long as nothing has raced.
THEOREM IdleDeleted == Spec => DeletesIdle
<1>1. IInv /\ [Next]_vars =>
        [~raced' => \A p \in Policies :
           Live(p) /\ ~Live(p)' => p \notin active /\ (policy[p].enabled => policy[p].partial)]_vars
  BY StepDeletes
<1> QED
  BY <1>1, InitIInv, NextIInv, PTL DEF Spec, DeletesIdle
=============================================================================
