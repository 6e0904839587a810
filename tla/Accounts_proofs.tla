--------------------------- MODULE Accounts_proofs ---------------------------
(***************************************************************************)
(* Proofs about Accounts, for any users, projects, links and requests: all *)
(* its invariants hold in every interleaving of the handlers.              *)
(***************************************************************************)
EXTENDS Accounts, TLAPS

-----------------------------------------------------------------------------
(***************************************************************************)
(* What a request has in its fields at each step.                          *)
(***************************************************************************)
Registering == {"register_email", "register_insert"}
Profiling   == {"profile_email", "profile_update"}
OfUser      == Profiling \cup {"user_delete", "toggle", "password_update", "reset_update"}
Mailing     == {"mail_send", "mail_store"}
OfMember    == {"member_clear", "member_insert", "member_delete"}
OfProject   == OfMember \cup {"quota_insert", "project_delete", "quota_delete"}

Filled(r) ==
  /\ r.step \in Registering \cup {"ldap_get"} => r.name \in Names
  /\ r.step \in Registering \cup Profiling \cup Mailing => r.email \in Emails \cap r.about
  /\ r.step \in OfUser => r.user \in Users \cap r.about
  /\ r.step \in {"password_update", "reset_update"} => r.password \in Passwords
  /\ r.step \in Mailing \cup {"reset_update"} => r.link \in Links
  /\ r.step \in OfMember \cup {"project_insert"} => r.user \in Users \cap r.about
  /\ r.step \in {"member_insert", "project_insert"} => r.role \in Roles
  /\ r.step \in {"project_insert", "quota_insert"} => r.title \in Titles
  /\ r.step \in {"member_insert", "quota_insert", "project_insert"} /\ r.title # None =>
       r.title \in r.about
  /\ r.step \in OfProject => r.project \in Projects \cap r.about
  /\ r.step = "member_clear" => r.title = None
  /\ r.step = "member_delete" => r.role = None

\* The rows of a request are there; rows are never removed.
Backed(r) ==
  /\ r.step \in OfUser \cup {"member_clear", "member_insert", "project_insert"} =>
       user[r.user] # None
  /\ r.step \in OfProject => project[r.project] # None

TypeInv == TypeOK /\ \A o \in Requests : Filled(req[o]) /\ Backed(req[o])

-----------------------------------------------------------------------------
(***************************************************************************)
(* Users.                                                                  *)
(***************************************************************************)

\* The unique index on addresses, and what UserDelete has done.
UserRows ==
  /\ \A u, v \in Users :
       Exists(u) /\ Exists(v) /\ user[u].email = user[v].email /\ user[u].email # None => u = v
  /\ \A u \in Users : Exists(u) /\ user[u].deleted => user[u].name = None
  /\ \A u \in Users : ~Exists(u) => lastMail[u] = None

\* A link is in one place: with the request that mails it, in one row, or used.
LinkRows ==
  /\ \A u, v \in Users :
       Exists(u) /\ Exists(v) /\ user[u].link = user[v].link /\ user[u].link # None => u = v
  /\ \A u \in Users : Exists(u) /\ user[u].link # None => resets[user[u].link] = 0
  /\ \A l \in Links : resets[l] \in {0, 1}
LinkRequests ==
  \A o \in Requests : req[o].step \in Mailing =>
    /\ resets[req[o].link] = 0
    /\ \A u \in Users : Exists(u) => user[u].link # req[o].link
    /\ \A q \in Requests : req[q].step \in Mailing /\ req[q].link = req[o].link => q = o

\* What a clean request of a user counts on.
UserGrounds(r) ==
  /\ r.step = "ldap_get" => \E u \in Users \cap r.about : Live(u) /\ user[u].name = r.name
  /\ r.step \in Profiling => ~user[r.user].deleted
  /\ r.step = "user_delete" => \E b \in Users \cap r.about : b # r.user /\ IsAdminRole(b)
  /\ r.step = "toggle" => r.by \in Users \cap r.about /\ IsAdminRole(r.by)
  /\ r.step \in Mailing => \A u \in Users : Exists(u) /\ user[u].email = r.email => u \in r.about

\* A mail that was sent has its link in the row, or with the request that is about to store it.
MailSent ==
  \A u \in Users : Live(u) /\ lastMail[u] \notin {None, user[u].link} =>
    \E q \in Requests : /\ At(q, "mail_store") /\ req[q].link = lastMail[u]
                        /\ req[q].email = user[u].email \/ ~req[q].clean
MailStored ==
  \A o \in Requests : At(o, "mail_store") /\ req[o].clean =>
    \A u \in Users : Exists(u) /\ user[u].email = req[o].email =>
      \E q \in Requests : /\ At(q, "mail_store") /\ req[q].link = lastMail[u]
                          /\ req[q].email = req[o].email

UserInv ==
  /\ UserRows /\ LinkRows /\ LinkRequests
  /\ \A o \in Requests : req[o].clean => UserGrounds(req[o])
  /\ faults = 0 /\ ~raced => MailSent /\ MailStored
  /\ NamesFree /\ AdminLeft

-----------------------------------------------------------------------------
(***************************************************************************)
(* Projects.                                                               *)
(***************************************************************************)

\* A request that makes a project and has not come to its quota yet.
Creating(q) == req[q].step \in {"member_insert", "quota_insert"} /\ req[q].title # None

\* The unique index on names, what DeleteProject has done, and one request for a new project.
ProjectRows ==
  /\ \A p, x \in Projects : project[p] # None /\ project[x] # None
       /\ project[p].title = project[x].title /\ project[p].title # None => p = x
  /\ \A p \in Projects : project[p] # None /\ project[p].deleted => project[p].title = None
Creations ==
  \A o \in Requests : Creating(o) =>
    /\ project[req[o].project].quota = None
    /\ \A q \in Requests : Creating(q) /\ req[q].project = req[o].project => q = o
Deletions == \A o \in Requests : At(o, "quota_delete") => project[req[o].project].title = None

\* A member who is wanted has his row, or a request is about to insert it.
MemberPending ==
  faults = 0 => \A p \in Projects, u \in Users : <<p, u>> \in wanted =>
    \/ member[<<p, u>>] # None
    \/ \E q \in Requests : At(q, "member_insert") /\ req[q].project = p /\ req[q].user = u

ProjectGrounds(r) ==
  /\ r.step \in {"member_insert", "quota_insert"} /\ r.title # None =>
       project[r.project].title = r.title
  /\ r.step = "member_insert" /\ r.title # None => member[<<r.project, r.user>>] = None
  /\ r.step = "project_delete" => project[r.project].title \in r.about
  /\ r.step = "quota_delete" =>
       \/ project[r.project].quota = None
       \/ project[r.project].quota \in r.about /\ ~TitleTaken(project[r.project].quota)

\* A project without its quota row, or a row without its project, is waited for; or a request
\* that is not clean is yet to remove one.
QuotaPending ==
  \A p \in Projects : project[p] # None /\ project[p].quota # project[p].title =>
    \E q \in Requests :
      \/ req[q].project = p /\ (Creating(q) \/ At(q, "quota_delete"))
      \/ At(q, "quota_delete") /\ ~req[q].clean

ProjectInv ==
  /\ ProjectRows /\ Creations /\ Deletions /\ MemberPending
  /\ ~raced => /\ \A o \in Requests : req[o].clean => ProjectGrounds(req[o])
               /\ \A p \in Projects : LiveProject(p) =>
                    project[p].quota \in {None, project[p].title}
  /\ faults = 0 /\ ~raced => QuotaPending

IInv == TypeInv /\ UserInv /\ ProjectInv

-----------------------------------------------------------------------------
(***************************************************************************)
(* Shapes of steps: request o goes on, of the others only clean may change.*)
(***************************************************************************)
Kept(q) ==
  /\ req'[q].step = req[q].step /\ req'[q].by = req[q].by /\ req'[q].user = req[q].user
  /\ req'[q].name = req[q].name /\ req'[q].email = req[q].email /\ req'[q].old = req[q].old
  /\ req'[q].password = req[q].password /\ req'[q].admin = req[q].admin
  /\ req'[q].link = req[q].link /\ req'[q].project = req[q].project
  /\ req'[q].title = req[q].title /\ req'[q].role = req[q].role
  /\ req'[q].about = req[q].about

Others(o) == \A q \in Requests \ {o} : Kept(q) /\ (req'[q].clean => req[q].clean)

\* Others that stay clean are about something else.
Apart(o) == \A q \in Requests \ {o} : req'[q].clean => req[q].about \cap req[o].about = {}

\* Rows are not removed.
RowsStay ==
  /\ \A u \in Users : user[u] # None => user'[u] # None
  /\ \A p \in Projects : project[p] # None => project'[p] # None

\* Backed, after the step.
BackedNext(r) ==
  /\ r.step \in OfUser \cup {"member_clear", "member_insert", "project_insert"} =>
       user'[r.user] # None
  /\ r.step \in OfProject => project'[r.project] # None

\* What TypeOK says of the tables ...
TablesOK ==
  /\ user \in [Users -> UserRow \cup {None}]
  /\ project \in [Projects -> ProjectRow \cup {None}]
  /\ \A u \in Users : Live(u) => user[u].name # None /\ user[u].email # None
  /\ \A p \in Projects : LiveProject(p) => project[p].title # None
  /\ member \in [Projects \X Users -> Roles \cup {None}]
  /\ \A p \in Projects, u \in Users : member[<<p, u>>] # None => project[p] # None /\ user[u] # None

\* ... and of the history.
HistoryOK ==
  /\ raced \in BOOLEAN /\ resigned \in BOOLEAN
  /\ wanted \in SUBSET (Projects \X Users)
  /\ lastMail \in [Users -> Links \cup {None}]
  /\ resets \in [Links -> Nat]

\* The types of a step that has one of the shapes.
LEMMA TypeStep ==
  ASSUME TypeInv, NEW o \in Requests, NEW r \in RequestState, Filled(r), BackedNext(r),
         req' \in [Requests -> RequestState], req'[o] = r, Others(o), RowsStay,
         TablesOK', HistoryOK', UNCHANGED mode, begun' \in 0..MaxRequests, faults' \in 0..MaxFaults
  PROVE  TypeInv'
<1>1. TypeOK'
  BY DEF TypeInv, TypeOK, TablesOK, HistoryOK
<1>2. \A q \in Requests \ {o} : Filled(req[q])'
  BY DEF TypeInv, Others, Kept, Filled
<1>3. ASSUME NEW q \in Requests \ {o} PROVE Backed(req[q])'
  <2>1. Filled(req[q]) /\ Backed(req[q]) /\ Kept(q)
    BY DEF TypeInv, Others
  <2>2. req[q].step \in OfUser \cup {"member_clear", "member_insert", "project_insert"} =>
          req[q].user \in Users
    BY <2>1 DEF Filled, OfMember
  <2>3. req[q].step \in OfProject => req[q].project \in Projects
    BY <2>1 DEF Filled
  <2> QED
    BY <2>1, <2>2, <2>3 DEF Backed, Kept, RowsStay
<1>4. Filled(req[o])' /\ Backed(req[o])'
  BY DEF Filled, Backed, BackedNext
<1> QED
  BY <1>1, <1>2, <1>3, <1>4 DEF TypeInv

\* Request o becomes r and nothing else changes but the counters.
LEMMA MoveShape ==
  ASSUME TypeInv, NEW o \in Requests, NEW r \in RequestState, req' = [req EXCEPT ![o] = r]
  PROVE  /\ req' \in [Requests -> RequestState] /\ req'[o] = r /\ Others(o)
         /\ \A q \in Requests \ {o} : req'[q] = req[q]
<1>1. req \in [Requests -> RequestState]
  BY DEF TypeInv, TypeOK
<1>2. \A q \in Requests : req'[q] = IF q = o THEN r ELSE req[q]
  BY <1>1
<1> QED
  BY <1>1, <1>2 DEF Others, Kept

\* Request o makes a change and becomes r.
LEMMA ChangeShape ==
  ASSUME TypeInv, NEW o \in Requests, NEW s, NEW r \in RequestState, ChangeTo(o, s, r)
  PROVE  /\ req' \in [Requests -> RequestState] /\ req'[o] = r /\ Others(o) /\ Apart(o)
         /\ req[o].step = s
         /\ raced' \in BOOLEAN /\ (~raced' => ~raced /\ req[o].clean)
         /\ UNCHANGED <<mode, begun, faults>>
<1> DEFINE new(q) == [req[q] EXCEPT !.clean = @ /\ req[q].about \cap req[o].about = {}]
<1>1. \A q \in Requests : req[q] \in RequestState
  BY DEF TypeInv, TypeOK
<1>2. \A q \in Requests : new(q) \in RequestState
  BY ZenonT(60), <1>1 DEF RequestState
<1>3. req' = [q \in Requests |-> IF q = o THEN r ELSE new(q)]
  BY DEF ChangeTo
<1>4. \A q \in Requests \ {o} : Kept(q)
  BY <1>1, <1>3 DEF Kept, RequestState
<1>5. \A q \in Requests \ {o} :
        req'[q].clean => req[q].clean /\ req[q].about \cap req[o].about = {}
  BY <1>1, <1>3 DEF RequestState
<1>6. req'[o] = r
  BY <1>3
<1>7. req' \in [Requests -> RequestState]
  <2> HIDE DEF new
  <2> QED
    BY <1>2, <1>3
<1>8. raced' \in BOOLEAN /\ (~raced' => ~raced /\ req[o].clean)
  BY DEF ChangeTo, TypeInv, TypeOK
<1> QED
  BY <1>4, <1>5, <1>6, <1>7, <1>8 DEF Others, Apart, ChangeTo, At

-----------------------------------------------------------------------------
(***************************************************************************)
(* Frames: what a step does to the part of the invariant that it does not  *)
(* concern.                                                                *)
(***************************************************************************)

\* The counters of a step.
Onwards == (raced => raced') /\ (resigned => resigned') /\ (faults # 0 => faults' # 0)

\* What request o may do without a word about users: it leaves mail_store only by a failure.
UserSilent(o) ==
  /\ req[o].step = "mail_store" => faults' # 0
  /\ req'[o].step \notin Mailing

\* A step that is silent about users keeps what the invariant says of them.
LEMMA UserFrame ==
  ASSUME TypeInv, UserInv, NEW o \in Requests, Others(o), UserSilent(o), Onwards,
         UNCHANGED <<user, lastMail, resets>>,
         req'[o].clean => UserGrounds(req[o])'
  PROVE  UserInv'
<1>1. UserRows' /\ LinkRows'
  BY DEF UserInv, UserRows, LinkRows, Exists
<1>2. LinkRequests'
  BY DEF UserInv, LinkRequests, Exists, Others, Kept, UserSilent
<1>3. ASSUME NEW q \in Requests, req'[q].clean PROVE UserGrounds(req[q])'
  <2>1. CASE q = o
    BY <1>3, <2>1
  <2>2. CASE q # o
    <3>1. UserGrounds(req[q]) /\ Kept(q)
      BY <1>3, <2>2 DEF UserInv, Others
    <3> QED
      BY <3>1 DEF Kept, UserGrounds, Live, Exists, IsAdminRole
  <2> QED
    BY <2>1, <2>2
<1>4. ASSUME faults' = 0, ~raced' PROVE MailSent' /\ MailStored'
  <2>1. MailSent /\ MailStored /\ req[o].step # "mail_store"
    BY <1>4 DEF UserInv, Onwards, UserSilent
  <2>2. MailSent'
    BY <2>1 DEF MailSent, Live, Exists, At, Others, Kept
  <2>3. MailStored'
    BY <2>1 DEF MailStored, Exists, At, Others, Kept, UserSilent, Mailing
  <2> QED
    BY <2>2, <2>3
<1>5. NamesFree' /\ AdminLeft'
  BY DEF UserInv, NamesFree, AdminLeft, Exists, IsAdminRole, Live, Onwards
<1> QED
  BY <1>1, <1>2, <1>3, <1>4, <1>5 DEF UserInv

\* The same for projects.
ProjectSilent(o) ==
  /\ req[o].step \in {"member_insert", "quota_insert", "quota_delete"} => faults' # 0
  /\ req'[o].step \notin {"quota_insert", "quota_delete"}
  /\ req'[o].step = "member_insert" => req'[o].title = None

\* A step that is silent about projects keeps what the invariant says of them.
LEMMA ProjectFrame ==
  ASSUME TypeInv, ProjectInv, NEW o \in Requests, Others(o), ProjectSilent(o), Onwards,
         UNCHANGED <<project, member, wanted>>,
         req'[o].clean => ProjectGrounds(req[o])'
  PROVE  ProjectInv'
<1>1. ProjectRows'
  BY DEF ProjectInv, ProjectRows
<1>2. Creations' /\ Deletions'
  BY DEF ProjectInv, Creations, Deletions, Creating, At, Others, Kept, ProjectSilent
<1>3. MemberPending'
  BY DEF ProjectInv, MemberPending, At, Others, Kept, ProjectSilent, Onwards
<1>4. ASSUME ~raced'
      PROVE  /\ \A q \in Requests : req'[q].clean => ProjectGrounds(req[q])'
             /\ \A p \in Projects : LiveProject(p)' =>
                  project'[p].quota \in {None, project'[p].title}
  <2>1. ASSUME NEW q \in Requests \ {o}, req'[q].clean PROVE ProjectGrounds(req[q])'
    <3>1. ProjectGrounds(req[q]) /\ Kept(q)
      BY <1>4, <2>1 DEF ProjectInv, Others, Onwards
    <3> QED
      BY <3>1 DEF Kept, ProjectGrounds, TitleTaken
  <2> QED
    BY <1>4, <2>1 DEF ProjectInv, Onwards, LiveProject
<1>5. ASSUME faults' = 0, ~raced' PROVE QuotaPending'
  <2>1. QuotaPending /\ req[o].step \notin {"member_insert", "quota_insert", "quota_delete"}
    BY <1>5 DEF ProjectInv, Onwards, ProjectSilent
  <2> QED
    BY <2>1 DEF QuotaPending, Creating, At, Others, Kept
<1> QED
  BY <1>1, <1>2, <1>3, <1>4, <1>5 DEF ProjectInv

-----------------------------------------------------------------------------
(***************************************************************************)
(* Steps that change no row: requests begin, go on after a check, end.     *)
(***************************************************************************)
Sound(r) ==
  /\ r \in RequestState /\ Filled(r) /\ Backed(r)
  /\ r.clean => UserGrounds(r) /\ ProjectGrounds(r)
  /\ r.step \notin Mailing \cup {"quota_insert", "quota_delete"}
  /\ r.step = "member_insert" => r.title = None

\* A request that has ended asks for nothing.
LEMMA IdleSound == Sound(Idle)
<1>1. Idle \in RequestState
  BY DEF Idle, RequestState, Steps
<1>2. Filled(Idle) /\ Backed(Idle) /\ UserGrounds(Idle) /\ ProjectGrounds(Idle)
  BY DEF Idle, Filled, Backed, UserGrounds, ProjectGrounds, Registering, Profiling, OfUser,
         Mailing, OfMember, OfProject
<1> QED
  BY <1>1, <1>2 DEF Sound, Idle, Mailing

\* Request o becomes r, which is sound, and no row changes.
LEMMA Silent ==
  ASSUME IInv, NEW o \in Requests, NEW r, Sound(r), req' = [req EXCEPT ![o] = r],
         UNCHANGED <<mode, tables, resigned, wanted, lastMail, resets>>,
         raced' \in BOOLEAN, Onwards, begun' \in 0..MaxRequests, faults' \in 0..MaxFaults,
         req[o].step \in {"mail_store", "member_insert", "quota_insert", "quota_delete"} =>
           faults' # 0
  PROVE  IInv'
<1>1. /\ req' \in [Requests -> RequestState] /\ req'[o] = r /\ Others(o)
      /\ r \in RequestState
  BY MoveShape DEF IInv, Sound
<1>2. UNCHANGED <<user, project, member>>
  BY DEF tables
<1>3. TablesOK' /\ HistoryOK' /\ RowsStay
  BY <1>2 DEF IInv, TypeInv, TypeOK, TablesOK, HistoryOK, RowsStay, Live, LiveProject, Exists
<1>4. BackedNext(r) /\ Filled(r)
  BY <1>2 DEF Sound, Backed, BackedNext
<1>5. TypeInv'
  BY <1>1, <1>3, <1>4, TypeStep DEF IInv
<1>6. UserInv'
  <2>1. UserSilent(o)
    BY <1>1 DEF UserSilent, Sound
  <2>2. req'[o].clean => UserGrounds(req[o])'
    BY <1>1, <1>2 DEF Sound, UserGrounds, Live, Exists, IsAdminRole
  <2> QED
    BY <1>1, <1>2, <2>1, <2>2, UserFrame DEF IInv
<1>7. ProjectInv'
  <2>1. ProjectSilent(o)
    BY <1>1 DEF ProjectSilent, Sound
  <2>2. req'[o].clean => ProjectGrounds(req[o])'
    BY <1>1, <1>2 DEF Sound, ProjectGrounds, TitleTaken
  <2> QED
    BY <1>1, <1>2, <2>1, <2>2, ProjectFrame DEF IInv
<1> QED
  BY <1>5, <1>6, <1>7 DEF IInv

\* A request may begin if it is sound.
LEMMA BeginSound ==
  ASSUME IInv, NEW o \in Requests, NEW r, Sound(r), Begin(o, r)
  PROVE  IInv'
<1>1. begun' \in 0..MaxRequests /\ faults' \in 0..MaxFaults /\ raced' \in BOOLEAN
  BY AccountsAssumption DEF IInv, TypeInv, TypeOK, Begin, history
<1>2. Onwards /\ UNCHANGED <<mode, tables, resigned, wanted, lastMail, resets>>
  BY DEF Begin, history, Onwards
<1>3. req[o].step = "idle" /\ req' = [req EXCEPT ![o] = r]
  BY DEF Begin, At
<1> QED
  BY <1>1, <1>2, <1>3, Silent

\* Every handler's first step.
LEMMA RegisterBegins ==
  ASSUME IInv, NEW o \in Requests, NEW n \in Names, NEW e \in Emails,
         Register(o, n, e) \/ LdapLogin(o, n, e)
  PROVE  IInv'
<1>1. CASE Register(o, n, e)
  <2> DEFINE r == [Idle EXCEPT !.step = "register_email", !.name = n, !.email = e,
                               !.about = {n, e}]
  <2>1. r \in RequestState
    BY DEF Idle, RequestState, Steps
  <2>2. Filled(r) /\ Backed(r) /\ UserGrounds(r) /\ ProjectGrounds(r)
    BY DEF Idle, Filled, Backed, UserGrounds, ProjectGrounds, Registering, Profiling, OfUser,
           Mailing, OfMember, OfProject
  <2>3. Sound(r)
    BY <2>1, <2>2 DEF Sound, Idle, Mailing
  <2>4. Begin(o, r)
    BY <1>1 DEF Register
  <2> HIDE DEF r
  <2> QED
    BY <2>3, <2>4, BeginSound
<1>2. CASE LdapLogin(o, n, e)
  <2> DEFINE same == {u \in Users : Exists(u) /\ user[u].name = n}
             r == [Idle EXCEPT !.step = IF NameTaken(n) THEN "ldap_get" ELSE "register_insert",
                               !.name = n, !.email = e, !.about = {n, e} \cup same]
  <2>1. r \in RequestState
    BY DEF Idle, RequestState, Steps
  <2>2. Filled(r) /\ Backed(r) /\ ProjectGrounds(r)
    BY DEF Idle, Filled, Backed, ProjectGrounds, Registering, Profiling, OfUser,
           Mailing, OfMember, OfProject
  <2>3. r.step = "ldap_get" => \E u \in Users \cap r.about : Live(u) /\ user[u].name = r.name
    <3>1. SUFFICES ASSUME NameTaken(n) PROVE \E u \in Users \cap same : Live(u) /\ user[u].name = n
      BY DEF Idle
    <3>2. PICK u \in Users : Exists(u) /\ user[u].name = n
      BY <3>1 DEF NameTaken
    <3>3. ~user[u].deleted
      <4>1. n # None
        BY AccountsAssumption
      <4>2. user[u].deleted \in BOOLEAN
        BY <3>2 DEF IInv, TypeInv, TypeOK, UserRow, Exists
      <4> QED
        BY <3>2, <4>1, <4>2 DEF IInv, UserInv, UserRows
    <3> QED
      BY <3>2, <3>3 DEF Live
  <2>4. UserGrounds(r)
    BY <2>3 DEF UserGrounds, Idle, Profiling, Mailing
  <2>5. Sound(r)
    BY <2>1, <2>2, <2>4 DEF Sound, Idle, Mailing
  <2>6. Begin(o, r)
    BY <1>2 DEF LdapLogin, Login
  <2> HIDE DEF r
  <2> QED
    BY <2>5, <2>6, BeginSound
<1> QED
  BY <1>1, <1>2

\* ChangeProfile, for a user who is not deleted.
LEMMA ProfileBegins ==
  ASSUME IInv, NEW o \in Requests, NEW b \in Users, NEW u \in Users, NEW e \in Emails,
         ChangeProfile(o, b, u, e)
  PROVE  IInv'
<1> DEFINE r == [Idle EXCEPT !.step = IF e = user[u].email THEN "profile_update"
                                      ELSE "profile_email",
                             !.user = u, !.email = e, !.about = {b, u, user[u].email, e}]
<1>1. user[u] # None /\ ~user[u].deleted /\ user[u].email \in Emails
  BY DEF ChangeProfile, MayChange, Live, Exists, IInv, TypeInv, TypeOK, UserRow
<1>2. r \in RequestState
  BY <1>1 DEF Idle, RequestState, Steps
<1>3. Filled(r) /\ Backed(r) /\ UserGrounds(r) /\ ProjectGrounds(r)
  BY <1>1 DEF Idle, Filled, Backed, UserGrounds, ProjectGrounds, Registering, Profiling, OfUser,
         Mailing, OfMember, OfProject
<1>4. Sound(r)
  BY <1>2, <1>3 DEF Sound, Idle, Mailing
<1>5. Begin(o, r)
  BY DEF ChangeProfile
<1> HIDE DEF r
<1> QED
  BY <1>4, <1>5, BeginSound

\* DeleteUser, by another admin, who is left.
LEMMA DeleteBegins ==
  ASSUME IInv, NEW o \in Requests, NEW b \in Users, NEW u \in Users, DeleteUser(o, b, u)
  PROVE  IInv'
<1> DEFINE r == [Idle EXCEPT !.step = "user_delete", !.user = u,
                             !.about = {b, u, user[u].name, user[u].email}]
<1>1. user[u] # None /\ user[u].email \in Emails /\ user[u].name \in Names
  BY DEF DeleteUser, Live, Exists, IInv, TypeInv, TypeOK, UserRow
<1>2. r \in RequestState
  BY <1>1 DEF Idle, RequestState, Steps
<1>3. Filled(r) /\ Backed(r) /\ ProjectGrounds(r)
  BY <1>1 DEF Idle, Filled, Backed, ProjectGrounds, Registering, Profiling, OfUser,
         Mailing, OfMember, OfProject
<1>4. UserGrounds(r)
  BY DEF DeleteUser, Idle, UserGrounds, Profiling, Mailing
<1>5. Sound(r)
  BY <1>2, <1>3, <1>4 DEF Sound, Idle, Mailing
<1>6. Begin(o, r)
  BY DEF DeleteUser
<1> HIDE DEF r
<1> QED
  BY <1>5, <1>6, BeginSound

\* ToggleAdmin, by an admin.
LEMMA ToggleBegins ==
  ASSUME IInv, NEW o \in Requests, NEW b \in Users, NEW u \in Users, NEW admin \in BOOLEAN,
         ToggleAdmin(o, b, u, admin)
  PROVE  IInv'
<1> DEFINE r == [Idle EXCEPT !.step = "toggle", !.by = b, !.user = u, !.admin = admin,
                             !.about = {b, u}]
<1>1. user[u] # None /\ IsAdminRole(b)
  BY DEF ToggleAdmin, Live, Exists
<1>2. r \in RequestState
  BY DEF Idle, RequestState, Steps
<1>3. Filled(r) /\ Backed(r) /\ UserGrounds(r) /\ ProjectGrounds(r)
  BY <1>1 DEF Idle, Filled, Backed, UserGrounds, ProjectGrounds, Registering, Profiling, OfUser,
         Mailing, OfMember, OfProject
<1>4. Sound(r)
  BY <1>2, <1>3 DEF Sound, Idle, Mailing
<1>5. Begin(o, r)
  BY DEF ToggleAdmin
<1> HIDE DEF r
<1> QED
  BY <1>4, <1>5, BeginSound

\* ChangePassword, for a user who is there.
LEMMA PasswordBegins ==
  ASSUME IInv, NEW o \in Requests, NEW b \in Users, NEW u \in Users, NEW old \in Passwords,
         NEW pw \in Passwords, ChangePassword(o, b, u, old, pw)
  PROVE  IInv'
<1> DEFINE r == [Idle EXCEPT !.step = "password_update", !.user = u, !.old = old,
                             !.password = pw, !.about = {b, u}]
<1>1. user[u] # None
  BY DEF ChangePassword, MayChange, Live, Exists
<1>2. r \in RequestState
  BY DEF Idle, RequestState, Steps
<1>3. Filled(r) /\ Backed(r) /\ UserGrounds(r) /\ ProjectGrounds(r)
  BY <1>1 DEF Idle, Filled, Backed, UserGrounds, ProjectGrounds, Registering, Profiling, OfUser,
         Mailing, OfMember, OfProject
<1>4. Sound(r)
  BY <1>2, <1>3 DEF Sound, Idle, Mailing
<1>5. Begin(o, r)
  BY DEF ChangePassword
<1> HIDE DEF r
<1> QED
  BY <1>4, <1>5, BeginSound

\* ResetPassword, with the link in a row.
LEMMA ResetBegins ==
  ASSUME IInv, NEW o \in Requests, NEW u \in Users, NEW pw \in Passwords,
         ResetPassword(o, u, pw)
  PROVE  IInv'
<1> DEFINE r == [Idle EXCEPT !.step = "reset_update", !.user = u, !.link = user[u].link,
                             !.password = pw, !.about = {u, user[u].email}]
<1>1. user[u] # None /\ user[u].email \in Emails /\ user[u].link \in Links
  BY DEF ResetPassword, Live, Exists, IInv, TypeInv, TypeOK, UserRow
<1>2. r \in RequestState
  BY <1>1 DEF Idle, RequestState, Steps
<1>3. Filled(r) /\ Backed(r) /\ UserGrounds(r) /\ ProjectGrounds(r)
  BY <1>1 DEF Idle, Filled, Backed, UserGrounds, ProjectGrounds, Registering, Profiling, OfUser,
         Mailing, OfMember, OfProject
<1>4. Sound(r)
  BY <1>2, <1>3 DEF Sound, Idle, Mailing
<1>5. Begin(o, r)
  BY DEF ResetPassword
<1> HIDE DEF r
<1> QED
  BY <1>4, <1>5, BeginSound

\* The handlers of ProjectMemberAPI: the project is there, and but for a deletion the user.
LEMMA MemberBegins ==
  ASSUME IInv, NEW o \in Requests, NEW b \in Users, NEW u \in Users, NEW p \in Projects,
         \/ \E r \in Roles : MemberPost(o, b, p, u, r)
         \/ \E r \in Roles \cup {None} : MemberPut(o, b, p, u, r)
         \/ MemberDelete(o, b, p, u)
  PROVE  IInv'
<1>1. PICK s \in OfMember, role \in Roles \cup {None} :
        /\ Begin(o, MemberRequest(s, b, p, u, role))
        /\ project[p] # None /\ (s # "member_delete" => user[u] # None)
        /\ s = "member_insert" => role \in Roles
        /\ s = "member_delete" => role = None
  <2>1. CASE \E r \in Roles : MemberPost(o, b, p, u, r)
    BY <2>1 DEF MemberPost, MayManage, LiveProject, Live, Exists, OfMember
  <2>2. CASE \E r \in Roles \cup {None} : MemberPut(o, b, p, u, r)
    BY <2>2 DEF MemberPut, MayManage, LiveProject, OfMember, IInv, TypeInv, TypeOK
  <2>3. CASE MemberDelete(o, b, p, u)
    BY <2>3 DEF MemberDelete, MayManage, LiveProject, OfMember
  <2> QED
    BY <2>1, <2>2, <2>3
<1> DEFINE r == MemberRequest(s, b, p, u, role)
<1>2. r \in RequestState
  BY DEF Idle, MemberRequest, RequestState, Steps, OfMember
<1>3. Filled(r) /\ Backed(r) /\ UserGrounds(r) /\ ProjectGrounds(r)
  BY <1>1 DEF Idle, MemberRequest, Filled, Backed, UserGrounds, ProjectGrounds, Registering,
         Profiling, OfUser, Mailing, OfMember, OfProject
<1>4. Sound(r)
  BY <1>2, <1>3 DEF Sound, Idle, MemberRequest, Mailing, OfMember
<1> HIDE DEF r
<1> QED
  BY <1>1, <1>4, BeginSound DEF r

\* ProjectPost, by a user who is there.
LEMMA ProjectBegins ==
  ASSUME IInv, NEW o \in Requests, NEW b \in Users, NEW t \in Titles, ProjectPost(o, b, t)
  PROVE  IInv'
<1> DEFINE r == [Idle EXCEPT !.step = "project_insert", !.user = b, !.title = t,
                             !.role = ProjectAdmin, !.about = {b, t}]
<1>1. user[b] # None
  BY DEF ProjectPost, ValidateUser, Live, Exists
<1>2. r \in RequestState
  BY DEF Idle, RequestState, Steps, Roles
<1>3. Filled(r) /\ Backed(r) /\ UserGrounds(r) /\ ProjectGrounds(r)
  BY <1>1 DEF Idle, Filled, Backed, UserGrounds, ProjectGrounds, Registering, Profiling, OfUser,
         Mailing, OfMember, OfProject, Roles
<1>4. Sound(r)
  BY <1>2, <1>3 DEF Sound, Idle, Mailing
<1>5. Begin(o, r)
  BY DEF ProjectPost
<1> HIDE DEF r
<1> QED
  BY <1>4, <1>5, BeginSound

\* ProjectDelete, about the project and the name it has.
LEMMA DeletionBegins ==
  ASSUME IInv, NEW o \in Requests, NEW b \in Users, NEW p \in Projects, ProjectDelete(o, b, p)
  PROVE  IInv'
<1> DEFINE r == [Idle EXCEPT !.step = "project_delete", !.project = p,
                             !.about = {b, p, project[p].title}]
<1>1. project[p] # None /\ project[p].title \in Titles
  BY DEF ProjectDelete, MayManage, LiveProject, IInv, TypeInv, TypeOK, ProjectRow
<1>2. r \in RequestState
  BY <1>1 DEF Idle, RequestState, Steps
<1>3. Filled(r) /\ Backed(r) /\ UserGrounds(r) /\ ProjectGrounds(r)
  BY <1>1 DEF Idle, Filled, Backed, UserGrounds, ProjectGrounds, Registering, Profiling, OfUser,
         Mailing, OfMember, OfProject
<1>4. Sound(r)
  BY <1>2, <1>3 DEF Sound, Idle, Mailing
<1>5. Begin(o, r)
  BY DEF ProjectDelete
<1> HIDE DEF r
<1> QED
  BY <1>4, <1>5, BeginSound

\* Checks: the fields stay as they are.
LEMMA Checks ==
  ASSUME IInv, NEW o \in Requests, RegisterEmail(o) \/ LdapGet(o) \/ ProfileEmail(o)
  PROVE  IInv'
<1> DEFINE on(next) == [req[o] EXCEPT !.step = next]
<1>1. req[o] \in RequestState /\ Filled(req[o]) /\ Backed(req[o])
      /\ (req[o].clean => UserGrounds(req[o]))
  BY DEF IInv, TypeInv, TypeOK, UserInv
<1>2. req[o].step = "register_email" => Sound(on("register_insert"))
  <2> SUFFICES ASSUME req[o].step = "register_email" PROVE Sound(on("register_insert"))
    OBVIOUS
  <2>1. on("register_insert") \in RequestState
    BY <1>1 DEF RequestState, Steps
  <2>2. Filled(on("register_insert")) /\ Backed(on("register_insert"))
    BY <1>1 DEF Filled, Backed, RequestState, Registering, Profiling, OfUser, Mailing,
                OfMember, OfProject
  <2>3. UserGrounds(on("register_insert")) /\ ProjectGrounds(on("register_insert"))
    BY <1>1 DEF UserGrounds, ProjectGrounds, RequestState, Profiling, Mailing
  <2> QED
    BY <1>1, <2>1, <2>2, <2>3 DEF Sound, RequestState, Mailing
<1>3. req[o].step = "profile_email" => Sound(on("profile_update"))
  <2> SUFFICES ASSUME req[o].step = "profile_email" PROVE Sound(on("profile_update"))
    OBVIOUS
  <2>1. on("profile_update") \in RequestState
    BY <1>1 DEF RequestState, Steps
  <2>2. Filled(on("profile_update")) /\ Backed(on("profile_update"))
    BY <1>1 DEF Filled, Backed, RequestState, Registering, Profiling, OfUser, Mailing,
                OfMember, OfProject
  <2>3. on("profile_update").clean =>
          UserGrounds(on("profile_update")) /\ ProjectGrounds(on("profile_update"))
    BY <1>1 DEF UserGrounds, ProjectGrounds, RequestState, Profiling, Mailing
  <2> QED
    BY <1>1, <2>1, <2>2, <2>3 DEF Sound, RequestState, Mailing
<1>4. PICK r : /\ Sound(r) /\ req' = [req EXCEPT ![o] = r]
               /\ req[o].step \in {"register_email", "ldap_get", "profile_email"}
               /\ UNCHANGED <<mode, tables, begun, faults, history>>
  BY <1>2, <1>3, IdleSound DEF RegisterEmail, LdapGet, ProfileEmail, Check, At
<1>5. UNCHANGED <<mode, tables, resigned, wanted, lastMail, resets>> /\ Onwards
      /\ raced' \in BOOLEAN /\ begun' \in 0..MaxRequests /\ faults' \in 0..MaxFaults
  BY <1>4 DEF history, Onwards, IInv, TypeInv, TypeOK
<1> HIDE DEF Sound
<1> QED
  BY <1>4, <1>5, Silent

\* A statement that fails: the properties of a run without faults ask for nothing more.
LEMMA Failures ==
  ASSUME IInv, NEW o \in Requests, StatementFails(o)
  PROVE  IInv'
<1>1. UNCHANGED <<mode, tables, resigned, wanted, lastMail, resets>> /\ Onwards
      /\ raced' \in BOOLEAN /\ begun' \in 0..MaxRequests /\ faults' \in 0..MaxFaults
      /\ faults' # 0
  BY AccountsAssumption DEF StatementFails, history, Onwards, IInv, TypeInv, TypeOK
<1>2. req' = [req EXCEPT ![o] = Idle]
  BY DEF StatementFails
<1> HIDE DEF Sound
<1> QED
  BY <1>1, <1>2, IdleSound, Silent

\* A refused request ends; if that is no race it was clean.
LEMMA RefusedShape ==
  ASSUME IInv, NEW o \in Requests, NEW s, Refused(o, s)
  PROVE  /\ req[o].step = s /\ req' = [req EXCEPT ![o] = Idle]
         /\ UNCHANGED <<mode, tables, begun, faults, resigned, wanted, lastMail,
                     resets>>
         /\ Onwards /\ raced' \in BOOLEAN /\ (~raced' => ~raced /\ req[o].clean)
         /\ begun' \in 0..MaxRequests /\ faults' \in 0..MaxFaults
BY DEF Refused, At, Onwards, IInv, TypeInv, TypeOK

\* Changes that a unique index or a where clause refuses, with nobody who waits for them.
LEMMA Refusals ==
  ASSUME IInv, NEW o \in Requests,
         \/ InsertRefused(o) \/ ProfileRefused(o) \/ PasswordRefused(o) \/ ResetRefused(o)
         \/ ProjectRefused(o)
  PROVE  IInv'
<1>1. PICK s \in {"register_insert", "profile_update", "password_update", "reset_update",
                  "project_insert"} : Refused(o, s)
  BY DEF InsertRefused, ProfileRefused, PasswordRefused, ResetRefused, ProjectRefused
<1>2. /\ req[o].step = s /\ req' = [req EXCEPT ![o] = Idle]
      /\ UNCHANGED <<mode, tables, begun, faults, resigned, wanted, lastMail,
                     resets>>
      /\ Onwards /\ raced' \in BOOLEAN
      /\ begun' \in 0..MaxRequests /\ faults' \in 0..MaxFaults
  BY <1>1, RefusedShape
<1> HIDE DEF Sound
<1> QED
  BY <1>2, IdleSound, Silent

\* Types and users, when request o ends and nothing else changes.
LEMMA EndsQuietly ==
  ASSUME IInv, NEW o \in Requests, NEW s \in {"member_insert", "quota_insert"}, Refused(o, s)
  PROVE  /\ TypeInv' /\ UserInv' /\ Others(o) /\ req'[o] = Idle
         /\ UNCHANGED <<user, project, member, wanted, faults>>
         /\ \A q \in Requests \ {o} : req'[q] = req[q]
<1>1. /\ req[o].step = s /\ req' = [req EXCEPT ![o] = Idle]
      /\ UNCHANGED <<mode, user, project, member, begun, faults, resigned, wanted, lastMail,
                     resets>>
      /\ Onwards /\ raced' \in BOOLEAN /\ begun' \in 0..MaxRequests /\ faults' \in 0..MaxFaults
  BY RefusedShape DEF tables
<1>2. Idle \in RequestState /\ Filled(Idle)
  BY IdleSound DEF Sound
<1>3. /\ req' \in [Requests -> RequestState] /\ req'[o] = Idle /\ Others(o)
      /\ \A q \in Requests \ {o} : req'[q] = req[q]
  BY <1>1, <1>2, MoveShape DEF IInv
<1>4. TablesOK' /\ HistoryOK' /\ RowsStay
  BY <1>1 DEF IInv, TypeInv, TypeOK, TablesOK, HistoryOK, RowsStay, Live, LiveProject, Exists
<1>5. BackedNext(Idle)
  BY DEF BackedNext, Idle, OfUser, OfProject, OfMember, Profiling
<1>6. TypeInv'
  BY <1>1, <1>2, <1>3, <1>4, <1>5, TypeStep DEF IInv
<1>7. UserSilent(o)
  BY <1>1, <1>3 DEF UserSilent, Idle, Mailing
<1>8. UserGrounds(req[o])'
  BY <1>3 DEF UserGrounds, Idle, Profiling, Mailing
<1>9. UserInv'
  BY <1>1, <1>3, <1>7, <1>8, UserFrame DEF IInv
<1> QED
  BY <1>1, <1>3, <1>6, <1>9

\* The grounds of projects stay where no row of a project changes.
LEMMA GroundsStay ==
  ASSUME ProjectInv, NEW o \in Requests, raced => raced', UNCHANGED <<project, member>>,
         req'[o] = Idle, \A q \in Requests \ {o} : req'[q] = req[q]
  PROVE  /\ ProjectRows' /\ Creations' /\ Deletions'
         /\ ~raced' => /\ \A q \in Requests : req'[q].clean => ProjectGrounds(req[q])'
                       /\ \A p \in Projects : LiveProject(p)' =>
                            project'[p].quota \in {None, project'[p].title}
<1>1. ProjectRows'
  BY DEF ProjectInv, ProjectRows
<1>2. Creations' /\ Deletions'
  BY DEF ProjectInv, Creations, Deletions, Creating, At, Idle
<1>3. ASSUME ~raced', NEW q \in Requests, req'[q].clean PROVE ProjectGrounds(req[q])'
  <2>1. CASE q = o
    BY <2>1 DEF ProjectGrounds, Idle
  <2>2. CASE q # o
    BY <1>3, <2>2 DEF ProjectInv, ProjectGrounds, TitleTaken
  <2> QED
    BY <2>1, <2>2
<1>4. ASSUME ~raced' PROVE \A p \in Projects : LiveProject(p)' =>
                            project'[p].quota \in {None, project'[p].title}
  BY <1>4 DEF ProjectInv, LiveProject
<1> QED
  BY <1>1, <1>2, <1>3, <1>4

\* A member is there already: a request that makes a project has not met that if it is clean.
LEMMA MemberRefusals ==
  ASSUME IInv, NEW o \in Requests, MemberRefused(o)
  PROVE  IInv'
<1>1. /\ TypeInv' /\ UserInv' /\ Others(o) /\ req'[o] = Idle
      /\ UNCHANGED <<user, project, member, wanted, faults>>
      /\ \A q \in Requests \ {o} : req'[q] = req[q]
  BY EndsQuietly DEF MemberRefused
<1>2. req[o].step = "member_insert" /\ (raced => raced') /\ (~raced' => ~raced /\ req[o].clean)
  BY RefusedShape DEF MemberRefused, Onwards
<1>3. member[<<req[o].project, req[o].user>>] # None
  BY DEF MemberRefused
<1>4. MemberPending'
  BY <1>1, <1>3 DEF IInv, ProjectInv, MemberPending, At
<1>5. ASSUME faults' = 0, ~raced' PROVE QuotaPending'
  <2>1. ProjectGrounds(req[o]) /\ QuotaPending
    BY <1>1, <1>2, <1>5 DEF IInv, ProjectInv
  <2>2. ~Creating(o) /\ ~At(o, "quota_delete")
    BY <1>2, <1>3, <2>1 DEF ProjectGrounds, Creating, At
  <2> QED
    BY <1>1, <2>1, <2>2 DEF QuotaPending, Creating, At
<1>6. ProjectInv'
  BY <1>1, <1>2, <1>4, <1>5, GroundsStay DEF IInv, ProjectInv
<1> QED
  BY <1>1, <1>6 DEF IInv

\* The name is in a quota row already: a request that is not clean is yet to remove that row.
LEMMA QuotaRefusals ==
  ASSUME IInv, NEW o \in Requests, QuotaRefused(o)
  PROVE  IInv'
<1>1. /\ TypeInv' /\ UserInv' /\ Others(o) /\ req'[o] = Idle
      /\ UNCHANGED <<user, project, member, wanted, faults>>
      /\ \A q \in Requests \ {o} : req'[q] = req[q]
  BY EndsQuietly DEF QuotaRefused
<1>2. req[o].step = "quota_insert" /\ (raced => raced') /\ (~raced' => ~raced /\ req[o].clean)
  BY RefusedShape DEF QuotaRefused, Onwards
<1>3. QuotaNameTaken(req[o].title) /\ req[o].title \in Titles /\ req[o].title # None
      /\ req[o].project \in Projects /\ project[req[o].project] # None
  BY <1>2, AccountsAssumption DEF QuotaRefused, IInv, TypeInv, Filled, Backed, OfProject
<1>4. MemberPending'
  BY <1>1, <1>2 DEF IInv, ProjectInv, MemberPending, At
<1>5. ASSUME faults' = 0, ~raced' PROVE QuotaPending'
  <2>1. ProjectGrounds(req[o]) /\ QuotaPending
        /\ \A q \in Requests : req[q].clean => ProjectGrounds(req[q])
    BY <1>1, <1>2, <1>5 DEF IInv, ProjectInv
  <2>2. PICK x \in Projects : project[x] # None /\ project[x].quota = req[o].title
    BY <1>3 DEF QuotaNameTaken
  <2>3. project[req[o].project].title = req[o].title /\ project[req[o].project].quota = None
    BY <1>2, <1>3, <2>1 DEF ProjectGrounds, IInv, ProjectInv, Creations, Creating
  <2>4. x # req[o].project /\ project[x].title # req[o].title
    BY <1>3, <2>2, <2>3 DEF IInv, ProjectInv, ProjectRows
  <2>5. PICK q \in Requests : \/ req[q].project = x /\ (Creating(q) \/ At(q, "quota_delete"))
                              \/ At(q, "quota_delete") /\ ~req[q].clean
    BY <2>1, <2>2, <2>4 DEF QuotaPending
  <2>6. ~Creating(q) \/ req[q].project # x
    BY <1>3, <2>2 DEF IInv, ProjectInv, Creations
  <2>7. At(q, "quota_delete") /\ ~req[q].clean
    <3>1. ASSUME At(q, "quota_delete"), req[q].clean, req[q].project = x PROVE FALSE
      <4>1. TitleTaken(req[o].title)
        BY <1>3, <2>3 DEF TitleTaken
      <4> QED
        BY <1>3, <2>1, <2>2, <3>1, <4>1 DEF ProjectGrounds, At
    <3> QED
      BY <2>5, <2>6, <3>1
  <2>8. q # o
    BY <1>2, <2>7 DEF At
  <2> QED
    BY <1>1, <2>7, <2>8 DEF QuotaPending, At
<1>6. ProjectInv'
  BY <1>1, <1>2, <1>4, <1>5, GroundsStay DEF IInv, ProjectInv
<1> QED
  BY <1>1, <1>6 DEF IInv

-----------------------------------------------------------------------------
(***************************************************************************)
(* Changes of users.                                                       *)
(***************************************************************************)
UserSteps == {"register_insert", "profile_update", "user_delete", "toggle", "password_update",
              "mail_store", "reset_update"}

\* Such a change is no matter of projects, and its request ends.
LEMMA UserChange ==
  ASSUME IInv, NEW o \in Requests, NEW s \in UserSteps, Change(o, s, "idle"),
         UNCHANGED <<project, member, wanted>>,
         user' \in [Users -> UserRow \cup {None}],
         \A x \in Users : user[x] # None => user'[x] # None,
         \A x \in Users : Live(x)' => user'[x].name # None /\ user'[x].email # None,
         resigned' \in BOOLEAN, resigned => resigned',
         lastMail' \in [Users -> Links \cup {None}], resets' \in [Links -> Nat]
  PROVE  /\ TypeInv' /\ ProjectInv' /\ Others(o) /\ Apart(o) /\ req'[o] = Idle
         /\ req[o].step = s /\ faults' = faults /\ (~raced' => ~raced /\ req[o].clean)
<1>1. Idle \in RequestState /\ Filled(Idle)
  BY IdleSound DEF Sound
<1>2. /\ req' \in [Requests -> RequestState] /\ req'[o] = Idle /\ Others(o) /\ Apart(o)
      /\ req[o].step = s
      /\ raced' \in BOOLEAN /\ (~raced' => ~raced /\ req[o].clean)
      /\ UNCHANGED <<mode, begun, faults>>
  BY <1>1, ChangeShape DEF Change, IInv
<1>3. TablesOK' /\ RowsStay
  BY DEF IInv, TypeInv, TypeOK, TablesOK, RowsStay, LiveProject
<1>4. HistoryOK'
  BY <1>2 DEF IInv, TypeInv, TypeOK, HistoryOK
<1>5. BackedNext(Idle)
  BY DEF BackedNext, Idle, OfUser, OfProject, OfMember, Profiling
<1>6. begun' \in 0..MaxRequests /\ faults' \in 0..MaxFaults
  BY <1>2 DEF IInv, TypeInv, TypeOK
<1>7. TypeInv'
  BY <1>1, <1>2, <1>3, <1>4, <1>5, <1>6, TypeStep DEF IInv
<1>8. Onwards
  BY <1>2 DEF Onwards
<1>9. ProjectSilent(o)
  BY <1>2 DEF ProjectSilent, Idle, UserSteps
<1>10. ProjectGrounds(req[o])'
  BY <1>2 DEF ProjectGrounds, Idle
<1>11. ProjectInv'
  BY <1>2, <1>8, <1>9, <1>10, ProjectFrame DEF IInv
<1> QED
  BY <1>2, <1>7, <1>11

\* The row of user u gets a new state; o has finished.  Its address, if it is a new one, is
\* what o is about, and so is the user, unless the row is new.
RowChange(o, u) ==
  /\ u \in Users /\ (u \in req[o].about \/ user[u] = None)
  /\ \A x \in Users \ {u} : user'[x] = user[x]
  /\ user'[u] # None
  /\ user[u] = None => user'[u].link = None
  /\ user[u] # None => user'[u].link = user[u].link /\ (user[u].deleted => user'[u].deleted)
  /\ \/ user'[u].email = None
     \/ user'[u].email \in req[o].about
     \/ user[u] # None /\ user'[u].email = user[u].email

\* What others that stay clean count on is still there.
LEMMA GroundsKept ==
  ASSUME TypeInv, UserInv, NEW o \in Requests, NEW u, RowChange(o, u), Others(o), Apart(o),
         NEW q \in Requests \ {o}, req'[q].clean
  PROVE  UserGrounds(req[q])'
<1>1. UserGrounds(req[q]) /\ Kept(q) /\ req[q].about \cap req[o].about = {}
  BY DEF UserInv, Others, Apart
<1>2. Filled(req[q]) /\ Backed(req[q])
  BY DEF TypeInv
<1>3. \A x \in Users \cap req[q].about : user[x] # None => user'[x] = user[x]
  BY <1>1 DEF RowChange
<1>4. req[q].step = "ldap_get" =>
        \E x \in Users \cap req[q].about : Live(x)' /\ user'[x].name = req[q].name
  BY <1>1, <1>3 DEF UserGrounds, Live, Exists
<1>5. req[q].step \in Profiling => ~user'[req[q].user].deleted
  BY <1>1, <1>2, <1>3 DEF UserGrounds, Filled, Backed, OfUser
<1>6. req[q].step = "user_delete" =>
        \E b \in Users \cap req[q].about : b # req[q].user /\ IsAdminRole(b)'
  BY <1>1, <1>3 DEF UserGrounds, IsAdminRole, Live, Exists
<1>7. req[q].step = "toggle" => req[q].by \in Users \cap req[q].about /\ IsAdminRole(req[q].by)'
  BY <1>1, <1>3 DEF UserGrounds, IsAdminRole, Live, Exists, Kept
<1>8. ASSUME req[q].step \in Mailing, NEW x \in Users, user'[x] # None,
             user'[x].email = req[q].email
      PROVE  x \in req[q].about
  <2>1. req[q].email \in Emails /\ req[q].email \in req[q].about /\ req[q].email # None
    BY <1>2, <1>8, AccountsAssumption DEF Filled
  <2>2. user[x] # None /\ user[x].email = req[q].email
    BY <1>1, <1>8, <2>1 DEF RowChange
  <2> QED
    BY <1>1, <1>8, <2>2 DEF UserGrounds, Exists
<1> QED
  BY <1>1, <1>4, <1>5, <1>6, <1>7, <1>8 DEF UserGrounds, Kept, Exists, IsAdminRole, Live

\* A row changes that is no matter of links and mails: what else there is to show.
LEMMA RowChanges ==
  ASSUME TypeInv, UserInv, NEW o \in Requests, NEW u, RowChange(o, u), Others(o), Apart(o),
         req[o].step \notin Mailing, req'[o] = Idle, UNCHANGED <<faults, lastMail, resets>>,
         ~raced' => ~raced /\ req[o].clean,
         UserRows', NamesFree', AdminLeft'
  PROVE  UserInv'
<1>1. LinkRows'
  BY DEF UserInv, LinkRows, RowChange, Exists
<1>2. LinkRequests'
  <2>1. \A q \in Requests : req[q].step \in Mailing => req[q].link \in Links /\ req[q].link # None
    BY AccountsAssumption DEF TypeInv, Filled
  <2>2. \A q \in Requests : req'[q].step \in Mailing => q # o
    BY DEF Idle, Mailing
  <2>3. \A q \in Requests \ {o} : Kept(q)
    BY DEF Others
  <2>4. \A x \in Users : \A l : l # None /\ (Exists(x) => user[x].link # l) =>
                                 (user'[x] # None => user'[x].link # l)
    BY DEF RowChange, Exists
  <2> QED
    BY <2>1, <2>2, <2>3, <2>4 DEF UserInv, LinkRequests, Exists, Kept
<1>3. \A q \in Requests : req'[q].clean => UserGrounds(req[q])'
  <2>1. UserGrounds(req[o])'
    BY DEF UserGrounds, Idle, Profiling, Mailing
  <2> QED
    BY <2>1, GroundsKept
<1>4. ASSUME faults' = 0, ~raced' PROVE MailSent'
  <2>1. MailSent /\ \A q \in Requests : req[q].clean => UserGrounds(req[q])
    BY <1>4 DEF UserInv
  <2>2. SUFFICES ASSUME NEW x \in Users, user'[x] # None, ~user'[x].deleted,
                        lastMail[x] # None, lastMail[x] # user'[x].link
                 PROVE  \E q \in Requests : /\ req'[q].step = "mail_store"
                                            /\ req'[q].link = lastMail[x]
                                            /\ req'[q].email = user'[x].email \/ ~req'[q].clean
    BY DEF MailSent, Live, Exists, At
  <2>3. user[x] # None
    BY <2>2 DEF UserInv, UserRows, Exists
  <2>4. ~user[x].deleted /\ lastMail[x] # user[x].link
    BY <2>2, <2>3 DEF RowChange
  <2>5. PICK q \in Requests : /\ req[q].step = "mail_store" /\ req[q].link = lastMail[x]
                              /\ req[q].email = user[x].email \/ ~req[q].clean
    BY <2>1, <2>2, <2>3, <2>4 DEF MailSent, Live, Exists, At
  <2>6. q # o
    BY <2>5 DEF Mailing
  <2>7. Kept(q) /\ (req'[q].clean => req[q].clean /\ req[q].about \cap req[o].about = {})
    BY <2>6 DEF Others, Apart
  <2>8. ASSUME req'[q].clean PROVE user'[x].email = req[q].email
    <3>1. x \in req[q].about /\ req[q].email = user[x].email
      BY <2>1, <2>3, <2>5, <2>7, <2>8 DEF UserGrounds, Mailing, Exists
    <3> QED
      BY <2>3, <2>7, <2>8, <3>1 DEF RowChange
  <2> QED
    BY <2>5, <2>7, <2>8 DEF Kept
<1>5. ASSUME faults' = 0, ~raced' PROVE MailStored'
  <2>1. MailStored
    BY <1>5 DEF UserInv
  <2>2. SUFFICES ASSUME NEW q \in Requests, req'[q].step = "mail_store", req'[q].clean,
                        NEW x \in Users, user'[x] # None, user'[x].email = req'[q].email
                 PROVE  \E y \in Requests : /\ req'[y].step = "mail_store"
                                            /\ req'[y].link = lastMail[x]
                                            /\ req'[y].email = req'[q].email
    BY DEF MailStored, Exists, At
  <2>3. q # o
    BY <2>2 DEF Idle
  <2>4. Kept(q) /\ req[q].clean /\ req[q].about \cap req[o].about = {}
    BY <2>2, <2>3 DEF Others, Apart
  <2>5. req[q].email \in req[q].about /\ req[q].email # None
    BY <2>2, <2>4, AccountsAssumption DEF TypeInv, Filled, Kept, Mailing
  <2>6. user[x] # None /\ user[x].email = req[q].email
    BY <2>2, <2>4, <2>5 DEF RowChange, Kept
  <2>7. PICK y \in Requests : /\ req[y].step = "mail_store" /\ req[y].link = lastMail[x]
                              /\ req[y].email = req[q].email
    BY <2>1, <2>2, <2>4, <2>6 DEF MailStored, Exists, At, Kept
  <2>8. Kept(y)
    BY <2>7 DEF Others, Mailing
  <2> QED
    BY <2>4, <2>7, <2>8 DEF Kept
<1> QED
  BY <1>1, <1>2, <1>3, <1>4, <1>5 DEF UserInv

\* The changes that RowChanges is about, with what it asks for besides.
LEMMA Inserts ==
  ASSUME IInv, NEW o \in Requests, NEW u \in Users, NEW pw \in Passwords, Insert(o, u, pw)
  PROVE  IInv'
<1> DEFINE row == [name |-> req[o].name, email |-> req[o].email, password |-> pw, link |-> None,
                   admin |-> FALSE, deleted |-> FALSE]
<1>1. /\ Change(o, "register_insert", "idle") /\ user[u] = None
      /\ ~EmailTaken(req[o].email)
      /\ UNCHANGED <<project, member, resigned, wanted, lastMail, resets>>
      /\ user' = [user EXCEPT ![u] = row]
  BY DEF Insert, Exists
<1>2. req[o].step = "register_insert"
  BY <1>1 DEF Change, ChangeTo, At
<1>3. /\ req[o].name \in Names /\ req[o].email \in Emails /\ req[o].email \in req[o].about
      /\ req[o].name # None /\ req[o].email # None
  BY <1>2, AccountsAssumption DEF IInv, TypeInv, Filled, Registering
<1>4. row \in UserRow /\ row # None /\ row.name # None /\ row.email = req[o].email
      /\ row.link = None /\ ~row.deleted
  <2>1. row \in UserRow
    BY <1>3 DEF UserRow
  <2>2. row.name # None /\ row.email = req[o].email /\ row.link = None /\ ~row.deleted
    BY <1>3
  <2> HIDE DEF row
  <2>3. row # None
    BY <2>1, AccountsAssumption
  <2> QED
    BY <2>1, <2>2, <2>3
<1> HIDE DEF row
<1>5. user \in [Users -> UserRow \cup {None}]
  BY DEF IInv, TypeInv, TypeOK
<1>6. user'[u] = row /\ (\A x \in Users \ {u} : user'[x] = user[x])
      /\ user' \in [Users -> UserRow \cup {None}]
  BY <1>1, <1>4, <1>5
<1>7. \A x \in Users : Live(x)' => user'[x].name # None /\ user'[x].email # None
  BY <1>3, <1>4, <1>6 DEF Live, Exists, IInv, TypeInv, TypeOK
<1>8. /\ TypeInv' /\ ProjectInv' /\ Others(o) /\ Apart(o) /\ req'[o] = Idle
      /\ faults' = faults /\ (~raced' => ~raced /\ req[o].clean)
  <2>1. \A x \in Users : user[x] # None => user'[x] # None
    BY <1>4, <1>6
  <2>2. /\ resigned' \in BOOLEAN /\ (resigned => resigned')
        /\ lastMail' \in [Users -> Links \cup {None}] /\ resets' \in [Links -> Nat]
    BY <1>1 DEF IInv, TypeInv, TypeOK
  <2> QED
    BY <1>1, <1>6, <1>7, <2>1, <2>2, UserChange DEF UserSteps
<1>9. RowChange(o, u)
  BY <1>1, <1>3, <1>4, <1>6 DEF RowChange
<1>10. UserRows'
  <2>1. \A x \in Users \ {u} : user[x] # None => user[x].email # req[o].email
    BY <1>1 DEF EmailTaken, Exists
  <2> QED
    BY <1>1, <1>4, <1>6, <2>1 DEF IInv, UserInv, UserRows, Exists
<1>11. NamesFree'
  BY <1>4, <1>6, <1>8 DEF IInv, UserInv, NamesFree, Exists
<1>12. AdminLeft'
  <2> SUFFICES ASSUME ~raced', ~resigned' PROVE \E x \in Users : IsAdminRole(x)'
    BY DEF AdminLeft
  <2>1. PICK b \in Users : IsAdminRole(b)
    BY <1>1, <1>8 DEF IInv, UserInv, AdminLeft
  <2>2. b # u
    BY <1>1, <2>1 DEF IsAdminRole, Live, Exists
  <2> QED
    BY <1>6, <2>1, <2>2 DEF IsAdminRole, Live, Exists
<1>13. req[o].step \notin Mailing
  BY <1>2 DEF Mailing
<1>14. UserInv'
  BY <1>1, <1>8, <1>9, <1>10, <1>11, <1>12, <1>13, RowChanges DEF IInv
<1> QED
  BY <1>8, <1>14 DEF IInv

\* The row of the user that a request names gets the state row.
LEMMA Edits ==
  ASSUME IInv, NEW o \in Requests,
         NEW s \in {"profile_update", "user_delete", "toggle", "password_update"},
         NEW row, Change(o, s, "idle"), user' = [user EXCEPT ![req[o].user] = row],
         UNCHANGED <<project, member, wanted, lastMail, resets>>,
         row \in UserRow, row.link = user[req[o].user].link,
         user[req[o].user].deleted => row.deleted,
         ~row.deleted => row.name # None /\ row.email # None,
         row.deleted => row.name = None,
         \/ row.email = None \/ row.email = user[req[o].user].email
         \/ /\ row.email \in req[o].about
            /\ \A x \in Users \ {req[o].user} : user[x] # None => user[x].email # row.email,
         ~raced /\ req[o].clean => (row.deleted => row.email = None),
         resigned' \in BOOLEAN, resigned => resigned',
         ~raced /\ ~resigned' /\ req[o].clean =>
           \/ row.admin /\ ~row.deleted
           \/ \E b \in Users \ {req[o].user} : IsAdminRole(b)
  PROVE  IInv'
<1> DEFINE u == req[o].user
<1>1. req[o].step = s
  BY DEF Change, ChangeTo, At
<1>2. u \in Users /\ u \in req[o].about /\ user[u] # None
  BY <1>1 DEF IInv, TypeInv, Filled, Backed, OfUser, Profiling
<1>3. user \in [Users -> UserRow \cup {None}] /\ row # None
  BY AccountsAssumption DEF IInv, TypeInv, TypeOK
<1>4. user'[u] = row /\ (\A x \in Users \ {u} : user'[x] = user[x])
      /\ user' \in [Users -> UserRow \cup {None}]
  BY <1>2, <1>3
<1>5. \A x \in Users : Live(x)' => user'[x].name # None /\ user'[x].email # None
  BY <1>4 DEF Live, Exists, IInv, TypeInv, TypeOK
<1>6. /\ TypeInv' /\ ProjectInv' /\ Others(o) /\ Apart(o) /\ req'[o] = Idle
      /\ faults' = faults /\ (~raced' => ~raced /\ req[o].clean)
  <2>1. \A x \in Users : user[x] # None => user'[x] # None
    BY <1>3, <1>4
  <2>2. /\ lastMail' \in [Users -> Links \cup {None}] /\ resets' \in [Links -> Nat]
    BY DEF IInv, TypeInv, TypeOK
  <2> QED
    BY <1>4, <1>5, <2>1, <2>2, UserChange DEF UserSteps
<1>7. RowChange(o, u)
  BY <1>2, <1>3, <1>4 DEF RowChange
<1>8. UserRows'
  BY <1>2, <1>3, <1>4 DEF IInv, UserInv, UserRows, Exists
<1>9. NamesFree'
  BY <1>4, <1>6 DEF IInv, UserInv, NamesFree, Exists
<1>10. AdminLeft'
  <2> SUFFICES ASSUME ~raced', ~resigned' PROVE \E x \in Users : IsAdminRole(x)'
    BY DEF AdminLeft
  <2>1. CASE row.admin /\ ~row.deleted
    BY <1>2, <1>3, <1>4, <2>1 DEF IsAdminRole, Live, Exists
  <2>2. CASE \E b \in Users \ {u} : IsAdminRole(b)
    BY <1>4, <2>2 DEF IsAdminRole, Live, Exists
  <2> QED
    BY <1>6, <2>1, <2>2
<1>11. req[o].step \notin Mailing
  BY <1>1 DEF Mailing
<1>12. UserInv'
  <2> HIDE DEF u
  <2> QED
    BY <1>6, <1>7, <1>8, <1>9, <1>10, <1>11, RowChanges DEF IInv
<1> QED
  BY <1>6, <1>12 DEF IInv

\* What is known of the row that a request of a user is about to change.
LEMMA RowOf ==
  ASSUME IInv, NEW o \in Requests, req[o].step \in OfUser
  PROVE  /\ req[o] \in RequestState /\ req[o].user \in Users
         /\ user[req[o].user] \in UserRow /\ user[req[o].user] # None
         /\ user[req[o].user].deleted => user[req[o].user].name = None
         /\ ~user[req[o].user].deleted =>
              user[req[o].user].name # None /\ user[req[o].user].email # None
         /\ ~raced /\ user[req[o].user].deleted => user[req[o].user].email = None
         /\ req[o].clean => UserGrounds(req[o])
<1>1. req[o] \in RequestState /\ req[o].user \in Users /\ user[req[o].user] # None
  BY DEF IInv, TypeInv, TypeOK, Filled, Backed
<1>2. user[req[o].user] \in UserRow
  BY <1>1 DEF IInv, TypeInv, TypeOK
<1> QED
  BY <1>1, <1>2 DEF IInv, TypeInv, TypeOK, UserInv, UserRows, NamesFree, Live, Exists

\* Some admin is left if the row of this one stays.
LEMMA OthersAdmin ==
  ASSUME IInv, ~raced, ~resigned, NEW u \in Users
  PROVE  (user[u].admin /\ ~user[u].deleted) \/ \E b \in Users \ {u} : IsAdminRole(b)
BY DEF IInv, UserInv, AdminLeft, IsAdminRole, Live

\* ProfileUpdate: the index keeps addresses unique; a clean request finds no deleted user.
LEMMA Profiles ==
  ASSUME IInv, NEW o \in Requests, ProfileUpdate(o)
  PROVE  IInv'
<1> DEFINE u == req[o].user
           row == [user[u] EXCEPT !.email = req[o].email]
<1>1. req[o].step = "profile_update" /\ Change(o, "profile_update", "idle") /\ ~EmailOfOther(o)
      /\ UNCHANGED <<project, member, resigned, wanted, lastMail, resets>>
      /\ user' = [user EXCEPT ![u].email = req[o].email]
  BY DEF ProfileUpdate, Change, ChangeTo, At
<1>2. /\ u \in Users /\ user[u] \in UserRow
      /\ user[u].deleted => user[u].name = None
      /\ ~user[u].deleted => user[u].name # None
      /\ req[o].clean => ~user[u].deleted
  BY <1>1, RowOf DEF OfUser, Profiling, UserGrounds
<1>3. req[o].email \in Emails /\ req[o].email # None /\ req[o].email \in req[o].about
  BY <1>1, AccountsAssumption DEF IInv, TypeInv, Filled, Profiling
<1>4. row \in UserRow /\ row.email = req[o].email /\ row.name = user[u].name
      /\ row.link = user[u].link /\ row.deleted = user[u].deleted /\ row.admin = user[u].admin
  BY <1>2, <1>3 DEF UserRow
<1>5. user' = [user EXCEPT ![u] = row]
  BY <1>1
<1>6. \A x \in Users \ {u} : user[x] # None => user[x].email # row.email
  BY <1>1, <1>4 DEF EmailOfOther, Exists
<1>7. ~raced /\ ~resigned => \/ row.admin /\ ~row.deleted
                             \/ \E b \in Users \ {u} : IsAdminRole(b)
  BY <1>2, <1>4, OthersAdmin
<1>8. resigned \in BOOLEAN
  BY DEF IInv, TypeInv, TypeOK
<1> HIDE DEF row
<1> QED
  BY <1>1, <1>2, <1>3, <1>4, <1>5, <1>6, <1>7, <1>8, Edits

\* UserDelete: the admin who has asked for it is left.
LEMMA UserDeletes ==
  ASSUME IInv, NEW o \in Requests, UserDelete(o)
  PROVE  IInv'
<1> DEFINE u == req[o].user
           row == [user[u] EXCEPT !.name = None, !.email = None, !.deleted = TRUE]
<1>1. req[o].step = "user_delete" /\ Change(o, "user_delete", "idle")
      /\ UNCHANGED <<project, member, resigned, wanted, lastMail, resets>>
      /\ user' = [user EXCEPT ![u] = row]
  BY DEF UserDelete, Delete, Change, ChangeTo, At
<1>2. u \in Users /\ user[u] \in UserRow
      /\ (req[o].clean => \E b \in Users \ {u} : IsAdminRole(b))
  BY <1>1, RowOf DEF OfUser, UserGrounds
<1>3. row \in UserRow /\ row.email = None /\ row.name = None /\ row.link = user[u].link
      /\ row.deleted
  BY <1>2 DEF UserRow
<1>4. resigned \in BOOLEAN
  BY DEF IInv, TypeInv, TypeOK
<1> HIDE DEF row
<1> QED
  BY <1>1, <1>2, <1>3, <1>4, Edits

\* ToggleUserAdminRole: the admin who has asked for it is left, unless it was for himself.
LEMMA Toggles ==
  ASSUME IInv, NEW o \in Requests, ToggleUserAdminRole(o)
  PROVE  IInv'
<1> DEFINE u == req[o].user
           row == [user[u] EXCEPT !.admin = req[o].admin]
<1>1. req[o].step = "toggle" /\ Change(o, "toggle", "idle")
      /\ UNCHANGED <<project, member, wanted, lastMail, resets>>
      /\ user' = [user EXCEPT ![u].admin = req[o].admin]
      /\ resigned' = (resigned \/ (~req[o].admin /\ req[o].by = u))
  BY DEF ToggleUserAdminRole, Change, ChangeTo, At
<1>2. /\ u \in Users /\ user[u] \in UserRow /\ req[o] \in RequestState
      /\ user[u].deleted => user[u].name = None
      /\ ~user[u].deleted => user[u].name # None /\ user[u].email # None
      /\ ~raced /\ user[u].deleted => user[u].email = None
      /\ req[o].clean => req[o].by \in Users /\ IsAdminRole(req[o].by)
  BY <1>1, RowOf DEF OfUser, UserGrounds
<1>3. req[o].admin \in BOOLEAN /\ resigned \in BOOLEAN
  BY <1>2 DEF RequestState, IInv, TypeInv, TypeOK
<1>4. row \in UserRow /\ row.email = user[u].email /\ row.name = user[u].name
      /\ row.link = user[u].link /\ row.deleted = user[u].deleted /\ row.admin = req[o].admin
  BY <1>2, <1>3 DEF UserRow
<1>5. user' = [user EXCEPT ![u] = row]
  BY <1>1
<1>6. ~raced /\ ~resigned' /\ req[o].clean => \/ row.admin /\ ~row.deleted
                                              \/ \E b \in Users \ {u} : IsAdminRole(b)
  <2> SUFFICES ASSUME ~raced, ~resigned', req[o].clean
               PROVE  (row.admin /\ ~row.deleted) \/ \E b \in Users \ {u} : IsAdminRole(b)
    OBVIOUS
  <2>1. CASE req[o].by # u
    BY <1>2, <2>1
  <2>2. CASE req[o].by = u
    BY <1>1, <1>2, <1>4, <2>2 DEF IsAdminRole, Live
  <2> QED
    BY <2>1, <2>2
<1>7. resigned' \in BOOLEAN /\ (resigned => resigned')
  BY <1>1, <1>3
<1> HIDE DEF row
<1> QED
  BY ZenonT(60), <1>1, <1>2, <1>4, <1>5, <1>6, <1>7, Edits

\* ChangeUserPassword: nothing but the password changes.
LEMMA Passwordings ==
  ASSUME IInv, NEW o \in Requests, ChangeUserPassword(o)
  PROVE  IInv'
<1> DEFINE u == req[o].user
           row == [user[u] EXCEPT !.password = req[o].password]
<1>1. req[o].step = "password_update" /\ Change(o, "password_update", "idle")
      /\ UNCHANGED <<project, member, resigned, wanted, lastMail, resets>>
      /\ user' = [user EXCEPT ![u].password = req[o].password]
  BY DEF ChangeUserPassword, Change, ChangeTo, At
<1>2. /\ u \in Users /\ user[u] \in UserRow
      /\ user[u].deleted => user[u].name = None
      /\ ~user[u].deleted => user[u].name # None /\ user[u].email # None
      /\ ~raced /\ user[u].deleted => user[u].email = None
  BY <1>1, RowOf DEF OfUser
<1>3. req[o].password \in Passwords
  BY <1>1 DEF IInv, TypeInv, Filled
<1>4. row \in UserRow /\ row.email = user[u].email /\ row.name = user[u].name
      /\ row.link = user[u].link /\ row.deleted = user[u].deleted /\ row.admin = user[u].admin
  BY <1>2, <1>3 DEF UserRow
<1>5. user' = [user EXCEPT ![u] = row]
  BY <1>1
<1>6. ~raced /\ ~resigned => \/ row.admin /\ ~row.deleted
                             \/ \E b \in Users \ {u} : IsAdminRole(b)
  BY <1>2, <1>4, OthersAdmin
<1>7. resigned \in BOOLEAN
  BY DEF IInv, TypeInv, TypeOK
<1> HIDE DEF row
<1> QED
  BY <1>1, <1>2, <1>4, <1>5, <1>6, <1>7, Edits

-----------------------------------------------------------------------------
(***************************************************************************)
(* Mails and resets.                                                       *)
(***************************************************************************)

\* Request o becomes r, whose step is one of a mail: types and projects.
LEMMA MailStep ==
  ASSUME IInv, NEW o \in Requests, NEW r \in RequestState, Filled(r), r.step \in Mailing,
         req[o].step \in {"idle", "mail_send"}, req' = [req EXCEPT ![o] = r],
         UNCHANGED <<mode, tables, faults, raced, resigned, wanted, resets>>,
         begun' \in 0..MaxRequests, lastMail' \in [Users -> Links \cup {None}]
  PROVE  TypeInv' /\ ProjectInv'
<1>1. req' \in [Requests -> RequestState] /\ req'[o] = r /\ Others(o)
  BY MoveShape DEF IInv
<1>2. UNCHANGED <<user, project, member>>
  BY DEF tables
<1>3. TablesOK' /\ HistoryOK' /\ RowsStay
  BY <1>2 DEF IInv, TypeInv, TypeOK, TablesOK, HistoryOK, RowsStay, Live, LiveProject, Exists
<1>4. BackedNext(r)
  BY DEF BackedNext, Mailing, OfUser, OfProject, OfMember, Profiling
<1>5. faults' \in 0..MaxFaults
  BY DEF IInv, TypeInv, TypeOK
<1>6. TypeInv'
  BY <1>1, <1>3, <1>4, <1>5, TypeStep DEF IInv
<1>7. ProjectSilent(o) /\ Onwards
  BY <1>1 DEF ProjectSilent, Mailing, Onwards
<1>8. ProjectGrounds(req[o])'
  BY <1>1 DEF ProjectGrounds, Mailing
<1>9. ProjectInv'
  BY <1>1, <1>2, <1>7, <1>8, ProjectFrame DEF IInv
<1> QED
  BY <1>6, <1>9

\* A mail with a link that nobody has seen yet.
LEMMA MailBegins ==
  ASSUME IInv, NEW o \in Requests, NEW e \in Emails, NEW l \in Links, SendEmail(o, e, l)
  PROVE  IInv'
<1> DEFINE same == {u \in Users : Exists(u) /\ user[u].email = e}
           r == [Idle EXCEPT !.step = "mail_send", !.email = e, !.link = l,
                             !.about = {e} \cup same]
<1>1. Fresh(l) /\ Begin(o, r)
  BY DEF SendEmail
<1>2. r \in RequestState
  BY DEF Idle, RequestState, Steps
<1>3. Filled(r) /\ r.step = "mail_send" /\ r.email = e /\ r.link = l /\ same \subseteq r.about
  BY DEF Idle, Filled, Registering, Profiling, OfUser, Mailing, OfMember, OfProject
<1>4. \A u \in Users : Exists(u) /\ user[u].email = e => u \in same
  OBVIOUS
<1> HIDE DEF r, same
<1>5. /\ req[o].step = "idle" /\ req' = [req EXCEPT ![o] = r]
      /\ UNCHANGED <<mode, tables, faults, raced, resigned, wanted, lastMail, resets>>
      /\ begun' \in 0..MaxRequests
  BY <1>1, AccountsAssumption DEF Begin, At, history, IInv, TypeInv, TypeOK
<1>6. TypeInv' /\ ProjectInv'
  BY <1>2, <1>3, <1>5, MailStep DEF Mailing, IInv, TypeInv, TypeOK
<1>7. req'[o] = r /\ (\A q \in Requests \ {o} : req'[q] = req[q]) /\ UNCHANGED user
  BY <1>2, <1>5, MoveShape DEF IInv, tables
<1>8. UserRows' /\ LinkRows' /\ NamesFree' /\ AdminLeft'
  BY <1>5, <1>7 DEF IInv, UserInv, UserRows, LinkRows, NamesFree, AdminLeft, Exists, Live,
                    IsAdminRole
<1>9. LinkRequests'
  BY <1>1, <1>3, <1>5, <1>7 DEF IInv, UserInv, LinkRequests, Fresh, Exists
<1>10. ASSUME NEW q \in Requests, req'[q].clean PROVE UserGrounds(req[q])'
  <2>1. CASE q = o
    BY <1>3, <1>4, <1>7, <2>1 DEF UserGrounds, Profiling, Mailing, Exists
  <2>2. CASE q # o
    BY <1>7, <1>10, <2>2 DEF IInv, UserInv, UserGrounds, Exists, Live, IsAdminRole
  <2> QED
    BY <2>1, <2>2
<1>11. ASSUME faults' = 0, ~raced' PROVE MailSent' /\ MailStored'
  <2>1. MailSent /\ MailStored
    BY <1>5, <1>11 DEF IInv, UserInv
  <2> QED
    BY <1>3, <1>5, <1>7, <2>1 DEF MailSent, MailStored, At, Live, Exists
<1> QED
  BY <1>6, <1>8, <1>9, <1>10, <1>11 DEF IInv, UserInv

\* The mail is sent: its request is about to store the link.
LEMMA MailSends ==
  ASSUME IInv, NEW o \in Requests, SendMail(o)
  PROVE  IInv'
<1> DEFINE r == [req[o] EXCEPT !.step = "mail_store"]
           mailed(u) == Exists(u) /\ user[u].email = req[o].email
<1>1. /\ req[o].step = "mail_send"
      /\ lastMail' = [u \in Users |-> IF mailed(u) THEN req[o].link ELSE lastMail[u]]
      /\ req' = [req EXCEPT ![o].step = "mail_store"]
      /\ UNCHANGED <<mode, tables, begun, faults, raced, resigned, wanted, resets>>
  BY DEF SendMail, At
<1>2. req[o] \in RequestState /\ Filled(req[o])
  BY DEF IInv, TypeInv, TypeOK
<1>3. r \in RequestState
  BY <1>2 DEF RequestState, Steps
<1>4. Filled(r)
  BY <1>1, <1>2 DEF RequestState, Filled, Registering, Profiling, OfUser, Mailing, OfMember,
                    OfProject
<1>5. r.step = "mail_store" /\ r.email = req[o].email /\ r.link = req[o].link
      /\ r.about = req[o].about /\ r.clean = req[o].clean
  BY <1>2 DEF RequestState
<1>6. req' = [req EXCEPT ![o] = r]
  BY <1>1
<1> HIDE DEF r
<1>7. req[o].link \in Links
  BY <1>1, <1>2 DEF Filled, Mailing
<1>8. lastMail' \in [Users -> Links \cup {None}]
  BY <1>1, <1>7 DEF IInv, TypeInv, TypeOK
<1>9. begun' \in 0..MaxRequests
  BY <1>1 DEF IInv, TypeInv, TypeOK
<1>10. TypeInv' /\ ProjectInv'
  BY <1>1, <1>3, <1>4, <1>5, <1>6, <1>8, <1>9, MailStep DEF Mailing
<1>11. req'[o] = r /\ (\A q \in Requests \ {o} : req'[q] = req[q]) /\ UNCHANGED user
  BY <1>1, <1>3, <1>6, MoveShape DEF IInv, tables
<1>12. UserRows' /\ LinkRows' /\ NamesFree' /\ AdminLeft'
  BY <1>1, <1>11 DEF IInv, UserInv, UserRows, LinkRows, NamesFree, AdminLeft, Exists, Live,
                     IsAdminRole
<1>13. LinkRequests'
  <2>1. \A q \in Requests : /\ req'[q].link = req[q].link
                            /\ req'[q].step \in Mailing <=> req[q].step \in Mailing
    BY <1>1, <1>5, <1>11 DEF Mailing
  <2> QED
    BY <1>1, <1>11, <2>1 DEF IInv, UserInv, LinkRequests, Exists
<1>14. ASSUME NEW q \in Requests, req'[q].clean PROVE UserGrounds(req[q])'
  <2>1. CASE q = o
    BY <1>1, <1>5, <1>11, <1>14, <2>1 DEF IInv, UserInv, UserGrounds, Profiling, Mailing, Exists
  <2>2. CASE q # o
    BY <1>11, <1>14, <2>2 DEF IInv, UserInv, UserGrounds, Exists, Live, IsAdminRole
  <2> QED
    BY <2>1, <2>2
<1>15. ASSUME faults' = 0, ~raced' PROVE MailSent' /\ MailStored'
  <2>1. MailSent /\ MailStored
    BY <1>1, <1>15 DEF IInv, UserInv
  <2>2. ASSUME NEW x \in Users, mailed(x)
        PROVE  req'[o].step = "mail_store" /\ req'[o].link = lastMail'[x]
               /\ req'[o].email = user'[x].email
    BY <1>1, <1>5, <1>11, <2>2
  <2>3. \A x \in Users : ~mailed(x) => lastMail'[x] = lastMail[x]
    BY <1>1
  <2>4. \A q \in Requests : req[q].step = "mail_store" => req'[q] = req[q]
    BY <1>1, <1>11
  <2>5. MailSent'
    <3> SUFFICES ASSUME NEW x \in Users, Live(x), lastMail'[x] \notin {None, user[x].link}
                 PROVE  \E q \in Requests : /\ req'[q].step = "mail_store"
                                            /\ req'[q].link = lastMail'[x]
                                            /\ req'[q].email = user[x].email \/ ~req'[q].clean
      BY <1>11 DEF MailSent, At, Live, Exists
    <3>1. CASE mailed(x)
      BY <1>11, <2>2, <3>1
    <3>2. CASE ~mailed(x)
      BY <2>1, <2>3, <2>4, <3>2 DEF MailSent, At
    <3> QED
      BY <3>1, <3>2
  <2>6. MailStored'
    <3> SUFFICES ASSUME NEW q \in Requests, req'[q].step = "mail_store", req'[q].clean,
                        NEW x \in Users, Exists(x), user[x].email = req'[q].email
                 PROVE  \E y \in Requests : /\ req'[y].step = "mail_store"
                                            /\ req'[y].link = lastMail'[x]
                                            /\ req'[y].email = req'[q].email
      BY <1>11 DEF MailStored, At, Exists
    <3>1. CASE mailed(x)
      BY <1>11, <2>2, <3>1
    <3>2. CASE ~mailed(x)
      <4>1. q # o
        BY <1>5, <1>11, <3>2
      <4> QED
        BY <1>11, <2>1, <2>3, <2>4, <3>2, <4>1 DEF MailStored, At
    <3> QED
      BY <3>1, <3>2
  <2> QED
    BY <2>5, <2>6
<1> QED
  BY <1>10, <1>12, <1>13, <1>14, <1>15 DEF IInv, UserInv

\* Where links and passwords change and nothing else: what is the same for everybody.
SameUsers ==
  \A x \in Users : /\ (user'[x] = None) <=> (user[x] = None)
                   /\ user[x] # None => /\ user'[x].name = user[x].name
                                        /\ user'[x].email = user[x].email
                                        /\ user'[x].admin = user[x].admin
                                        /\ user'[x].deleted = user[x].deleted

\* What users count on does not depend on links and passwords.
LEMMA SameGrounds ==
  ASSUME TypeInv, UserInv, SameUsers, NEW o \in Requests, Others(o), req'[o] = Idle,
         UNCHANGED resigned, raced => raced'
  PROVE  /\ \A q \in Requests : req'[q].clean => UserGrounds(req[q])'
         /\ NamesFree' /\ AdminLeft'
<1>1. \A x \in Users : (Live(x)' <=> Live(x)) /\ (IsAdminRole(x)' <=> IsAdminRole(x))
                       /\ (Exists(x)' <=> Exists(x))
  BY DEF SameUsers, Live, Exists, IsAdminRole
<1>2. ASSUME NEW q \in Requests \ {o}, req'[q].clean PROVE UserGrounds(req[q])'
  <2>1. UserGrounds(req[q]) /\ Kept(q) /\ Filled(req[q]) /\ Backed(req[q])
    BY <1>2 DEF TypeInv, UserInv, Others
  <2>2. req[q].step = "ldap_get" =>
          \E x \in Users \cap req[q].about : Live(x)' /\ user'[x].name = req[q].name
    BY <1>1, <2>1 DEF UserGrounds, SameUsers, Live, Exists
  <2>3. req[q].step \in Profiling => ~user'[req[q].user].deleted
    BY <2>1 DEF UserGrounds, SameUsers, Filled, Backed, OfUser
  <2>4. req[q].step = "user_delete" =>
          \E b \in Users \cap req[q].about : b # req[q].user /\ IsAdminRole(b)'
    BY <1>1, <2>1 DEF UserGrounds
  <2>5. req[q].step = "toggle" => req[q].by \in Users \cap req[q].about /\ IsAdminRole(req[q].by)'
    BY <2>1 DEF UserGrounds, IsAdminRole, Live, Exists, SameUsers, Kept
  <2>6. req[q].step \in Mailing =>
          \A x \in Users : user'[x] # None /\ user'[x].email = req[q].email => x \in req[q].about
    BY <2>1 DEF UserGrounds, SameUsers, Exists
  <2> QED
    BY <2>1, <2>2, <2>3, <2>4, <2>5, <2>6 DEF UserGrounds, Kept, Exists, IsAdminRole, Live
<1>3. UserGrounds(req[o])'
  BY DEF UserGrounds, Idle, Profiling, Mailing
<1>4. NamesFree'
  BY DEF UserInv, NamesFree, SameUsers, Exists
<1>5. AdminLeft'
  BY <1>1 DEF UserInv, AdminLeft
<1> QED
  BY <1>2, <1>3, <1>4, <1>5

\* The link is stored in the one row that has the address.
LEMMA MailStores ==
  ASSUME IInv, NEW o \in Requests, UpdateUserResetUUID(o)
  PROVE  IInv'
<1> DEFINE e == req[o].email
           l == req[o].link
           hit(x) == user[x] # None /\ user[x].email = e
<1>1. /\ req[o].step = "mail_store" /\ Change(o, "mail_store", "idle")
      /\ user' = [x \in Users |-> IF hit(x) THEN [user[x] EXCEPT !.link = l] ELSE user[x]]
      /\ UNCHANGED <<project, member, resigned, wanted, lastMail, resets>>
  BY DEF UpdateUserResetUUID, Change, ChangeTo, At, Exists
<1>2. e \in Emails /\ e # None /\ e \in req[o].about /\ l \in Links /\ l # None
  BY <1>1, AccountsAssumption DEF IInv, TypeInv, Filled, Mailing
<1>3. \A x \in Users : user[x] # None => user[x] \in UserRow
  BY DEF IInv, TypeInv, TypeOK
<1>4. \A x \in Users : hit(x) =>
        /\ user'[x] \in UserRow /\ user'[x].link = l /\ user'[x].name = user[x].name
        /\ user'[x].email = user[x].email /\ user'[x].admin = user[x].admin
        /\ user'[x].deleted = user[x].deleted
  BY <1>1, <1>2, <1>3 DEF UserRow
<1>5. \A x \in Users : ~hit(x) => user'[x] = user[x]
  BY <1>1
<1>6. user' \in [Users -> UserRow \cup {None}]
  <2>1. \A x \in Users : user'[x] \in UserRow \cup {None}
    BY <1>3, <1>4, <1>5
  <2> QED
    BY <1>1, <2>1
<1>7. SameUsers
  <2>1. None \notin UserRow
    BY AccountsAssumption
  <2> QED
    BY <1>4, <1>5, <2>1 DEF SameUsers
<1>8. \A x \in Users : Live(x)' => user'[x].name # None /\ user'[x].email # None
  BY <1>7 DEF SameUsers, Live, Exists, IInv, TypeInv, TypeOK
<1>9. /\ TypeInv' /\ ProjectInv' /\ Others(o) /\ Apart(o) /\ req'[o] = Idle
      /\ faults' = faults /\ (~raced' => ~raced /\ req[o].clean)
  <2>1. \A x \in Users : user[x] # None => user'[x] # None
    BY <1>7 DEF SameUsers
  <2>2. /\ resigned' \in BOOLEAN /\ (resigned => resigned')
        /\ lastMail' \in [Users -> Links \cup {None}] /\ resets' \in [Links -> Nat]
    BY <1>1 DEF IInv, TypeInv, TypeOK
  <2> QED
    BY <1>1, <1>6, <1>8, <2>1, <2>2, UserChange DEF UserSteps
<1>10. /\ resets[l] = 0 /\ (\A x \in Users : user[x] # None => user[x].link # l)
       /\ \A q \in Requests : req[q].step \in Mailing /\ req[q].link = l => q = o
  BY <1>1 DEF IInv, UserInv, LinkRequests, Mailing, Exists
<1>11. \A x, y \in Users : hit(x) /\ hit(y) => x = y
  BY <1>2 DEF IInv, UserInv, UserRows, Exists
<1>12. \A x \in Users : user'[x] # None =>
         /\ user[x] # None
         /\ \/ hit(x) /\ user'[x].link = l
            \/ ~hit(x) /\ user'[x].link = user[x].link
  BY <1>4, <1>5, <1>7 DEF SameUsers
<1> HIDE DEF hit
<1>13. UserRows'
  BY <1>1, <1>7 DEF IInv, UserInv, UserRows, SameUsers, Exists
<1>14. LinkRows'
  BY <1>1, <1>10, <1>11, <1>12 DEF IInv, UserInv, LinkRows, Exists
<1>15. LinkRequests'
  <2>1. \A q \in Requests : req'[q].step \in Mailing => q # o
    BY <1>9 DEF Idle, Mailing
  <2>2. \A q \in Requests \ {o} : Kept(q)
    BY <1>9 DEF Others
  <2> QED
    BY <1>1, <1>10, <1>12, <2>1, <2>2 DEF IInv, UserInv, LinkRequests, Exists, Kept
<1>16. /\ \A q \in Requests : req'[q].clean => UserGrounds(req[q])'
       /\ NamesFree' /\ AdminLeft'
  BY <1>1, <1>7, <1>9, SameGrounds DEF IInv
<1>17. ASSUME faults' = 0, ~raced' PROVE MailSent'
  <2>1. MailSent /\ MailStored /\ req[o].clean
    BY <1>9, <1>17 DEF IInv, UserInv
  <2> SUFFICES ASSUME NEW x \in Users, user'[x] # None, ~user'[x].deleted,
                      lastMail[x] # None, lastMail[x] # user'[x].link
               PROVE  \E q \in Requests : /\ req'[q].step = "mail_store"
                                          /\ req'[q].link = lastMail[x]
                                          /\ req'[q].email = user'[x].email \/ ~req'[q].clean
    BY <1>1 DEF MailSent, At, Live, Exists
  <2>2. user[x] # None /\ ~user[x].deleted /\ user'[x].email = user[x].email
    BY <1>7 DEF SameUsers
  <2>3. PICK q \in Requests \ {o} : /\ req[q].step = "mail_store" /\ req[q].link = lastMail[x]
                                    /\ req[q].email = user[x].email \/ ~req[q].clean
    <3>1. CASE hit(x)
      <4>1. user'[x].link = l /\ user[x].email = e
        BY <1>12, <3>1 DEF hit
      <4>2. PICK q \in Requests : /\ req[q].step = "mail_store" /\ req[q].link = lastMail[x]
                                  /\ req[q].email = e
        BY <1>1, <2>1, <2>2, <4>1 DEF MailStored, At, Exists
      <4> QED
        BY <4>1, <4>2
    <3>2. CASE ~hit(x)
      <4>1. user'[x].link = user[x].link /\ user[x].email # e
        BY <1>12, <2>2, <3>2 DEF hit
      <4>2. PICK q \in Requests : /\ req[q].step = "mail_store" /\ req[q].link = lastMail[x]
                                  /\ req[q].email = user[x].email \/ ~req[q].clean
        BY <2>1, <2>2, <4>1 DEF MailSent, At, Live, Exists
      <4> QED
        BY <2>1, <4>1, <4>2
    <3> QED
      BY <3>1, <3>2
  <2>4. Kept(q) /\ (req'[q].clean => req[q].clean)
    BY <1>9 DEF Others
  <2> QED
    BY <2>2, <2>3, <2>4 DEF Kept
<1>18. ASSUME faults' = 0, ~raced' PROVE MailStored'
  <2>1. MailStored
    BY <1>9, <1>18 DEF IInv, UserInv
  <2> SUFFICES ASSUME NEW q \in Requests, req'[q].step = "mail_store", req'[q].clean,
                      NEW x \in Users, user'[x] # None, user'[x].email = req'[q].email
               PROVE  \E y \in Requests : /\ req'[y].step = "mail_store"
                                          /\ req'[y].link = lastMail[x]
                                          /\ req'[y].email = req'[q].email
    BY <1>1 DEF MailStored, At, Exists
  <2>2. q # o
    BY <1>9 DEF Idle
  <2>3. Kept(q) /\ req[q].clean /\ req[q].about \cap req[o].about = {}
    BY <1>9, <2>2 DEF Others, Apart
  <2>4. req[q].email \in req[q].about
    BY <2>3 DEF IInv, TypeInv, Filled, Kept, Mailing
  <2>5. user[x] # None /\ user[x].email = req[q].email
    BY <1>7, <2>3 DEF SameUsers, Kept
  <2>6. PICK y \in Requests : /\ req[y].step = "mail_store" /\ req[y].link = lastMail[x]
                              /\ req[y].email = req[q].email
    BY <2>1, <2>3, <2>5 DEF MailStored, At, Exists, Kept
  <2>7. y # o
    BY <1>2, <2>3, <2>4, <2>6
  <2>8. Kept(y)
    BY <1>9, <2>7 DEF Others
  <2> QED
    BY <2>3, <2>6, <2>8 DEF Kept
<1> QED
  BY <1>9, <1>13, <1>14, <1>15, <1>16, <1>17, <1>18 DEF IInv, UserInv

\* A reset takes the link from the one row that has it.
LEMMA Resets ==
  ASSUME IInv, NEW o \in Requests, NEW u \in Users, user[u] # None,
         user[u].link = req[o].link, Reset(o, u)
  PROVE  IInv'
<1> DEFINE l == req[o].link
           row == [user[u] EXCEPT !.password = req[o].password, !.link = None]
<1>1. /\ req[o].step = "reset_update" /\ Change(o, "reset_update", "idle")
      /\ user' = [user EXCEPT ![u] = row]
      /\ lastMail' = [lastMail EXCEPT ![u] = IF @ = l THEN None ELSE @]
      /\ resets' = [resets EXCEPT ![l] = @ + 1]
      /\ UNCHANGED <<project, member, resigned, wanted>>
  BY DEF Reset, Change, ChangeTo, At
<1>2. l \in Links /\ l # None /\ req[o].password \in Passwords
  BY <1>1, AccountsAssumption DEF IInv, TypeInv, Filled
<1>3. /\ user \in [Users -> UserRow \cup {None}] /\ user[u] \in UserRow
      /\ lastMail \in [Users -> Links \cup {None}] /\ resets \in [Links -> Nat]
  BY DEF IInv, TypeInv, TypeOK
<1>4. /\ row \in UserRow /\ row.link = None /\ row.name = user[u].name
      /\ row.email = user[u].email /\ row.admin = user[u].admin
      /\ row.deleted = user[u].deleted
  BY <1>2, <1>3 DEF UserRow
<1> HIDE DEF row
<1>5. row # None
  BY <1>4, AccountsAssumption
<1>6. /\ user'[u] = row /\ (\A x \in Users \ {u} : user'[x] = user[x])
      /\ user' \in [Users -> UserRow \cup {None}]
  BY <1>1, <1>3, <1>4
<1>7. /\ lastMail' \in [Users -> Links \cup {None}]
      /\ \A x \in Users : IF x = u /\ lastMail[x] = l THEN lastMail'[x] = None
                          ELSE lastMail'[x] = lastMail[x]
  BY <1>1, <1>3
<1>8. /\ resets' \in [Links -> Nat] /\ resets'[l] = resets[l] + 1
      /\ \A k \in Links \ {l} : resets'[k] = resets[k]
  BY <1>1, <1>2, <1>3
<1>9. SameUsers
  BY <1>4, <1>5, <1>6 DEF SameUsers
<1>10. \A x \in Users : Live(x)' => user'[x].name # None /\ user'[x].email # None
  BY <1>9 DEF SameUsers, Live, Exists, IInv, TypeInv, TypeOK
<1>11. /\ TypeInv' /\ ProjectInv' /\ Others(o) /\ Apart(o) /\ req'[o] = Idle
       /\ faults' = faults /\ (~raced' => ~raced /\ req[o].clean)
  <2>1. \A x \in Users : user[x] # None => user'[x] # None
    BY <1>9 DEF SameUsers
  <2>2. resigned' \in BOOLEAN /\ (resigned => resigned')
    BY <1>1 DEF IInv, TypeInv, TypeOK
  <2> QED
    BY <1>1, <1>6, <1>7, <1>8, <1>10, <2>1, <2>2, UserChange DEF UserSteps
<1>12. resets[l] = 0 /\ (\A x \in Users \ {u} : user[x] # None => user[x].link # l)
  BY <1>2 DEF IInv, UserInv, LinkRows, Exists
<1>13. \A q \in Requests : req[q].step \in Mailing =>
         req[q].link \in Links /\ req[q].link # None /\ req[q].link # l
  BY AccountsAssumption DEF IInv, UserInv, LinkRequests, TypeInv, Filled, Exists
<1>14. UserRows'
  BY <1>7, <1>9 DEF IInv, UserInv, UserRows, SameUsers, Exists
<1>15. LinkRows'
  <2>1. \A x \in Users : user[x] # None => user[x].link \in Links \cup {None}
    BY <1>3 DEF UserRow
  <2> QED
    BY <1>4, <1>6, <1>8, <1>12, <2>1 DEF IInv, UserInv, LinkRows, Exists
<1>16. LinkRequests'
  <2>1. \A q \in Requests : req'[q].step \in Mailing => q # o
    BY <1>11 DEF Idle, Mailing
  <2>2. \A q \in Requests \ {o} : Kept(q)
    BY <1>11 DEF Others
  <2> QED
    BY <1>4, <1>6, <1>8, <1>13, <2>1, <2>2 DEF IInv, UserInv, LinkRequests, Exists, Kept
<1>17. /\ \A q \in Requests : req'[q].clean => UserGrounds(req[q])'
       /\ NamesFree' /\ AdminLeft'
  BY <1>1, <1>9, <1>11, SameGrounds DEF IInv
<1>18. \A q \in Requests : req[q].step = "mail_store" =>
         Kept(q) /\ (req'[q].clean => req[q].clean) /\ q # o
  BY <1>1, <1>11 DEF Others
<1>19. ASSUME faults' = 0, ~raced' PROVE MailSent'
  <2>1. MailSent
    BY <1>11, <1>19 DEF IInv, UserInv
  <2> SUFFICES ASSUME NEW x \in Users, user'[x] # None, ~user'[x].deleted,
                      lastMail'[x] # None, lastMail'[x] # user'[x].link
               PROVE  \E q \in Requests : /\ req'[q].step = "mail_store"
                                          /\ req'[q].link = lastMail'[x]
                                          /\ req'[q].email = user'[x].email \/ ~req'[q].clean
    BY DEF MailSent, At, Live, Exists
  <2>2. /\ user[x] # None /\ ~user[x].deleted /\ user'[x].email = user[x].email
        /\ lastMail'[x] = lastMail[x] /\ lastMail[x] # user[x].link
    BY <1>6, <1>7, <1>9 DEF SameUsers
  <2>3. PICK q \in Requests : /\ req[q].step = "mail_store" /\ req[q].link = lastMail[x]
                              /\ req[q].email = user[x].email \/ ~req[q].clean
    BY <2>1, <2>2 DEF MailSent, At, Live, Exists
  <2> QED
    BY <1>18, <2>2, <2>3 DEF Kept
<1>20. ASSUME faults' = 0, ~raced' PROVE MailStored'
  <2>1. MailStored
    BY <1>11, <1>20 DEF IInv, UserInv
  <2> SUFFICES ASSUME NEW q \in Requests, req'[q].step = "mail_store", req'[q].clean,
                      NEW x \in Users, user'[x] # None, user'[x].email = req'[q].email
               PROVE  \E y \in Requests : /\ req'[y].step = "mail_store"
                                          /\ req'[y].link = lastMail'[x]
                                          /\ req'[y].email = req'[q].email
    BY DEF MailStored, At, Exists
  <2>2. Kept(q) /\ req[q].clean
    BY <1>11 DEF Others, Idle
  <2>3. user[x] # None /\ user[x].email = req[q].email
    BY <1>9, <2>2 DEF SameUsers, Kept
  <2>4. PICK y \in Requests : /\ req[y].step = "mail_store" /\ req[y].link = lastMail[x]
                              /\ req[y].email = req[q].email
    BY <2>1, <2>2, <2>3 DEF MailStored, At, Exists, Kept
  <2>5. lastMail'[x] = lastMail[x]
    BY <1>7, <1>13, <2>4 DEF Mailing
  <2> QED
    BY <1>18, <2>2, <2>4, <2>5 DEF Kept
<1> QED
  BY <1>11, <1>14, <1>15, <1>16, <1>17, <1>19, <1>20 DEF IInv, UserInv

-----------------------------------------------------------------------------
(***************************************************************************)
(* Changes of members and projects.                                        *)
(***************************************************************************)
ProjectSteps == {"member_clear", "member_delete", "member_insert", "project_insert",
                 "quota_insert", "project_delete", "quota_delete"}

\* Such a change is no matter of users.
LEMMA ProjectChange ==
  ASSUME IInv, NEW o \in Requests, NEW s \in ProjectSteps, NEW r \in RequestState,
         ChangeTo(o, s, r), Filled(r), BackedNext(r),
         r.step \in {"idle", "member_insert", "quota_insert", "quota_delete"},
         UNCHANGED <<user, resigned, lastMail, resets>>,
         project' \in [Projects -> ProjectRow \cup {None}],
         \A x \in Projects : project[x] # None => project'[x] # None,
         \A x \in Projects : LiveProject(x)' => project'[x].title # None,
         member' \in [Projects \X Users -> Roles \cup {None}],
         \A x \in Projects, y \in Users :
           member'[<<x, y>>] # None => project'[x] # None /\ user[y] # None,
         wanted' \in SUBSET (Projects \X Users)
  PROVE  /\ TypeInv' /\ UserInv' /\ Others(o) /\ Apart(o) /\ req'[o] = r
         /\ req[o].step = s /\ faults' = faults /\ (~raced' => ~raced /\ req[o].clean)
<1>1. /\ req' \in [Requests -> RequestState] /\ req'[o] = r /\ Others(o) /\ Apart(o)
      /\ req[o].step = s
      /\ raced' \in BOOLEAN /\ (~raced' => ~raced /\ req[o].clean)
      /\ UNCHANGED <<mode, begun, faults>>
  BY ChangeShape DEF IInv
<1>2. TablesOK' /\ RowsStay
  BY DEF IInv, TypeInv, TypeOK, TablesOK, RowsStay, Live, Exists
<1>3. HistoryOK'
  BY <1>1 DEF IInv, TypeInv, TypeOK, HistoryOK
<1>4. begun' \in 0..MaxRequests /\ faults' \in 0..MaxFaults
  BY <1>1 DEF IInv, TypeInv, TypeOK
<1>5. TypeInv'
  BY <1>1, <1>2, <1>3, <1>4, TypeStep DEF IInv
<1>6. Onwards
  BY <1>1 DEF Onwards
<1>7. UserSilent(o)
  BY <1>1 DEF UserSilent, Mailing, ProjectSteps
<1>8. UserGrounds(req[o])'
  BY <1>1 DEF UserGrounds, Profiling, Mailing
<1>9. UserInv'
  BY <1>1, <1>6, <1>7, <1>8, UserFrame DEF IInv
<1> QED
  BY <1>1, <1>5, <1>9

\* The request that goes on to its next step keeps its fields.
LEMMA GoesOn ==
  ASSUME IInv, NEW o \in Requests, NEW next \in {"member_insert", "quota_insert", "quota_delete"},
         \/ next = "member_insert" /\ req[o].step = "member_clear" /\ req[o].role # None
         \/ next = "quota_insert" /\ req[o].step = "member_insert" /\ req[o].title # None
         \/ next = "quota_delete" /\ req[o].step = "project_delete"
  PROVE  LET r == [req[o] EXCEPT !.step = next]
         IN  /\ r \in RequestState /\ Filled(r) /\ Backed(r) /\ r.step = next
             /\ r.project = req[o].project /\ r.user = req[o].user /\ r.title = req[o].title
             /\ r.about = req[o].about /\ r.clean = req[o].clean
<1> DEFINE r == [req[o] EXCEPT !.step = next]
<1>1. req[o] \in RequestState /\ Filled(req[o]) /\ Backed(req[o])
  BY DEF IInv, TypeInv, TypeOK
<1>2. r \in RequestState
  BY <1>1 DEF RequestState, Steps
<1>3. /\ r.step = next /\ r.project = req[o].project /\ r.user = req[o].user
      /\ r.title = req[o].title /\ r.role = req[o].role
      /\ r.about = req[o].about /\ r.clean = req[o].clean
  BY <1>1 DEF RequestState
<1>4. req[o].role \in Roles \cup {None} /\ req[o].title \in Titles \cup {None}
  BY <1>1 DEF RequestState
<1> HIDE DEF r
<1>5. Filled(r)
  BY <1>1, <1>3, <1>4 DEF Filled, Registering, Profiling, OfUser, Mailing, OfMember, OfProject
<1>6. Backed(r)
  BY <1>1, <1>3 DEF Backed, Profiling, OfUser, OfMember, OfProject
<1> QED
  BY <1>2, <1>3, <1>5, <1>6 DEF r

\* Rows of projects stay as they are: what depends on them alone.
LEMMA SameProjects ==
  ASSUME IInv, NEW o \in Requests, Others(o), UNCHANGED project,
         Creating(o)' => Creating(o) /\ req'[o].project = req[o].project,
         req'[o].step # "quota_delete",
         faults' = faults, ~raced' => ~raced,
         Creating(o) => Creating(o)', req[o].step # "quota_delete"
  PROVE  /\ ProjectRows' /\ Creations' /\ Deletions'
         /\ ~raced' => \A p \in Projects : LiveProject(p)' =>
                         project'[p].quota \in {None, project'[p].title}
         /\ faults' = 0 /\ ~raced' => QuotaPending'
<1>1. \A q \in Requests \ {o} : Kept(q) /\ (req'[q].clean => req[q].clean)
  BY DEF Others
<1>2. \A q \in Requests \ {o} : Creating(q)' <=> Creating(q)
  BY <1>1 DEF Creating, Kept
<1>3. \A q \in Requests : Creating(q)' => Creating(q) /\ req'[q].project = req[q].project
  BY <1>1, <1>2 DEF Kept
<1>4. ProjectRows'
  BY DEF IInv, ProjectInv, ProjectRows
<1>5. Creations'
  BY <1>3 DEF IInv, ProjectInv, Creations
<1>6. Deletions'
  BY <1>1 DEF IInv, ProjectInv, Deletions, At, Kept
<1>7. ~raced' => \A p \in Projects : LiveProject(p)' =>
                   project'[p].quota \in {None, project'[p].title}
  BY DEF IInv, ProjectInv, LiveProject
<1>8. ASSUME faults' = 0, ~raced' PROVE QuotaPending'
  <2>1. QuotaPending
    BY <1>8 DEF IInv, ProjectInv
  <2>2. \A q \in Requests : Creating(q) => Creating(q)' /\ req'[q].project = req[q].project
    BY <1>1, <1>2 DEF Kept
  <2>3. \A q \in Requests : At(q, "quota_delete") =>
          /\ At(q, "quota_delete")' /\ req'[q].project = req[q].project
          /\ ~req[q].clean => ~req'[q].clean
    BY <1>1 DEF At, Kept
  <2> QED
    BY <2>1, <2>2, <2>3 DEF QuotaPending
<1> QED
  BY <1>4, <1>5, <1>6, <1>7, <1>8

\* A row of project_member is removed.
LEMMA Removes ==
  ASSUME IInv, NEW o \in Requests, MemberClear(o) \/ DeleteProjectMember(o)
  PROVE  IInv'
<1> DEFINE p == req[o].project
           u == req[o].user
           pu == <<p, u>>
<1>1. PICK s \in {"member_clear", "member_delete"}, next \in {"idle", "member_insert"} :
        /\ req[o].step = s /\ RemoveMember(o, s, next)
        /\ next = "idle" => req[o].role = None
        /\ next = "member_insert" => s = "member_clear" /\ req[o].role # None
  <2>1. CASE MemberClear(o)
    BY <2>1 DEF MemberClear, RemoveMember, Change, ChangeTo, At
  <2>2. CASE DeleteProjectMember(o)
    <3>1. req[o].step = "member_delete"
      BY <2>2 DEF DeleteProjectMember, RemoveMember, Change, ChangeTo, At
    <3>2. req[o].role = None
      BY <3>1 DEF IInv, TypeInv, Filled
    <3> QED
      BY <2>2, <3>1, <3>2 DEF DeleteProjectMember
  <2> QED
    BY <2>1, <2>2
<1>2. /\ Change(o, s, next) /\ member' = [member EXCEPT ![pu] = None]
      /\ wanted' = IF next = "idle" THEN wanted \ {pu} ELSE wanted
      /\ UNCHANGED <<user, project, resigned, lastMail, resets>>
  BY <1>1 DEF RemoveMember
<1>3. PICK r \in RequestState :
        /\ ChangeTo(o, s, r) /\ Filled(r) /\ Backed(r) /\ r.step = next
        /\ next = "member_insert" => r.project = p /\ r.user = u /\ r.title = None
  <2>1. CASE next = "idle"
    BY <1>2, <2>1, IdleSound DEF Change, Sound, Idle
  <2>2. CASE next = "member_insert"
    <3>1. req[o].title = None
      BY <1>1, <2>2 DEF IInv, TypeInv, Filled
    <3> QED
      BY <1>1, <1>2, <2>2, <3>1, GoesOn DEF Change
  <2> QED
    BY <2>1, <2>2
<1>4. p \in Projects /\ u \in Users
  BY <1>1 DEF IInv, TypeInv, Filled, OfMember, OfProject
<1>5. /\ member' \in [Projects \X Users -> Roles \cup {None}] /\ member'[pu] = None
      /\ \A m \in (Projects \X Users) \ {pu} : member'[m] = member[m]
  BY <1>2, <1>4 DEF IInv, TypeInv, TypeOK
<1>6. wanted' \in SUBSET (Projects \X Users)
  BY <1>2 DEF IInv, TypeInv, TypeOK
<1>7. \A x \in Projects, y \in Users :
        member'[<<x, y>>] # None => project'[x] # None /\ user[y] # None
  BY <1>2, <1>5 DEF IInv, TypeInv, TypeOK
<1>8. /\ project' \in [Projects -> ProjectRow \cup {None}]
      /\ \A x \in Projects : project[x] # None => project'[x] # None
      /\ \A x \in Projects : LiveProject(x)' => project'[x].title # None
      /\ BackedNext(r)
  BY <1>2, <1>3 DEF IInv, TypeInv, TypeOK, LiveProject, Backed, BackedNext
<1>9. /\ TypeInv' /\ UserInv' /\ Others(o) /\ Apart(o) /\ req'[o] = r
      /\ faults' = faults /\ (~raced' => ~raced /\ req[o].clean)
  BY <1>2, <1>3, <1>5, <1>6, <1>7, <1>8, ProjectChange DEF ProjectSteps
<1>10. /\ ProjectRows' /\ Creations' /\ Deletions'
       /\ ~raced' => \A x \in Projects : LiveProject(x)' =>
                       project'[x].quota \in {None, project'[x].title}
       /\ faults' = 0 /\ ~raced' => QuotaPending'
  <2>1. ~Creating(o) /\ ~Creating(o)' /\ req[o].step # "quota_delete"
        /\ req'[o].step # "quota_delete"
    BY <1>1, <1>3, <1>9 DEF Creating
  <2> QED
    BY <1>2, <1>9, <2>1, SameProjects
<1>11. MemberPending'
  <2> SUFFICES ASSUME faults = 0, NEW x \in Projects, NEW y \in Users, <<x, y>> \in wanted',
                      member'[<<x, y>>] = None
               PROVE  \E q \in Requests : req'[q].step = "member_insert" /\ req'[q].project = x
                                          /\ req'[q].user = y
    BY <1>9 DEF MemberPending, At
  <2>1. CASE <<x, y>> = pu
    BY <1>2, <1>3, <1>9, <2>1
  <2>2. CASE <<x, y>> # pu
    <3>1. PICK q \in Requests : req[q].step = "member_insert" /\ req[q].project = x
                                /\ req[q].user = y
      BY <1>2, <1>5, <2>2 DEF IInv, ProjectInv, MemberPending, At
    <3>2. Kept(q)
      BY <1>1, <1>9, <3>1 DEF Others
    <3> QED
      BY <3>1, <3>2 DEF Kept
  <2> QED
    BY <2>1, <2>2
<1>12. ASSUME ~raced', NEW q \in Requests, req'[q].clean PROVE ProjectGrounds(req[q])'
  <2>1. CASE q = o
    BY <1>3, <1>9, <2>1 DEF ProjectGrounds
  <2>2. CASE q # o
    <3>1. ProjectGrounds(req[q]) /\ Kept(q) /\ Filled(req[q])
      BY <1>9, <1>12, <2>2 DEF IInv, TypeInv, ProjectInv, Others
    <3>2. req[q].step = "member_insert" => <<req[q].project, req[q].user>> \in Projects \X Users
      BY <3>1 DEF Filled, OfMember, OfProject
    <3> QED
      BY <1>2, <1>5, <3>1, <3>2 DEF ProjectGrounds, TitleTaken, Kept
  <2> QED
    BY <2>1, <2>2
<1> QED
  BY <1>9, <1>10, <1>11, <1>12 DEF IInv, ProjectInv

\* A row of project_member is inserted; the request of a new project goes on to its quota.
LEMMA Adds ==
  ASSUME IInv, NEW o \in Requests, AddProjectMember(o)
  PROVE  IInv'
<1> DEFINE p == req[o].project
           u == req[o].user
           pu == <<p, u>>
<1>1. /\ req[o].step = "member_insert"
      /\ Change(o, "member_insert", IF req[o].title = None THEN "idle" ELSE "quota_insert")
      /\ member' = [member EXCEPT ![pu] = req[o].role] /\ wanted' = wanted \cup {pu}
      /\ UNCHANGED <<user, project, resigned, lastMail, resets>>
  BY DEF AddProjectMember, Change, ChangeTo, At
<1>2. PICK r \in RequestState :
        /\ ChangeTo(o, "member_insert", r) /\ Filled(r) /\ Backed(r)
        /\ req[o].title = None => r.step = "idle"
        /\ req[o].title # None =>
             /\ r.step = "quota_insert" /\ r.project = p /\ r.title = req[o].title
             /\ r.clean = req[o].clean
  <2>1. CASE req[o].title = None
    BY <1>1, <2>1, IdleSound DEF Change, Sound, Idle
  <2>2. CASE req[o].title # None
    BY <1>1, <2>2, GoesOn DEF Change
  <2> QED
    BY <2>1, <2>2
<1>3. /\ p \in Projects /\ u \in Users /\ req[o].role \in Roles /\ req[o].role # None
      /\ p \in req[o].about
      /\ project[p] # None /\ user[u] # None
  BY <1>1, AccountsAssumption DEF IInv, TypeInv, Filled, Backed, OfMember, OfProject
<1>4. /\ member' \in [Projects \X Users -> Roles \cup {None}] /\ member'[pu] # None
      /\ \A m \in (Projects \X Users) \ {pu} : member'[m] = member[m]
  BY <1>1, <1>3 DEF IInv, TypeInv, TypeOK
<1>5. wanted' \in SUBSET (Projects \X Users)
  BY <1>1, <1>3 DEF IInv, TypeInv, TypeOK
<1>6. \A x \in Projects, y \in Users :
        member'[<<x, y>>] # None => project'[x] # None /\ user[y] # None
  BY <1>1, <1>3, <1>4 DEF IInv, TypeInv, TypeOK
<1>7. /\ project' \in [Projects -> ProjectRow \cup {None}]
      /\ \A x \in Projects : project[x] # None => project'[x] # None
      /\ \A x \in Projects : LiveProject(x)' => project'[x].title # None
      /\ BackedNext(r)
  BY <1>1, <1>2 DEF IInv, TypeInv, TypeOK, LiveProject, Backed, BackedNext
<1>8. /\ TypeInv' /\ UserInv' /\ Others(o) /\ Apart(o) /\ req'[o] = r
      /\ faults' = faults /\ (~raced' => ~raced /\ req[o].clean)
  BY <1>1, <1>2, <1>4, <1>5, <1>6, <1>7, ProjectChange DEF ProjectSteps
<1>9. /\ ProjectRows' /\ Creations' /\ Deletions'
      /\ ~raced' => \A x \in Projects : LiveProject(x)' =>
                      project'[x].quota \in {None, project'[x].title}
      /\ faults' = 0 /\ ~raced' => QuotaPending'
  <2>1. /\ Creating(o)' => Creating(o) /\ req'[o].project = req[o].project
        /\ Creating(o) => Creating(o)'
        /\ req[o].step # "quota_delete" /\ req'[o].step # "quota_delete"
    BY <1>1, <1>2, <1>8 DEF Creating
  <2> QED
    BY <1>1, <1>8, <2>1, SameProjects
<1>10. MemberPending'
  <2> SUFFICES ASSUME faults = 0, NEW x \in Projects, NEW y \in Users, <<x, y>> \in wanted',
                      member'[<<x, y>>] = None
               PROVE  \E q \in Requests : req'[q].step = "member_insert" /\ req'[q].project = x
                                          /\ req'[q].user = y
    BY <1>8 DEF MemberPending, At
  <2>1. <<x, y>> # pu
    BY <1>4
  <2>2. PICK q \in Requests : req[q].step = "member_insert" /\ req[q].project = x
                              /\ req[q].user = y
    BY <1>1, <1>4, <2>1 DEF IInv, ProjectInv, MemberPending, At
  <2>3. Kept(q)
    BY <1>8, <2>1, <2>2 DEF Others
  <2> QED
    BY <2>2, <2>3 DEF Kept
<1>11. ASSUME ~raced', NEW q \in Requests, req'[q].clean PROVE ProjectGrounds(req[q])'
  <2>1. CASE q = o
    <3>1. ProjectGrounds(req[o])
      BY <1>8, <1>11 DEF IInv, ProjectInv
    <3> QED
      BY <1>1, <1>2, <1>8, <2>1, <3>1 DEF ProjectGrounds
  <2>2. CASE q # o
    <3>1. /\ ProjectGrounds(req[q]) /\ Kept(q) /\ Filled(req[q])
          /\ req[q].about \cap req[o].about = {}
      BY <1>8, <1>11, <2>2 DEF IInv, TypeInv, ProjectInv, Others, Apart
    <3>2. req[q].step = "member_insert" =>
            <<req[q].project, req[q].user>> \in (Projects \X Users) \ {pu}
      BY <1>3, <3>1 DEF Filled, OfMember, OfProject
    <3> QED
      BY <1>1, <1>4, <3>1, <3>2 DEF ProjectGrounds, TitleTaken, Kept
  <2> QED
    BY <2>1, <2>2
<1> QED
  BY <1>8, <1>9, <1>10, <1>11 DEF IInv, ProjectInv

\* A member who waits for his row still does, if the rows and what is wanted stay.
LEMMA SameMembers ==
  ASSUME IInv, NEW o \in Requests, Others(o), UNCHANGED <<member, wanted>>, faults' = faults,
         req[o].step # "member_insert"
  PROVE  MemberPending'
BY DEF IInv, ProjectInv, MemberPending, At, Others, Kept

\* A project is inserted: its request is the one that is to insert its quota.
LEMMA Creates ==
  ASSUME IInv, NEW o \in Requests, NEW p \in Projects, AddProject(o, p)
  PROVE  IInv'
<1> DEFINE t == req[o].title
           row == [title |-> t, deleted |-> FALSE, quota |-> None]
           r == [req[o] EXCEPT !.step = "member_insert", !.project = p, !.about = @ \cup {p}]
<1>1. /\ req[o].step = "project_insert" /\ ~TitleTaken(t) /\ project[p] = None
      /\ ChangeTo(o, "project_insert", r)
      /\ project' = [project EXCEPT ![p] = row]
      /\ UNCHANGED <<user, member, resigned, wanted, lastMail, resets>>
  BY DEF AddProject, ChangeTo, At
<1>2. req[o] \in RequestState /\ Filled(req[o]) /\ Backed(req[o])
  BY DEF IInv, TypeInv, TypeOK
<1>3. t \in Titles /\ t # None /\ t \in req[o].about
  BY <1>1, <1>2, AccountsAssumption DEF Filled
<1>4. r \in RequestState
  BY ZenonT(60), <1>2 DEF RequestState, Steps
<1>5. /\ r.step = "member_insert" /\ r.project = p /\ r.title = t /\ r.user = req[o].user
      /\ r.role = req[o].role /\ r.about = req[o].about \cup {p}
  BY <1>2 DEF RequestState
<1>6. row \in ProjectRow /\ row.title = t /\ ~row.deleted /\ row.quota = None
  BY <1>3 DEF ProjectRow
<1> HIDE DEF r, row
<1>7. row # None
  BY <1>6, AccountsAssumption
<1>8. Filled(r)
  BY <1>1, <1>2, <1>3, <1>5 DEF Filled, Registering, Profiling, OfUser, Mailing, OfMember,
                                OfProject
<1>9. /\ project' \in [Projects -> ProjectRow \cup {None}] /\ project'[p] = row
      /\ \A x \in Projects \ {p} : project'[x] = project[x]
  BY <1>1, <1>6 DEF IInv, TypeInv, TypeOK
<1>10. BackedNext(r)
  BY <1>1, <1>2, <1>5, <1>7, <1>9 DEF Backed, BackedNext, OfUser, Profiling
<1>11. /\ \A x \in Projects : project[x] # None => project'[x] # None
       /\ \A x \in Projects : LiveProject(x)' => project'[x].title # None
       /\ member' \in [Projects \X Users -> Roles \cup {None}]
       /\ wanted' \in SUBSET (Projects \X Users)
  BY <1>1, <1>3, <1>6, <1>7, <1>9 DEF IInv, TypeInv, TypeOK, LiveProject
<1>12. \A x \in Projects, y \in Users :
         member'[<<x, y>>] # None => project'[x] # None /\ user[y] # None
  BY <1>1, <1>7, <1>9 DEF IInv, TypeInv, TypeOK
<1>13. /\ TypeInv' /\ UserInv' /\ Others(o) /\ Apart(o) /\ req'[o] = r
       /\ faults' = faults /\ (~raced' => ~raced /\ req[o].clean)
  BY <1>1, <1>4, <1>5, <1>8, <1>9, <1>10, <1>11, <1>12, ProjectChange DEF ProjectSteps
<1>14. \A q \in Requests \ {o} : Kept(q) /\ (req'[q].clean => req[q].clean)
                                 /\ (Creating(q)' <=> Creating(q))
  BY <1>13 DEF Others, Kept, Creating
<1>15. \A q \in Requests : req[q].step \in OfProject =>
         req[q].project \in Projects /\ req[q].project # p
  BY <1>1 DEF IInv, TypeInv, Filled, Backed
<1>16. ProjectRows'
  <2>1. \A x \in Projects \ {p} : project[x] # None => project[x].title # t
    BY <1>1 DEF TitleTaken
  <2> QED
    BY <1>6, <1>9, <2>1 DEF IInv, ProjectInv, ProjectRows
<1>17. Creations' /\ Deletions'
  <2>1. \A q \in Requests \ {o} : Creating(q) => req[q].project \in Projects \ {p}
    BY <1>15 DEF Creating, OfProject, OfMember
  <2>2. Creations'
    BY <1>5, <1>6, <1>9, <1>13, <1>14, <2>1 DEF IInv, ProjectInv, Creations, Kept
  <2>3. Deletions'
    BY <1>5, <1>9, <1>13, <1>14, <1>15 DEF IInv, ProjectInv, Deletions, At, Kept, OfProject
  <2> QED
    BY <2>2, <2>3
<1>18. MemberPending'
  BY <1>1, <1>13, SameMembers
<1>19. ASSUME ~raced', NEW q \in Requests, req'[q].clean PROVE ProjectGrounds(req[q])'
  <2>1. CASE q = o
    <3>1. member[<<p, req[o].user>>] = None
      <4>1. req[o].user \in Users
        BY <1>1, <1>2 DEF Filled
      <4> QED
        BY <1>1, <4>1 DEF IInv, TypeInv, TypeOK
    <3> QED
      BY <1>1, <1>5, <1>6, <1>9, <1>13, <2>1, <3>1 DEF ProjectGrounds
  <2>2. CASE q # o
    <3>1. /\ ProjectGrounds(req[q]) /\ Kept(q) /\ req[q].about \cap req[o].about = {}
      BY <1>13, <1>19, <2>2 DEF IInv, ProjectInv, Others, Apart
    <3>2. req[q].step \in OfProject => project'[req[q].project] = project[req[q].project]
      BY <1>9, <1>15
    <3>3. \A n \in req[q].about : TitleTaken(n)' => TitleTaken(n)
      BY <1>3, <1>6, <1>9, <3>1 DEF TitleTaken
    <3> QED
      BY <1>1, <3>1, <3>2, <3>3 DEF ProjectGrounds, Kept, OfProject, OfMember
  <2> QED
    BY <2>1, <2>2
<1>20. ASSUME ~raced', NEW x \in Projects, LiveProject(x)'
       PROVE  project'[x].quota \in {None, project'[x].title}
  BY <1>6, <1>9, <1>13, <1>20 DEF IInv, ProjectInv, LiveProject
<1>21. ASSUME faults' = 0, ~raced' PROVE QuotaPending'
  <2>1. QuotaPending
    BY <1>13, <1>21 DEF IInv, ProjectInv
  <2> SUFFICES ASSUME NEW x \in Projects, project'[x] # None,
                      project'[x].quota # project'[x].title
               PROVE  \E q \in Requests :
                        \/ req'[q].project = x /\ (Creating(q)' \/ At(q, "quota_delete")')
                        \/ At(q, "quota_delete")' /\ ~req'[q].clean
    BY DEF QuotaPending
  <2>2. CASE x = p
    <3>1. Creating(o)' /\ req'[o].project = p
      BY <1>3, <1>5, <1>13 DEF Creating
    <3> QED
      BY <2>2, <3>1
  <2>3. CASE x # p
    <3>1. PICK q \in Requests : \/ req[q].project = x /\ (Creating(q) \/ At(q, "quota_delete"))
                                \/ At(q, "quota_delete") /\ ~req[q].clean
      BY <1>9, <2>1, <2>3 DEF QuotaPending
    <3>2. q # o
      BY <1>1, <3>1 DEF Creating, At
    <3> QED
      BY <1>14, <3>1, <3>2 DEF At, Kept
  <2> QED
    BY <2>2, <2>3
<1> QED
  BY <1>13, <1>16, <1>17, <1>18, <1>19, <1>20, <1>21 DEF IInv, ProjectInv

\* The row of the project that a request names gets the state row.
LEMMA ProjectEdit ==
  ASSUME IInv, NEW o \in Requests, NEW s \in {"quota_insert", "project_delete", "quota_delete"},
         NEW r \in RequestState, ChangeTo(o, s, r), Filled(r), Backed(r),
         r.step \in {"idle", "quota_delete"},
         NEW row \in ProjectRow, project' = [project EXCEPT ![req[o].project] = row],
         ~row.deleted => row.title # None,
         UNCHANGED <<user, member, resigned, wanted, lastMail, resets>>
  PROVE  /\ TypeInv' /\ UserInv' /\ MemberPending' /\ Others(o) /\ Apart(o) /\ req'[o] = r
         /\ faults' = faults /\ (~raced' => ~raced /\ req[o].clean)
         /\ req[o].project \in Projects /\ req[o].project \in req[o].about
         /\ project'[req[o].project] = row /\ row # None
         /\ \A x \in Projects \ {req[o].project} : project'[x] = project[x]
<1> DEFINE p == req[o].project
<1>1. req[o].step = s
  BY DEF ChangeTo, At
<1>2. p \in Projects /\ p \in req[o].about /\ project[p] # None
  BY <1>1 DEF IInv, TypeInv, Filled, Backed, OfProject
<1>3. row # None
  BY AccountsAssumption
<1>4. /\ project' \in [Projects -> ProjectRow \cup {None}] /\ project'[p] = row
      /\ \A x \in Projects \ {p} : project'[x] = project[x]
  BY <1>2 DEF IInv, TypeInv, TypeOK
<1>5. /\ \A x \in Projects : project[x] # None => project'[x] # None
      /\ \A x \in Projects : LiveProject(x)' => project'[x].title # None
      /\ member' \in [Projects \X Users -> Roles \cup {None}]
      /\ wanted' \in SUBSET (Projects \X Users)
  BY <1>3, <1>4 DEF IInv, TypeInv, TypeOK, LiveProject
<1>6. \A x \in Projects, y \in Users :
        member'[<<x, y>>] # None => project'[x] # None /\ user[y] # None
  BY <1>5 DEF IInv, TypeInv, TypeOK
<1>7. BackedNext(r)
  <2>1. r.step \in OfProject => r.project \in Projects /\ project[r.project] # None
    BY DEF Filled, Backed
  <2> QED
    BY <1>5, <2>1 DEF BackedNext, OfUser, Profiling
<1>8. /\ TypeInv' /\ UserInv' /\ Others(o) /\ Apart(o) /\ req'[o] = r
      /\ faults' = faults /\ (~raced' => ~raced /\ req[o].clean)
  BY <1>4, <1>5, <1>6, <1>7, ProjectChange DEF ProjectSteps
<1>9. MemberPending'
  BY <1>1, <1>8, SameMembers
<1> QED
  BY <1>2, <1>3, <1>4, <1>8, <1>9

\* The row that a request is about to change.
LEMMA ProjectOf ==
  ASSUME IInv, NEW o \in Requests,
         req[o].step \in {"quota_insert", "project_delete", "quota_delete"}
  PROVE  /\ req[o].project \in Projects /\ req[o].project \in req[o].about
         /\ project[req[o].project] # None /\ project[req[o].project] \in ProjectRow
         /\ project[req[o].project].deleted => project[req[o].project].title = None
         /\ ~project[req[o].project].deleted => project[req[o].project].title # None
         /\ req[o] \in RequestState
<1>1. /\ req[o].project \in Projects /\ req[o].project \in req[o].about
      /\ project[req[o].project] # None /\ req[o] \in RequestState
  BY DEF IInv, TypeInv, TypeOK, Filled, Backed, OfProject
<1> QED
  BY <1>1 DEF IInv, TypeInv, TypeOK, ProjectInv, ProjectRows, LiveProject

\* AddProjectQuota: a clean request still finds the project under the name it has inserted.
LEMMA QuotaAdds ==
  ASSUME IInv, NEW o \in Requests, AddProjectQuota(o)
  PROVE  IInv'
<1> DEFINE p == req[o].project
           row == [project[p] EXCEPT !.quota = req[o].title]
<1>1. /\ req[o].step = "quota_insert" /\ ChangeTo(o, "quota_insert", Idle)
      /\ UNCHANGED <<user, member, resigned, wanted, lastMail, resets>>
  BY DEF AddProjectQuota, SetQuota, Change, ChangeTo, At
<1>2. req[o].title \in Titles /\ req[o].title # None
  BY <1>1, AccountsAssumption DEF IInv, TypeInv, Filled
<1>3. /\ p \in Projects /\ project[p] # None /\ project[p] \in ProjectRow
      /\ project[p].deleted => project[p].title = None
      /\ ~project[p].deleted => project[p].title # None
  BY <1>1, ProjectOf
<1>4. /\ row \in ProjectRow /\ row.title = project[p].title /\ row.deleted = project[p].deleted
      /\ row.quota = req[o].title
  BY <1>2, <1>3 DEF ProjectRow
<1>5. project' = [project EXCEPT ![p] = row]
  BY DEF AddProjectQuota, SetQuota
<1> HIDE DEF row
<1>6. Idle \in RequestState /\ Filled(Idle) /\ Backed(Idle) /\ Idle.step = "idle"
  BY IdleSound DEF Sound, Idle
<1>7. /\ TypeInv' /\ UserInv' /\ MemberPending' /\ Others(o) /\ Apart(o) /\ req'[o] = Idle
      /\ faults' = faults /\ (~raced' => ~raced /\ req[o].clean)
      /\ p \in req[o].about /\ project'[p] = row /\ row # None
      /\ \A x \in Projects \ {p} : project'[x] = project[x]
  <2>1. ~row.deleted => row.title # None
    BY <1>3, <1>4
  <2> QED
    BY ZenonT(60), <1>1, <1>4, <1>5, <1>6, <2>1, ProjectEdit
<1>8. \A q \in Requests \ {o} : Kept(q) /\ (req'[q].clean => req[q].clean)
                                /\ (Creating(q)' <=> Creating(q))
  BY <1>7 DEF Others, Kept, Creating
<1>9. ~Creating(o)' /\ ~At(o, "quota_delete")' /\ Creating(o)
  BY <1>1, <1>2, <1>6, <1>7 DEF Creating, At
<1>10. ProjectRows'
  BY <1>3, <1>4, <1>7 DEF IInv, ProjectInv, ProjectRows
<1>11. \A q \in Requests : req[q].step \in OfProject => req[q].project \in Projects
  BY DEF IInv, TypeInv, Filled
<1>12. Creations'
  <2>1. \A q \in Requests \ {o} : Creating(q) => req[q].project \in Projects \ {p}
    BY <1>9, <1>11 DEF IInv, ProjectInv, Creations, Creating, OfProject, OfMember
  <2> QED
    BY <1>7, <1>8, <1>9, <2>1 DEF IInv, ProjectInv, Creations, Kept
<1>13. Deletions'
  BY <1>4, <1>7, <1>8, <1>9, <1>11 DEF IInv, ProjectInv, Deletions, At, Kept, OfProject
<1>14. \A n : TitleTaken(n)' => TitleTaken(n)
  BY <1>3, <1>4, <1>7 DEF TitleTaken
<1>15. ASSUME ~raced', NEW q \in Requests, req'[q].clean PROVE ProjectGrounds(req[q])'
  <2>1. CASE q = o
    BY <1>6, <1>7, <2>1 DEF ProjectGrounds
  <2>2. CASE q # o
    <3>1. /\ ProjectGrounds(req[q]) /\ Kept(q) /\ req[q].about \cap req[o].about = {}
          /\ Filled(req[q])
      BY <1>7, <1>15, <2>2 DEF IInv, TypeInv, ProjectInv, Others, Apart
    <3>2. req[q].step \in OfProject => project'[req[q].project] = project[req[q].project]
      BY <1>7, <3>1 DEF Filled
    <3> QED
      BY <1>1, <1>14, <3>1, <3>2 DEF ProjectGrounds, Kept, OfProject, OfMember
  <2> QED
    BY <2>1, <2>2
<1>16. ASSUME ~raced' PROVE row.quota = row.title
  BY <1>1, <1>2, <1>4, <1>7, <1>16 DEF IInv, ProjectInv, ProjectGrounds
<1>17. ASSUME ~raced', NEW x \in Projects, LiveProject(x)'
       PROVE  project'[x].quota \in {None, project'[x].title}
  BY <1>7, <1>16, <1>17 DEF IInv, ProjectInv, LiveProject
<1>18. ASSUME faults' = 0, ~raced' PROVE QuotaPending'
  <2>1. QuotaPending
    BY <1>7, <1>18 DEF IInv, ProjectInv
  <2> SUFFICES ASSUME NEW x \in Projects, project'[x] # None,
                      project'[x].quota # project'[x].title
               PROVE  \E q \in Requests :
                        \/ req'[q].project = x /\ (Creating(q)' \/ At(q, "quota_delete")')
                        \/ At(q, "quota_delete")' /\ ~req'[q].clean
    BY DEF QuotaPending
  <2>2. x # p
    BY <1>7, <1>16, <1>18
  <2>3. PICK q \in Requests : \/ req[q].project = x /\ (Creating(q) \/ At(q, "quota_delete"))
                              \/ At(q, "quota_delete") /\ ~req[q].clean
    BY <1>7, <2>1, <2>2 DEF QuotaPending
  <2>4. q # o
    BY <1>1, <2>2, <2>3 DEF At
  <2> QED
    BY <1>8, <2>3, <2>4 DEF At, Kept
<1> QED
  BY <1>7, <1>10, <1>12, <1>13, <1>15, <1>17, <1>18 DEF IInv, ProjectInv

\* DeleteProject: the name is free then, and the quota row is left to the same request.
LEMMA ProjectDeletes ==
  ASSUME IInv, NEW o \in Requests, DeleteProject(o)
  PROVE  IInv'
<1> DEFINE p == req[o].project
           row == [project[p] EXCEPT !.title = None, !.deleted = TRUE]
           r == [req[o] EXCEPT !.step = "quota_delete"]
<1>1. /\ req[o].step = "project_delete" /\ ChangeTo(o, "project_delete", r)
      /\ project' = [project EXCEPT ![p] = row]
      /\ UNCHANGED <<user, member, resigned, wanted, lastMail, resets>>
  BY DEF DeleteProject, Change, ChangeTo, At
<1>2. /\ p \in Projects /\ project[p] # None /\ project[p] \in ProjectRow
      /\ project[p].deleted => project[p].title = None
      /\ req[o] \in RequestState
  BY <1>1, ProjectOf
<1>3. row \in ProjectRow /\ row.title = None /\ row.deleted /\ row.quota = project[p].quota
  BY <1>2 DEF ProjectRow
<1>4. /\ r \in RequestState /\ Filled(r) /\ Backed(r) /\ r.step = "quota_delete"
      /\ r.project = p /\ r.about = req[o].about /\ r.clean = req[o].clean
  BY <1>1, GoesOn
<1> HIDE DEF row, r
<1>5. /\ TypeInv' /\ UserInv' /\ MemberPending' /\ Others(o) /\ Apart(o) /\ req'[o] = r
      /\ faults' = faults /\ (~raced' => ~raced /\ req[o].clean)
      /\ p \in req[o].about /\ project'[p] = row /\ row # None
      /\ \A x \in Projects \ {p} : project'[x] = project[x]
  BY ZenonT(60), <1>1, <1>3, <1>4, ProjectEdit
<1>6. \A q \in Requests \ {o} : Kept(q) /\ (req'[q].clean => req[q].clean)
                                /\ (Creating(q)' <=> Creating(q))
  BY <1>5 DEF Others, Kept, Creating
<1>7. ~Creating(o)' /\ At(o, "quota_delete")' /\ req'[o].project = p
  BY <1>4, <1>5 DEF Creating, At
<1>8. ProjectRows'
  BY <1>3, <1>5 DEF IInv, ProjectInv, ProjectRows
<1>9. \A q \in Requests : req[q].step \in OfProject => req[q].project \in Projects
  BY DEF IInv, TypeInv, Filled
<1>10. Creations'
  <2>1. \A q \in Requests : Creating(q) => req[q].project \in Projects
    BY <1>9 DEF Creating, OfProject, OfMember
  <2>2. \A x \in Projects : project'[x].quota = project[x].quota
    BY <1>3, <1>5
  <2> QED
    BY <1>6, <1>7, <2>1, <2>2 DEF IInv, ProjectInv, Creations, Kept
<1>11. Deletions'
  BY <1>3, <1>5, <1>6, <1>7, <1>9 DEF IInv, ProjectInv, Deletions, At, Kept, OfProject
<1>12. ASSUME ~raced', NEW q \in Requests, req'[q].clean PROVE ProjectGrounds(req[q])'
  <2>1. CASE q = o
    <3>1. ProjectGrounds(req[o])
      BY <1>5, <1>12 DEF IInv, ProjectInv
    <3>2. project[p].title \in req[o].about /\ project[p].title # None
      <4>1. None \notin req[o].about
        BY <1>2, AccountsAssumption DEF RequestState
      <4> QED
        BY <1>1, <3>1, <4>1 DEF ProjectGrounds
    <3>3. LiveProject(p)
      BY <1>2, <3>2 DEF LiveProject
    <3>4. project[p].quota \in {None, project[p].title}
      BY <1>2, <1>5, <1>12, <3>3 DEF IInv, ProjectInv
    <3>5. \A x \in Projects : project'[x] # None => project'[x].title # project[p].title
      BY <1>2, <1>3, <1>5, <3>2 DEF IInv, ProjectInv, ProjectRows
    <3>6. row.quota # None =>
            /\ row.quota \in req[o].about
            /\ \A x \in Projects : project'[x] # None => project'[x].title # row.quota
      BY <1>3, <3>2, <3>4, <3>5
    <3>7. /\ req'[o].step = "quota_delete" /\ req'[o].project = p
          /\ req'[o].about = req[o].about /\ project'[p].quota = row.quota
      BY <1>4, <1>5
    <3> QED
      BY <2>1, <3>6, <3>7 DEF ProjectGrounds, TitleTaken
  <2>2. CASE q # o
    <3>1. /\ ProjectGrounds(req[q]) /\ Kept(q) /\ req[q].about \cap req[o].about = {}
          /\ Filled(req[q]) /\ req[q] \in RequestState
      BY <1>5, <1>12, <2>2 DEF IInv, TypeInv, TypeOK, ProjectInv, Others, Apart
    <3>2. req[q].step \in OfProject => project'[req[q].project] = project[req[q].project]
      BY <1>5, <3>1 DEF Filled
    <3>3. \A n : n # None /\ (\E x \in Projects : project'[x] # None /\ project'[x].title = n) =>
                   TitleTaken(n)
      BY <1>3, <1>5 DEF TitleTaken
    <3>4. None \notin req[q].about
      BY <3>1, AccountsAssumption DEF RequestState
    <3> QED
      BY <1>1, <3>1, <3>2, <3>3, <3>4 DEF ProjectGrounds, TitleTaken, Kept, OfProject, OfMember
  <2> QED
    BY <2>1, <2>2
<1>13. ASSUME ~raced', NEW x \in Projects, LiveProject(x)'
       PROVE  project'[x].quota \in {None, project'[x].title}
  BY <1>3, <1>5, <1>13 DEF IInv, ProjectInv, LiveProject
<1>14. ASSUME faults' = 0, ~raced' PROVE QuotaPending'
  <2>1. QuotaPending
    BY <1>5, <1>14 DEF IInv, ProjectInv
  <2> SUFFICES ASSUME NEW x \in Projects, project'[x] # None,
                      project'[x].quota # project'[x].title
               PROVE  \E q \in Requests :
                        \/ req'[q].project = x /\ (Creating(q)' \/ At(q, "quota_delete")')
                        \/ At(q, "quota_delete")' /\ ~req'[q].clean
    BY DEF QuotaPending
  <2>2. CASE x = p
    BY <1>7, <2>2
  <2>3. CASE x # p
    <3>1. PICK q \in Requests : \/ req[q].project = x /\ (Creating(q) \/ At(q, "quota_delete"))
                                \/ At(q, "quota_delete") /\ ~req[q].clean
      BY <1>5, <2>1, <2>3 DEF QuotaPending
    <3>2. q # o
      BY <1>1, <3>1 DEF At, Creating
    <3> QED
      BY <1>6, <3>1, <3>2 DEF At, Kept
  <2> QED
    BY <2>2, <2>3
<1> QED
  BY <1>5, <1>8, <1>10, <1>11, <1>12, <1>13, <1>14 DEF IInv, ProjectInv

\* DeleteQuota: the project has no name any more, and now no quota row.
LEMMA QuotaDeletes ==
  ASSUME IInv, NEW o \in Requests, DeleteQuota(o)
  PROVE  IInv'
<1> DEFINE p == req[o].project
           row == [project[p] EXCEPT !.quota = None]
<1>1. /\ req[o].step = "quota_delete" /\ ChangeTo(o, "quota_delete", Idle)
      /\ UNCHANGED <<user, member, resigned, wanted, lastMail, resets>>
  BY DEF DeleteQuota, SetQuota, Change, ChangeTo, At
<1>2. /\ p \in Projects /\ project[p] # None /\ project[p] \in ProjectRow
      /\ ~project[p].deleted => project[p].title # None
      /\ project[p].title = None
  BY <1>1, ProjectOf DEF IInv, ProjectInv, Deletions, At
<1>3. /\ row \in ProjectRow /\ row.title = None /\ row.deleted = project[p].deleted
      /\ row.quota = None
  BY <1>2 DEF ProjectRow
<1>4. project' = [project EXCEPT ![p] = row]
  BY DEF DeleteQuota, SetQuota
<1> HIDE DEF row
<1>5. Idle \in RequestState /\ Filled(Idle) /\ Backed(Idle) /\ Idle.step = "idle"
  BY IdleSound DEF Sound, Idle
<1>6. /\ TypeInv' /\ UserInv' /\ MemberPending' /\ Others(o) /\ Apart(o) /\ req'[o] = Idle
      /\ faults' = faults /\ (~raced' => ~raced /\ req[o].clean)
      /\ project'[p] = row /\ row # None
      /\ \A x \in Projects \ {p} : project'[x] = project[x]
  <2>1. ~row.deleted => row.title # None
    BY <1>2, <1>3
  <2> QED
    BY ZenonT(60), <1>1, <1>3, <1>4, <1>5, <2>1, ProjectEdit
<1>7. \A q \in Requests \ {o} : Kept(q) /\ (req'[q].clean => req[q].clean)
                                /\ (Creating(q)' <=> Creating(q))
  BY <1>6 DEF Others, Kept, Creating
<1>8. ~Creating(o)' /\ ~At(o, "quota_delete")'
  BY <1>5, <1>6 DEF Creating, At
<1>9. \A x \in Projects : /\ project[x] # None <=> project'[x] # None
                          /\ project'[x].title = project[x].title
                          /\ project'[x].deleted = project[x].deleted
                          /\ project'[x].quota \in {None, project[x].quota}
  BY <1>2, <1>3, <1>6
<1>10. ProjectRows'
  BY <1>9 DEF IInv, ProjectInv, ProjectRows
<1>11. \A q \in Requests : req[q].step \in OfProject => req[q].project \in Projects
  BY DEF IInv, TypeInv, Filled
<1>12. Creations'
  <2>1. \A q \in Requests : Creating(q) => req[q].project \in Projects
    BY <1>11 DEF Creating, OfProject, OfMember
  <2> QED
    BY <1>7, <1>8, <1>9, <2>1 DEF IInv, ProjectInv, Creations, Kept
<1>13. Deletions'
  BY <1>7, <1>8, <1>9, <1>11 DEF IInv, ProjectInv, Deletions, At, Kept, OfProject
<1>14. \A n : TitleTaken(n) <=> \E x \in Projects : project'[x] # None /\ project'[x].title = n
  BY <1>9 DEF TitleTaken
<1>15. ASSUME ~raced', NEW q \in Requests, req'[q].clean PROVE ProjectGrounds(req[q])'
  <2>1. CASE q = o
    BY <1>5, <1>6, <2>1 DEF ProjectGrounds
  <2>2. CASE q # o
    <3>1. ProjectGrounds(req[q]) /\ Kept(q) /\ Filled(req[q])
      BY <1>6, <1>15, <2>2 DEF IInv, TypeInv, ProjectInv, Others
    <3>2. req[q].step \in OfProject =>
            /\ project'[req[q].project].title = project[req[q].project].title
            /\ project'[req[q].project].quota \in {None, project[req[q].project].quota}
      BY <1>9, <1>11
    <3> QED
      BY <1>1, <1>14, <3>1, <3>2 DEF ProjectGrounds, TitleTaken, Kept, OfProject, OfMember
  <2> QED
    BY <2>1, <2>2
<1>16. ASSUME ~raced', NEW x \in Projects, LiveProject(x)'
       PROVE  project'[x].quota \in {None, project'[x].title}
  BY <1>6, <1>9, <1>16 DEF IInv, ProjectInv, LiveProject
<1>17. ASSUME faults' = 0, ~raced' PROVE QuotaPending'
  <2>1. QuotaPending /\ req[o].clean
    BY <1>6, <1>17 DEF IInv, ProjectInv
  <2> SUFFICES ASSUME NEW x \in Projects, project'[x] # None,
                      project'[x].quota # project'[x].title
               PROVE  \E q \in Requests :
                        \/ req'[q].project = x /\ (Creating(q)' \/ At(q, "quota_delete")')
                        \/ At(q, "quota_delete")' /\ ~req'[q].clean
    BY DEF QuotaPending
  <2>2. x # p
    BY <1>3, <1>6
  <2>3. PICK q \in Requests : \/ req[q].project = x /\ (Creating(q) \/ At(q, "quota_delete"))
                              \/ At(q, "quota_delete") /\ ~req[q].clean
    BY <1>6, <2>1, <2>2 DEF QuotaPending
  <2>4. q # o
    BY <2>1, <2>2, <2>3
  <2> QED
    BY <1>7, <2>3, <2>4 DEF At, Kept
<1> QED
  BY <1>6, <1>10, <1>12, <1>13, <1>15, <1>16, <1>17 DEF IInv, ProjectInv

-----------------------------------------------------------------------------
(***************************************************************************)
(* The inductive invariant.                                                *)
(***************************************************************************)
\* The invariant holds at the start.
LEMMA Starts ==
  ASSUME Init
  PROVE  IInv
<1>1. /\ user = InitialUsers /\ (\A p \in Projects : project[p] = None)
      /\ (\A m \in Projects \X Users : member[m] = None)
      /\ (\A o \in Requests : req[o] = Idle /\ req[o].step = "idle")
      /\ (\A u \in Users : lastMail[u] = None) /\ (\A l \in Links : resets[l] = 0)
      /\ wanted = {}
  BY DEF Init, Idle
<1>2. Sound(Idle)
  BY IdleSound
<1>3. /\ user \in [Users -> UserRow \cup {None}] /\ Root \in Users /\ user[Root] # None
      /\ user[Root].admin
      /\ \A u \in Users : user[u] # None =>
           user[u].name # None /\ user[u].email # None /\ user[u].link = None /\ ~user[u].deleted
      /\ \A u, v \in Users : user[u] # None /\ user[v] # None /\ user[u].email = user[v].email =>
           u = v
  <2>1. user = InitialUsers
    BY <1>1
  <2> QED
    BY <2>1, AccountsAssumption
<1>4. TypeOK
  <2>1. begun \in 0..MaxRequests /\ faults \in 0..MaxFaults
    <3>1. MaxRequests \in Nat /\ MaxFaults \in Nat
      BY AccountsAssumption
    <3> QED
      BY <3>1 DEF Init
  <2>2. /\ mode \in {"db_auth", "ldap_auth"} /\ raced \in BOOLEAN /\ resigned \in BOOLEAN
        /\ wanted \in SUBSET (Projects \X Users)
    BY DEF Init
  <2>3. /\ project \in [Projects -> ProjectRow \cup {None}]
        /\ member \in [Projects \X Users -> Roles \cup {None}]
        /\ lastMail \in [Users -> Links \cup {None}] /\ resets \in [Links -> Nat]
    BY DEF Init
  <2>4. req \in [Requests -> RequestState]
    <3>1. Idle \in RequestState
      BY <1>2 DEF Sound
    <3> QED
      BY <3>1 DEF Init
  <2>5. \A p \in Projects, u \in Users :
          member[<<p, u>>] # None => project[p] # None /\ user[u] # None
    BY <1>1
  <2> QED
    BY <1>1, <1>3, <2>1, <2>2, <2>3, <2>4, <2>5 DEF TypeOK, Live, Exists, LiveProject
<1>5. TypeInv
  BY <1>1, <1>2, <1>4 DEF TypeInv, Sound
<1>6. UserInv
  <2>1. UserRows /\ LinkRows
    BY <1>1, <1>3 DEF UserRows, LinkRows, Exists
  <2>2. LinkRequests /\ MailSent /\ MailStored
    BY <1>1 DEF LinkRequests, MailSent, MailStored, At, Mailing
  <2>3. \A o \in Requests : UserGrounds(req[o])
    BY <1>1 DEF UserGrounds, Profiling, Mailing
  <2>4. NamesFree /\ AdminLeft
    BY <1>3 DEF NamesFree, AdminLeft, Exists, Live, IsAdminRole
  <2> QED
    BY <2>1, <2>2, <2>3, <2>4 DEF UserInv
<1>7. ProjectInv
  <2>1. ProjectRows /\ Creations /\ Deletions /\ MemberPending /\ QuotaPending
    BY <1>1 DEF ProjectRows, Creations, Creating, Deletions, At, MemberPending, QuotaPending
  <2>2. \A o \in Requests : ProjectGrounds(req[o])
    BY <1>1 DEF ProjectGrounds
  <2> QED
    BY <1>1, <2>1, <2>2 DEF ProjectInv, LiveProject
<1> QED
  BY <1>5, <1>6, <1>7 DEF IInv

\* The invariant is about the variables of the specification.
LEMMA Stutters ==
  ASSUME IInv, UNCHANGED vars
  PROVE  IInv'
<1>1. UNCHANGED <<mode, user, project, member, req, begun, faults, raced, resigned, wanted,
                  lastMail, resets>>
  BY DEF vars, tables, history
<1>2. TypeInv'
  BY <1>1 DEF IInv, TypeInv, TypeOK, Backed, Filled, Live, Exists, LiveProject
<1>3. UserInv'
  <2>1. UserRows' /\ LinkRows' /\ LinkRequests' /\ NamesFree' /\ AdminLeft'
    BY <1>1 DEF IInv, UserInv, UserRows, LinkRows, LinkRequests, NamesFree, AdminLeft, Exists,
                Live, IsAdminRole
  <2>2. \A o \in Requests : req'[o].clean => UserGrounds(req[o])'
    BY <1>1 DEF IInv, UserInv, UserGrounds, Exists, Live, IsAdminRole
  <2>3. faults' = 0 /\ ~raced' => MailSent' /\ MailStored'
    BY <1>1 DEF IInv, UserInv, MailSent, MailStored, At, Exists, Live
  <2> QED
    BY <2>1, <2>2, <2>3 DEF UserInv
<1>4. ProjectInv'
  <2>1. ProjectRows' /\ Creations' /\ Deletions' /\ MemberPending'
    BY <1>1 DEF IInv, ProjectInv, ProjectRows, Creations, Creating, Deletions, At, MemberPending
  <2>2. ~raced' => /\ \A o \in Requests : req'[o].clean => ProjectGrounds(req[o])'
                   /\ \A p \in Projects : LiveProject(p)' =>
                        project'[p].quota \in {None, project'[p].title}
    BY <1>1 DEF IInv, ProjectInv, ProjectGrounds, TitleTaken, LiveProject
  <2>3. faults' = 0 /\ ~raced' => QuotaPending'
    BY <1>1 DEF IInv, ProjectInv, QuotaPending, Creating, At
  <2> QED
    BY <2>1, <2>2, <2>3 DEF ProjectInv
<1> QED
  BY <1>2, <1>3, <1>4 DEF IInv

\* Every step of every handler keeps the invariant.
LEMMA Keeps ==
  ASSUME IInv, [Next]_vars
  PROVE  IInv'
<1>1. CASE UNCHANGED vars
  BY <1>1, Stutters
<1>2. ASSUME NEW o \in Requests, UserStep(o) PROVE IInv'
  <2>1. ASSUME NEW n \in Names, NEW e \in Emails, Register(o, n, e) \/ LdapLogin(o, n, e)
        PROVE  IInv'
    BY <2>1, RegisterBegins
  <2>2. ASSUME NEW u \in Users, NEW pw \in Passwords, Insert(o, u, pw) PROVE IInv'
    BY <2>2, Inserts
  <2>3. ASSUME NEW b \in Users, NEW u \in Users, NEW e \in Emails, ChangeProfile(o, b, u, e)
        PROVE  IInv'
    BY <2>3, ProfileBegins
  <2>4. ASSUME NEW b \in Users, NEW u \in Users, DeleteUser(o, b, u) PROVE IInv'
    BY <2>4, DeleteBegins
  <2>5. ASSUME NEW b \in Users, NEW u \in Users, NEW admin \in BOOLEAN, ToggleAdmin(o, b, u, admin)
        PROVE  IInv'
    BY <2>5, ToggleBegins
  <2>6. RegisterEmail(o) \/ LdapGet(o) \/ ProfileEmail(o) => IInv'
    BY Checks
  <2>7. InsertRefused(o) \/ ProfileRefused(o) => IInv'
    BY Refusals
  <2>8. ProfileUpdate(o) \/ UserDelete(o) \/ ToggleUserAdminRole(o) => IInv'
    BY Profiles, UserDeletes, Toggles
  <2> QED
    BY <1>2, <2>1, <2>2, <2>3, <2>4, <2>5, <2>6, <2>7, <2>8 DEF UserStep
<1>3. ASSUME NEW o \in Requests, PasswordStep(o) PROVE IInv'
  <2>1. ASSUME NEW b \in Users, NEW u \in Users, NEW old \in Passwords, NEW pw \in Passwords,
               ChangePassword(o, b, u, old, pw)
        PROVE  IInv'
    BY <2>1, PasswordBegins
  <2>2. ASSUME NEW e \in Emails, NEW l \in Links, SendEmail(o, e, l) PROVE IInv'
    BY <2>2, MailBegins
  <2>3. ASSUME NEW u \in Users, NEW pw \in Passwords, ResetPassword(o, u, pw) PROVE IInv'
    BY <2>3, ResetBegins
  <2>4. ChangeUserPassword(o) \/ SendMail(o) \/ UpdateUserResetUUID(o) => IInv'
    BY Passwordings, MailSends, MailStores
  <2>5. ResetUserPassword(o) => IInv'
    BY Resets DEF ResetUserPassword, Exists
  <2>6. PasswordRefused(o) \/ ResetRefused(o) => IInv'
    BY Refusals
  <2> QED
    BY <1>3, <2>1, <2>2, <2>3, <2>4, <2>5, <2>6 DEF PasswordStep
<1>4. ASSUME NEW o \in Requests, ProjectStep(o) PROVE IInv'
  <2>1. ASSUME NEW b \in Users, NEW u \in Users, NEW p \in Projects,
               \/ \E r \in Roles : MemberPost(o, b, p, u, r)
               \/ \E r \in Roles \cup {None} : MemberPut(o, b, p, u, r)
               \/ MemberDelete(o, b, p, u)
        PROVE  IInv'
    BY <2>1, MemberBegins
  <2>2. ASSUME NEW b \in Users, NEW t \in Titles, ProjectPost(o, b, t) PROVE IInv'
    BY <2>2, ProjectBegins
  <2>3. ASSUME NEW p \in Projects, AddProject(o, p) PROVE IInv'
    BY <2>3, Creates
  <2>4. ASSUME NEW b \in Users, NEW p \in Projects, ProjectDelete(o, b, p) PROVE IInv'
    BY <2>4, DeletionBegins
  <2>5. MemberClear(o) \/ DeleteProjectMember(o) \/ AddProjectMember(o) => IInv'
    BY Removes, Adds
  <2>6. MemberRefused(o) \/ QuotaRefused(o) \/ ProjectRefused(o) => IInv'
    BY MemberRefusals, QuotaRefusals, Refusals
  <2>7. AddProjectQuota(o) \/ DeleteProject(o) \/ DeleteQuota(o) => IInv'
    BY QuotaAdds, ProjectDeletes, QuotaDeletes
  <2> QED
    BY <1>4, <2>1, <2>2, <2>3, <2>4, <2>5, <2>6, <2>7 DEF ProjectStep
<1>5. ASSUME NEW o \in Requests, StatementFails(o) PROVE IInv'
  BY <1>5, Failures
<1> QED
  BY <1>1, <1>2, <1>3, <1>4, <1>5 DEF Next

\* The inductive invariant is one.
LEMMA Inductive == Spec => []IInv
<1>1. Init => IInv
  BY Starts
<1>2. IInv /\ [Next]_vars => IInv'
  BY Keeps
<1> QED
  BY <1>1, <1>2, PTL DEF Spec

-----------------------------------------------------------------------------
(***************************************************************************)
(* The theorems.                                                           *)
(***************************************************************************)

\* The tables keep their types whatever the handlers do: a live user has a name and an
\* address, a live project its name, and a member his project and his user.
THEOREM TypeCorrect == Spec => []TypeOK
<1>1. IInv => TypeOK
  BY DEF IInv, TypeInv
<1> QED
  BY <1>1, Inductive, PTL

\* ResetUserPassword uses the link of a mail at most once, however resets with it overlap.
THEOREM LinkOnce == Spec => []ResetOnce
<1>1. IInv => ResetOnce
  BY DEF IInv, UserInv, LinkRows, ResetOnce
<1> QED
  BY <1>1, Inductive, PTL

\* A member whose role requests change is still one when they are done: MemberClear leaves
\* him only to a request that inserts him again, and the key of project_member refuses that
\* insert only if another request has made it.
THEOREM MembersStay == Spec => []MemberKept
<1>1. IInv => MemberKept
  <2> SUFFICES ASSUME IInv, Quiet, faults = 0, NEW m \in wanted PROVE member[m] # None
    BY DEF MemberKept
  <2>1. PICK p \in Projects, u \in Users : m = <<p, u>>
    BY DEF IInv, TypeInv, TypeOK
  <2> QED
    BY <2>1 DEF IInv, ProjectInv, MemberPending, Quiet, At
<1> QED
  BY <1>1, Inductive, PTL

\* A deleted user has given name and address free if no two requests about him overlapped.
THEOREM DeletedFree == Spec => []NamesFree
<1>1. IInv => NamesFree
  BY DEF IInv, UserInv
<1> QED
  BY <1>1, Inductive, PTL

\* GetUser in an LDAP login finds the user whom UserExists has found, unless somebody has
\* changed him in between.
THEOREM LoginFinds == Spec => []LdapFinds
<1>1. IInv => LdapFinds
  BY DEF IInv, UserInv, UserGrounds, LdapFinds, At
<1> QED
  BY <1>1, Inductive, PTL

\* The link of the last mail to a user is the one in his row, if no two requests about him
\* overlapped and no statement failed, however many mails there were.
THEOREM LastLinkWorks == Spec => []LinkWorks
<1>1. IInv => LinkWorks
  BY DEF IInv, UserInv, MailSent, LinkWorks, Quiet, At
<1> QED
  BY <1>1, Inductive, PTL

\* The admins do not remove the last one of them, unless he resigns or requests overlap.
THEOREM AdminStays == Spec => []AdminLeft
<1>1. IInv => AdminLeft
  BY DEF IInv, UserInv
<1> QED
  BY <1>1, Inductive, PTL

\* A project has its quota row under its own name, and a deleted one has none, when all
\* requests are done and none failed or overlapped with another about the same name.
THEOREM QuotaKept == Spec => []QuotaMatches
<1>1. IInv => QuotaMatches
  BY DEF IInv, ProjectInv, QuotaPending, Creating, QuotaMatches, Quiet, At
<1> QED
  BY <1>1, Inductive, PTL
=============================================================================
