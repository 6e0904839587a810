------------------------------ MODULE Accounts ------------------------------
(***************************************************************************)
(* Users, projects and the members of projects, as the handlers of the ui  *)
(* change them: registration, profile, password and its reset by mail,     *)
(* deletion, first logins with LDAP, members and their roles, projects     *)
(* with their quota rows.                                                  *)
(*                                                                         *)
(* A step is one statement, or one mail.  No handler has a transaction;    *)
(* what protects the tables is their unique indexes and where clauses.     *)
(* Rows of users and projects are never removed: a deleted one is marked   *)
(* and its unique columns get a suffix, here None.  The reads with which a *)
(* request begins are one step.                                            *)
(***************************************************************************)
EXTENDS Naturals, FiniteSets

CONSTANTS Users, Projects,           \* ids
          Names, Emails, Passwords,  \* of users
          Titles,                    \* names of projects
          Links,                     \* reset_uuid of a mail
          ProjectAdmin, Guest,       \* roles
          None,
          Root,                      \* the user with id 1
          InitialUsers,              \* rows at the start
          Accounts,                  \* bound: the <<name, email>> that are registered
          Requests,                  \* bound: requests under way at a time
          MaxRequests, MaxFaults     \* bounds: requests in all, statements that fail

Roles == {ProjectAdmin, Guest}

UserRow ==
  [name : Names \cup {None}, email : Emails \cup {None}, password : Passwords,
   link : Links \cup {None}, admin : BOOLEAN, deleted : BOOLEAN]

\* quota: the name in its row of project_quota that is not marked as deleted.
ProjectRow == [title : Titles \cup {None}, deleted : BOOLEAN, quota : Titles \cup {None}]

ASSUME AccountsAssumption ==
  /\ None \notin Users \cup Projects \cup Names \cup Emails \cup Passwords \cup Titles
                   \cup Links \cup Roles
  /\ None \notin UserRow \cup ProjectRow
  /\ InitialUsers \in [Users -> UserRow \cup {None}]
  /\ Root \in Users /\ InitialUsers[Root] # None /\ InitialUsers[Root].admin
  /\ \A u \in Users : InitialUsers[u] # None =>
       LET row == InitialUsers[u]
       IN row.name # None /\ row.email # None /\ row.link = None /\ ~row.deleted
  /\ \A u, v \in Users :   \* unique columns of user
       InitialUsers[u] # None /\ InitialUsers[v] # None
         /\ (InitialUsers[u].name = InitialUsers[v].name
               \/ InitialUsers[u].email = InitialUsers[v].email) => u = v
  /\ Accounts \subseteq Names \X Emails
  /\ MaxRequests \in Nat /\ MaxFaults \in Nat

VARIABLES
  mode,      \* AUTH_MODE
  user,      \* rows of user
  project,   \* rows of project, with those of project_quota
  member,    \* project_member: role of a user in a project
  req,       \* requests under way, see RequestState
  begun, faults,
  raced,     \* history: a request came to its change after another had made one about the same
  resigned,  \* history: an admin has taken the flag from himself
  wanted,    \* history: <<project, user>> added as members and not removed since
  lastMail,  \* history: the link in the last mail to each user that was not used yet
  resets     \* history: how often each link has set a password

tables  == <<user, project, member>>
history == <<raced, resigned, wanted, lastMail, resets>>
vars    == <<mode, tables, req, begun, faults, history>>

Steps == {"idle", "register_email", "register_insert", "ldap_get", "profile_email",
          "profile_update", "user_delete", "password_update", "toggle", "mail_send",
          "mail_store", "reset_update", "member_clear", "member_insert", "member_delete",
          "project_insert", "quota_insert", "project_delete", "quota_delete"}

RequestState ==
  [step     : Steps,
   by       : Users \cup {None},
   user     : Users \cup {None},
   name     : Names \cup {None},
   email    : Emails \cup {None},
   old      : Passwords \cup {None},
   password : Passwords \cup {None},
   admin    : BOOLEAN,
   link     : Links \cup {None},
   project  : Projects \cup {None},
   title    : Titles \cup {None},
   role     : Roles \cup {None},
   about    : SUBSET (Users \cup Names \cup Emails \cup Projects \cup Titles),
   clean    : BOOLEAN]   \* history: nobody else has changed what this is about

Idle == [step |-> "idle", by |-> None, user |-> None, name |-> None, email |-> None,
         old |-> None, password |-> None, admin |-> FALSE, link |-> None, project |-> None,
         title |-> None, role |-> None, about |-> {}, clean |-> TRUE]

-----------------------------------------------------------------------------
(***************************************************************************)
(* Queries.                                                                *)
(***************************************************************************)
Exists(u) == user[u] # None

Live(u) == Exists(u) /\ ~user[u].deleted

LiveProject(p) == project[p] # None /\ ~project[p].deleted

\* UserExists looks at deleted users too.
NameTaken(n) == \E u \in Users : Exists(u) /\ user[u].name = n
EmailTaken(e) == \E u \in Users : Exists(u) /\ user[u].email = e

TitleTaken(t) == \E p \in Projects : project[p] # None /\ project[p].title = t
QuotaNameTaken(t) == \E p \in Projects : project[p] # None /\ project[p].quota = t

IsAdminRole(u) == Live(u) /\ user[u].admin

\* Who sends the request is checked against the table, whatever the session says.
ValidateUser(b) == Live(b)

HasProjectAdminRole(b, p) == IsAdminRole(b) \/ member[<<p, b>>] = ProjectAdmin

-----------------------------------------------------------------------------
TypeOK ==
  /\ mode \in {"db_auth", "ldap_auth"}
  /\ user \in [Users -> UserRow \cup {None}]
  /\ project \in [Projects -> ProjectRow \cup {None}]
  /\ \A u \in Users : Live(u) => user[u].name # None /\ user[u].email # None
  /\ \A p \in Projects : LiveProject(p) => project[p].title # None
  /\ member \in [Projects \X Users -> Roles \cup {None}]
  /\ \A p \in Projects, u \in Users : member[<<p, u>>] # None => project[p] # None /\ user[u] # None
  /\ req \in [Requests -> RequestState]
  /\ begun \in 0..MaxRequests /\ faults \in 0..MaxFaults
  /\ raced \in BOOLEAN /\ resigned \in BOOLEAN
  /\ wanted \in SUBSET (Projects \X Users)
  /\ lastMail \in [Users -> Links \cup {None}]
  /\ resets \in [Links -> Nat]

Init ==
  /\ mode \in {"db_auth", "ldap_auth"}
  /\ user = InitialUsers
  /\ project = [p \in Projects |-> None]
  /\ member = [m \in Projects \X Users |-> None]
  /\ req = [o \in Requests |-> Idle]
  /\ begun = 0 /\ faults = 0
  /\ raced = FALSE /\ resigned = FALSE
  /\ wanted = {}
  /\ lastMail = [u \in Users |-> None]
  /\ resets = [l \in Links |-> 0]

-----------------------------------------------------------------------------
(***************************************************************************)
(* The course of a request.                                                *)
(***************************************************************************)
At(o, s) == req[o].step = s

Begin(o, r) ==
  /\ At(o, "idle")
  /\ begun < MaxRequests
  /\ begun' = begun + 1
  /\ req' = [req EXCEPT ![o] = r]
  /\ UNCHANGED <<mode, tables, faults, history>>

\* A check: the request goes on or is refused.
Check(o, s, allowed, next) ==
  /\ At(o, s)
  /\ req' = [req EXCEPT ![o] = IF allowed THEN [@ EXCEPT !.step = next] ELSE Idle]
  /\ UNCHANGED <<mode, tables, begun, faults, history>>

\* Request o changes a row and becomes r; those about the same are not clean any more.
ChangeTo(o, s, r) ==
  /\ At(o, s)
  /\ raced' = (raced \/ ~req[o].clean)
  /\ req' = [q \in Requests |->
               IF q = o THEN r
               ELSE [req[q] EXCEPT !.clean = @ /\ req[q].about \cap req[o].about = {}]]
  /\ UNCHANGED <<mode, begun, faults>>

Change(o, s, next) ==
  ChangeTo(o, s, IF next = "idle" THEN Idle ELSE [req[o] EXCEPT !.step = next])

\* A unique index, or a where clause, refuses the change: the request ends.
Refused(o, s) ==
  /\ At(o, s)
  /\ raced' = (raced \/ ~req[o].clean)
  /\ req' = [req EXCEPT ![o] = Idle]
  /\ UNCHANGED <<mode, tables, begun, faults, resigned, wanted, lastMail, resets>>

\* A statement fails for another reason: every handler ends there.
StatementFails(o) ==
  /\ ~At(o, "idle")
  /\ faults < MaxFaults
  /\ faults' = faults + 1
  /\ req' = [req EXCEPT ![o] = Idle]
  /\ UNCHANGED <<mode, tables, begun, history>>

-----------------------------------------------------------------------------
(***************************************************************************)
(* Users.                                                                  *)
(***************************************************************************)

\* UserAPI.Post: neither name nor email is taken.
Register(o, n, e) ==
  /\ mode = "db_auth"
  /\ <<n, e>> \in Accounts
  /\ ~NameTaken(n)
  /\ Begin(o, [Idle EXCEPT !.step = "register_email", !.name = n, !.email = e,
                           !.about = {n, e}])

RegisterEmail(o) == Check(o, "register_email", ~EmailTaken(req[o].email), "register_insert")

Login(o, n, e, known) ==
  /\ mode = "ldap_auth"
  /\ <<n, e>> \in Accounts
  /\ Begin(o, [Idle EXCEPT !.step = IF known THEN "ldap_get" ELSE "register_insert",
                           !.name = n, !.email = e,
                           !.about = {n, e} \cup {u \in Users : Exists(u) /\ user[u].name = n}])

\* Mutant of LdapLogin: known by the address.
LdapLogin_Email(o, n, e) == Login(o, n, e, EmailTaken(e))

\* ldap.Auth.Authenticate, after the bind: a user who is not known yet is registered.
LdapLogin(o, n, e) == Login(o, n, e, NameTaken(n))

\* GetUser, whose result is used without a look.
LdapGet(o) == Check(o, "ldap_get", FALSE, "idle")

\* dao.Register; name and email are unique.
Insert(o, u, pw) ==
  LET n == req[o].name
      e == req[o].email
  IN /\ Change(o, "register_insert", "idle")
     /\ ~NameTaken(n) /\ ~EmailTaken(e)
     /\ ~Exists(u)
     /\ user' = [user EXCEPT ![u] = [name |-> n, email |-> e, password |-> pw, link |-> None,
                                     admin |-> FALSE, deleted |-> FALSE]]
     /\ UNCHANGED <<project, member, resigned, wanted, lastMail, resets>>

InsertRefused(o) ==
  /\ Refused(o, "register_insert")
  /\ NameTaken(req[o].name) \/ EmailTaken(req[o].email)

\* Whose account b may change; with LDAP only the first user has one here.
MayChange(b, u) ==
  /\ ValidateUser(b) /\ Live(u)
  /\ IsAdminRole(b) \/ b = u
  /\ mode = "db_auth" \/ (u = Root /\ b = u)

\* UserAPI.Put, by user b for user u: a new email is not taken.
ChangeProfile(o, b, u, e) ==
  /\ MayChange(b, u)
  /\ Begin(o, [Idle EXCEPT !.step = IF e = user[u].email THEN "profile_update" ELSE "profile_email",
                           !.user = u, !.email = e, !.about = {b, u, user[u].email, e}])

ProfileEmail(o) == Check(o, "profile_email", ~EmailTaken(req[o].email), "profile_update")

\* The unique index.
EmailOfOther(o) ==
  \E u \in Users \ {req[o].user} : Exists(u) /\ user[u].email = req[o].email

\* ChangeUserProfile: the row may be deleted meanwhile.
ProfileUpdate(o) ==
  /\ Change(o, "profile_update", "idle")
  /\ ~EmailOfOther(o)
  /\ user' = [user EXCEPT ![req[o].user].email = req[o].email]
  /\ UNCHANGED <<project, member, resigned, wanted, lastMail, resets>>

ProfileRefused(o) == Refused(o, "profile_update") /\ EmailOfOther(o)

\* Mutant of DeleteUser: for himself too.
DeleteUser_Self(o, b, u) ==
  /\ IsAdminRole(b) /\ Live(u)
  /\ Begin(o, [Idle EXCEPT !.step = "user_delete", !.user = u,
                           !.about = {b, u, user[u].name, user[u].email}])

\* UserAPI.Delete: an admin, not for himself.
DeleteUser(o, b, u) ==
  /\ IsAdminRole(b) /\ Live(u)
  /\ b # u
  /\ Begin(o, [Idle EXCEPT !.step = "user_delete", !.user = u,
                           !.about = {b, u, user[u].name, user[u].email}])

Delete(o, name, email) ==
  /\ Change(o, "user_delete", "idle")
  /\ user' = [user EXCEPT ![req[o].user] = [@ EXCEPT !.name = name, !.email = email,
                                                     !.deleted = TRUE]]
  /\ UNCHANGED <<project, member, resigned, wanted, lastMail, resets>>

\* Mutant of UserDelete: the address keeps its value.
UserDelete_Email(o) == At(o, "user_delete") /\ Delete(o, None, user[req[o].user].email)

UserDelete(o) == Delete(o, None, None)

\* UserAPI.ToggleUserAdminRole, for himself too.
ToggleAdmin(o, b, u, admin) ==
  /\ IsAdminRole(b) /\ Live(u)
  /\ Begin(o, [Idle EXCEPT !.step = "toggle", !.by = b, !.user = u, !.admin = admin,
                           !.about = {b, u}])

ToggleUserAdminRole(o) ==
  /\ Change(o, "toggle", "idle")
  /\ user' = [user EXCEPT ![req[o].user].admin = req[o].admin]
  /\ resigned' = (resigned \/ (~req[o].admin /\ req[o].by = req[o].user))
  /\ UNCHANGED <<project, member, wanted, lastMail, resets>>

\* UserAPI.ChangePassword: the old one is right ...
ChangePassword(o, b, u, old, pw) ==
  /\ MayChange(b, u)
  /\ user[u].password = old
  /\ Begin(o, [Idle EXCEPT !.step = "password_update", !.user = u, !.old = old, !.password = pw,
                           !.about = {b, u}])

\* ... and still is.
ChangeUserPassword(o) ==
  /\ Change(o, "password_update", "idle")
  /\ user[req[o].user].password = req[o].old
  /\ user' = [user EXCEPT ![req[o].user].password = req[o].password]
  /\ UNCHANGED <<project, member, resigned, wanted, lastMail, resets>>

PasswordRefused(o) ==
  Refused(o, "password_update") /\ user[req[o].user].password # req[o].old

-----------------------------------------------------------------------------
(***************************************************************************)
(* A new password by mail.                                                 *)
(***************************************************************************)
Fresh(l) ==
  /\ resets[l] = 0
  /\ \A u \in Users : (Exists(u) => user[u].link # l) /\ lastMail[u] # l
  /\ \A q \in Requests : req[q].link # l

\* SendEmail: somebody has the address, ...
SendEmail(o, e, l) ==
  /\ EmailTaken(e)
  /\ Fresh(l)
  /\ Begin(o, [Idle EXCEPT !.step = "mail_send", !.email = e, !.link = l,
                           !.about = {e} \cup {u \in Users : Exists(u) /\ user[u].email = e}])

\* ... the mail is sent, ...
SendMail(o) ==
  /\ At(o, "mail_send")
  /\ lastMail' = [u \in Users |-> IF Exists(u) /\ user[u].email = req[o].email THEN req[o].link
                                  ELSE lastMail[u]]
  /\ req' = [req EXCEPT ![o].step = "mail_store"]
  /\ UNCHANGED <<mode, tables, begun, faults, raced, resigned, wanted, resets>>

\* Mutant of UpdateUserResetUUID: a link that is still open stays.
UpdateUserResetUUID_Keep(o) ==
  /\ Change(o, "mail_store", "idle")
  /\ user' = [u \in Users |->
       IF Exists(u) /\ user[u].email = req[o].email /\ user[u].link = None
       THEN [user[u] EXCEPT !.link = req[o].link] ELSE user[u]]
  /\ UNCHANGED <<project, member, resigned, wanted, lastMail, resets>>

\* ... and then its link is stored.
UpdateUserResetUUID(o) ==
  /\ Change(o, "mail_store", "idle")
  /\ user' = [u \in Users |->
       IF Exists(u) /\ user[u].email = req[o].email THEN [user[u] EXCEPT !.link = req[o].link]
       ELSE user[u]]
  /\ UNCHANGED <<project, member, resigned, wanted, lastMail, resets>>

\* ResetPassword with the link of user u ...
ResetPassword(o, u, pw) ==
  /\ Live(u) /\ user[u].link # None
  /\ Begin(o, [Idle EXCEPT !.step = "reset_update", !.user = u, !.link = user[u].link,
                           !.password = pw, !.about = {u, user[u].email}])

Reset(o, u) ==
  /\ Change(o, "reset_update", "idle")
  /\ user' = [user EXCEPT ![u] = [@ EXCEPT !.password = req[o].password, !.link = None]]
  /\ lastMail' = [lastMail EXCEPT ![u] = IF @ = req[o].link THEN None ELSE @]
  /\ resets' = [resets EXCEPT ![req[o].link] = @ + 1]
  /\ UNCHANGED <<project, member, resigned, wanted>>

\* Mutant of ResetUserPassword: the row is found by the id of the user.
ResetUserPassword_ById(o) == Reset(o, req[o].user)

\* ... which is its link still.
ResetUserPassword(o) ==
  \E u \in Users : Exists(u) /\ user[u].link = req[o].link /\ Reset(o, u)

ResetRefused(o) ==
  Refused(o, "reset_update") /\ \A u \in Users : Exists(u) => user[u].link # req[o].link

-----------------------------------------------------------------------------
(***************************************************************************)
(* Members.                                                                *)
(***************************************************************************)
MemberRequest(step, b, p, u, r) ==
  [Idle EXCEPT !.step = step, !.project = p, !.user = u, !.role = r, !.about = {b, p, u}]

\* ProjectMemberAPI.Prepare and the check of all three handlers.
MayManage(b, p) == ValidateUser(b) /\ LiveProject(p) /\ HasProjectAdminRole(b, p)

MemberPost(o, b, p, u, r) ==
  /\ MayManage(b, p)
  /\ Live(u) /\ member[<<p, u>>] = None
  /\ Begin(o, MemberRequest("member_insert", b, p, u, r))

\* Put with a role, or with none, which removes the member.
MemberPut(o, b, p, u, r) ==
  /\ MayManage(b, p)
  /\ member[<<p, u>>] # None
  /\ Begin(o, MemberRequest("member_clear", b, p, u, r))

MemberDelete(o, b, p, u) ==
  /\ MayManage(b, p)
  /\ Begin(o, MemberRequest("member_delete", b, p, u, None))

RemoveMember(o, s, next) ==
  /\ Change(o, s, next)
  /\ member' = [member EXCEPT ![<<req[o].project, req[o].user>>] = None]
  /\ wanted' = IF next = "idle" /\ req[o].role = None
               THEN wanted \ {<<req[o].project, req[o].user>>} ELSE wanted
  /\ UNCHANGED <<user, project, resigned, lastMail, resets>>

\* Mutant of MemberClear: a role that stays is not inserted again.
MemberClear_SameRole(o) ==
  RemoveMember(o, "member_clear",
               IF req[o].role \in {None, member[<<req[o].project, req[o].user>>]} THEN "idle"
               ELSE "member_insert")

\* The first statement of Put.
MemberClear(o) ==
  RemoveMember(o, "member_clear", IF req[o].role = None THEN "idle" ELSE "member_insert")

DeleteProjectMember(o) == RemoveMember(o, "member_delete", "idle")

\* AddProjectMember, for the owner of a new project too; project and user are the key.
AddProjectMember(o) ==
  LET pu == <<req[o].project, req[o].user>>
  IN /\ Change(o, "member_insert", IF req[o].title = None THEN "idle" ELSE "quota_insert")
     /\ member[pu] = None
     /\ member' = [member EXCEPT ![pu] = req[o].role]
     /\ wanted' = wanted \cup {pu}
     /\ UNCHANGED <<user, project, resigned, lastMail, resets>>

MemberRefused(o) ==
  Refused(o, "member_insert") /\ member[<<req[o].project, req[o].user>>] # None

-----------------------------------------------------------------------------
(***************************************************************************)
(* Projects.  What else Delete asks for is in modules Replication and      *)
(* Catalog.                                                                *)
(***************************************************************************)
ProjectPost(o, b, t) ==
  /\ ValidateUser(b)
  /\ ~TitleTaken(t)
  /\ Begin(o, [Idle EXCEPT !.step = "project_insert", !.user = b, !.title = t,
                           !.role = ProjectAdmin, !.about = {b, t}])

\* AddProject; names are unique.
AddProject(o, p) ==
  /\ ~TitleTaken(req[o].title)
  /\ project[p] = None
  /\ ChangeTo(o, "project_insert", [req[o] EXCEPT !.step = "member_insert", !.project = p,
                                               !.about = @ \cup {p}])
  /\ project' = [project EXCEPT ![p] = [title |-> req[o].title, deleted |-> FALSE,
                                        quota |-> None]]
  /\ UNCHANGED <<user, member, resigned, wanted, lastMail, resets>>

ProjectRefused(o) == Refused(o, "project_insert") /\ TitleTaken(req[o].title)

SetQuota(o, s, t) ==
  /\ Change(o, s, "idle")
  /\ project' = [project EXCEPT ![req[o].project].quota = t]
  /\ UNCHANGED <<user, member, resigned, wanted, lastMail, resets>>

\* AddProjectQuota, after the access log; names of projects are unique there too.
AddProjectQuota(o) ==
  SetQuota(o, "quota_insert", req[o].title) /\ ~QuotaNameTaken(req[o].title)

QuotaRefused(o) == Refused(o, "quota_insert") /\ QuotaNameTaken(req[o].title)

ProjectDelete(o, b, p) ==
  /\ MayManage(b, p)
  /\ Begin(o, [Idle EXCEPT !.step = "project_delete", !.project = p,
                           !.about = {b, p, project[p].title}])

\* Mutant of DeleteProject: the row gets another name and is not marked.
DeleteProject_Unmarked(o) ==
  /\ Change(o, "project_delete", "quota_delete")
  /\ project' = [project EXCEPT ![req[o].project].title = None]
  /\ UNCHANGED <<user, member, resigned, wanted, lastMail, resets>>

DeleteProject(o) ==
  /\ Change(o, "project_delete", "quota_delete")
  /\ project' = [project EXCEPT ![req[o].project] = [@ EXCEPT !.title = None, !.deleted = TRUE]]
  /\ UNCHANGED <<user, member, resigned, wanted, lastMail, resets>>

\* Mutant of DeleteQuota: the row keeps its name.
DeleteQuota_KeepName(o) == 
  At(o, "quota_delete") /\ SetQuota(o, "quota_delete", project[req[o].project].quota)

DeleteQuota(o) == SetQuota(o, "quota_delete", None)

-----------------------------------------------------------------------------
UserStep(o) ==
  \/ \E n \in Names, e \in Emails : Register(o, n, e) \/ LdapLogin(o, n, e)
  \/ RegisterEmail(o) \/ LdapGet(o)
  \/ \E u \in Users, pw \in Passwords : Insert(o, u, pw)
  \/ InsertRefused(o)
  \/ \E b, u \in Users, e \in Emails : ChangeProfile(o, b, u, e)
  \/ ProfileEmail(o) \/ ProfileUpdate(o) \/ ProfileRefused(o)
  \/ \E b, u \in Users : DeleteUser(o, b, u)
  \/ UserDelete(o)
  \/ \E b, u \in Users, admin \in BOOLEAN : ToggleAdmin(o, b, u, admin)
  \/ ToggleUserAdminRole(o)

PasswordStep(o) ==
  \/ \E b, u \in Users, old, pw \in Passwords : ChangePassword(o, b, u, old, pw)
  \/ ChangeUserPassword(o) \/ PasswordRefused(o)
  \/ \E e \in Emails, l \in Links : SendEmail(o, e, l)
  \/ SendMail(o) \/ UpdateUserResetUUID(o)
  \/ \E u \in Users, pw \in Passwords : ResetPassword(o, u, pw)
  \/ ResetUserPassword(o) \/ ResetRefused(o)

ProjectStep(o) ==
  \/ \E b, u \in Users, p \in Projects :
       \/ \E r \in Roles : MemberPost(o, b, p, u, r)
       \/ \E r \in Roles \cup {None} : MemberPut(o, b, p, u, r)
       \/ MemberDelete(o, b, p, u)
  \/ MemberClear(o) \/ DeleteProjectMember(o) \/ AddProjectMember(o) \/ MemberRefused(o)
  \/ \E b \in Users, t \in Titles : ProjectPost(o, b, t)
  \/ \E p \in Projects : AddProject(o, p)
  \/ ProjectRefused(o) \/ AddProjectQuota(o) \/ QuotaRefused(o)
  \/ \E b \in Users, p \in Projects : ProjectDelete(o, b, p)
  \/ DeleteProject(o) \/ DeleteQuota(o)

Next == \E o \in Requests : UserStep(o) \/ PasswordStep(o) \/ ProjectStep(o) \/ StatementFails(o)

Spec == Init /\ [][Next]_vars

-----------------------------------------------------------------------------
(***************************************************************************)
(* Safety.                                                                 *)
(***************************************************************************)
Quiet == \A o \in Requests : At(o, "idle")

\* A link of a reset mail sets a password at most once, however requests with it overlap:
\* the reset looks for the link again in the statement that removes it.
ResetOnce == \A l \in Links : resets[l] <= 1

\* A user who was added to a project, and whose role may have been changed since by several
\* requests at a time, is a member as long as nobody has removed him: Put deletes the row
\* first, but then somebody inserts it.  A statement that fails in between loses the member.
MemberKept == Quiet /\ faults = 0 => \A pu \in wanted : member[pu] # None

\* Unless two requests about the same user overlap with a change, a deleted user has given
\* name and address free, whatever profile was changed before and after.
NamesFree ==
  ~raced => \A u \in Users : Exists(u) /\ user[u].deleted =>
              user[u].name = None /\ user[u].email = None

\* The user whom ldap.Auth.Authenticate has found by UserExists is there for GetUser, whose
\* result it uses without a look, if nobody has changed the user in between.
LdapFinds ==
  \A o \in Requests : At(o, "ldap_get") /\ req[o].clean =>
    \E u \in Users : Live(u) /\ user[u].name = req[o].name

\* Unless two requests about the same user overlap with a change, the link in the last mail
\* to a user is the one that ResetPassword accepts, however many mails there were.
LinkWorks ==
  Quiet /\ faults = 0 /\ ~raced =>
    \A u \in Users : Live(u) => lastMail[u] \in {None, user[u].link}

\* There is an admin, as long as none resigns and requests about the same user do not
\* overlap with a change: admins delete and demote each other, but not the last one.
AdminLeft == ~raced /\ ~resigned => \E u \in Users : IsAdminRole(u)

\* After all requests a project has its quota row if it is not deleted and none otherwise,
\* under its name, unless requests about the same name overlap or a statement fails.
QuotaMatches ==
  Quiet /\ faults = 0 /\ ~raced =>
    \A p \in Projects : project[p] # None => project[p].quota = project[p].title
=============================================================================
