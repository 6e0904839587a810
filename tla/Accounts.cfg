SPECIFICATION Spec
CONSTANTS
  u1 = u1 u2 = u2 n1 = n1 n2 = n2 n3 = n3 e1 = e1 e2 = e2 e3 = e3 pw1 = pw1
  Users = {u1, u2, u3}
  Root = u1
  Projects = {p1, p2}
  Names = {n1, n2, n3}
  Emails = {e1, e2, e3}
  Passwords = {pw1, pw2}
  Titles = {t1}
  Links = {l1, l2}
  ProjectAdmin = ProjectAdmin
  Guest = Guest
  None = None
  InitialUsers <- FirstUsers
  Accounts <- Newcomers
  Requests = {o1, o2}
  MaxRequests = 3
  MaxFaults = 1
INVARIANTS
  TypeOK
  ResetOnce
  MemberKept
  
  
  LinkWorks
  AdminLeft
  QuotaMatches
SYMMETRY Symmetry
CHECK_DEADLOCK FALSE
