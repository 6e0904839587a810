----------------------------- MODULE MCAccounts -----------------------------
(***************************************************************************)
(* A small instance of Accounts for TLC: the first user, who is an admin,  *)
(* and another one are there at the start.                                 *)
(***************************************************************************)
EXTENDS Accounts, TLC

CONSTANTS u1, u2, n1, n2, n3, e1, e2, e3, pw1

Row(n, e, admin) ==
  [name |-> n, email |-> e, password |-> pw1, link |-> None, admin |-> admin, deleted |-> FALSE]

FirstUsers == [u \in Users |->
  CASE u = u1 -> Row(n1, e1, TRUE) [] u = u2 -> Row(n2, e2, FALSE) [] OTHER -> None]

\* Who registers or logs in with LDAP: the second user, or a new one.
Newcomers == {<<n2, e2>>, <<n3, e3>>}

Symmetry == Permutations(Links) \cup Permutations(Requests) \cup Permutations(Projects)
=============================================================================
