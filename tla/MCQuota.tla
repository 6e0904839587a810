------------------------------ MODULE MCQuota ------------------------------
(***************************************************************************)
(* Small instances of Quota for TLC.                                       *)
(***************************************************************************)
EXTENDS Quota, TLC

CONSTANTS o1, o2, i1, i2, m1, m2, m3

RequestSymmetry == Permutations(Requests)

Sizes == m1 :> 1 @@ m2 :> 2 @@ m3 :> 1

\* Image i1 is pushed with two manifests, and no manifest has two tags.
Distinct == {<<i1, m1>>, <<i1, m2>>, <<i2, m3>>}

\* The scope of docker, and that of the program's own clients.
DockerScope == {{"pull", "push"}}
AllScopes   == {{"pull", "push"}, {"pull", "push", "*"}}

Limit(n, s) == [num |-> n, size |-> s]
Roomy       == {Limit(1, 9), Limit(9, 3), Limit(9, 9)}
=============================================================================
