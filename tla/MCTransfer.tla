----------------------------- MODULE MCTransfer -----------------------------
(***************************************************************************)
(* Small instances of Transfer for TLC.                                    *)
(***************************************************************************)
EXTENDS Transfer, TLC

CONSTANTS j1, j2, j3, t1, t2, m1, m2, base, config

\* Jobs differ in nothing but their state.
JobSymmetry == Permutations(Jobs)

InOrder == [S \in SUBSET Tags |-> SelectSeq(<<t1, t2>>, LAMBDA t : t \in S)]

\* The images share a layer; m2 has schema 1 and so no config.
SharedLayers == [m \in Manifests |-> {base}]
Configs      == [m \in Manifests |-> IF m = m2 THEN {} ELSE {config}]

\* Tag t1 is pushed with two images, one of them under t2 too.
SharedImages == {<<t1, m1>>, <<t1, m2>>, <<t2, m1>>}

\* One error of either kind; none where all three jobs are in use and one is a deletion.
OneError ==
  LET full == \A j \in Jobs : job[j].state # "none"
  IN netErrors + failures <=
       IF full /\ \E j \in Jobs : job[j].op = "delete" THEN 0 ELSE 1

\* What later steps and the properties can tell of a job: one that no worker has is started
\* from its row, and of one that has ended only the operation counts.
LiveJob(j) ==
  CASE job[j].state \in Ended -> [NewJob EXCEPT !.state = job[j].state, !.op = job[j].op]
    [] job[j].state \in {"triggered", "waiting"} ->
         [NewJob EXCEPT !.state = job[j].state, !.op = job[j].op, !.want = job[j].want]
    [] OTHER -> job[j]
LiveState == <<registries, enabled, [j \in Jobs |-> LiveJob(j)], bounds>>
=============================================================================
