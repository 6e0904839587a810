---------------------------- MODULE MCJobService ----------------------------
(***************************************************************************)
(* Small instances of JobService for TLC.                                  *)
(***************************************************************************)
EXTENDS JobService, TLC

CONSTANTS j1, j2, p1, p2

\* The workers of the pool are interchangeable.
WorkerSymmetry == Permutations(Workers)

\* One policy, two jobs: a transfer, and a deletion or an unsupported operation.
OnePolicy == (j1 :> p1) @@ (j2 :> p1)
TwoOps    == (j1 :> "transfer") @@ (j2 :> "delete")
BadOp     == (j1 :> "transfer") @@ (j2 :> "other")

\* Two policies, one job each.
TwoPolicies == (j1 :> p1) @@ (j2 :> p2)
=============================================================================
