--------------------------- MODULE MCReplication ---------------------------
(***************************************************************************)
(* A small instance of Replication for TLC.                                *)
(***************************************************************************)
EXTENDS Replication, TLC

\* Ids and requests differ in nothing but their rows and their state.
Symmetry == Permutations(Targets) \cup Permutations(Keys) \cup Permutations(Policies)
              \cup Permutations(Requests)
=============================================================================
