----------------------------- MODULE MCCatalog -----------------------------
(***************************************************************************)
(* Small instances of Catalog for TLC.                                     *)
(***************************************************************************)
EXTENDS Catalog, TLC

CONSTANTS o1, o2

RequestSymmetry == Permutations(Requests)

\* Names in the order of their projects: a/x, a/y and b/x.
InOrder == [r \in Repos |-> IF r = 3 THEN 2 ELSE 1]

\* Projects a and a-b, repositories a-b/x and a/y: the hyphen sorts before the slash.
Hyphen == [r \in Repos |-> IF r = 1 THEN 2 ELSE 1]
=============================================================================
