------------------------------- MODULE Mirror -------------------------------
(***************************************************************************)
(* What replication promises of the destination at any moment, whatever    *)
(* jobs run side by side, fail or start again: it follows the source with  *)
(* a delay of its own for each tag.  A tag gets only what the same tag has *)
(* had in the source, and one at a time; a deletion takes a manifest away. *)
(***************************************************************************)
CONSTANTS Tags, Manifests, NoManifest

VARIABLES src,   \* manifest of each tag in the source
          dst,   \* manifest of each tag in the destination
          past   \* manifests each tag has had in the source

Init ==
  /\ src = [t \in Tags |-> NoManifest]
  /\ dst = [t \in Tags |-> NoManifest]
  /\ past = [t \in Tags |-> {}]

\* A registry without manifest m: every tag that has it is gone.
Without(registry, m) == [t \in Tags |-> IF registry[t] = m THEN NoManifest ELSE registry[t]]

\* Users push to the source and delete from it.
PushToSource(t, m) ==
  /\ src' = [src EXCEPT ![t] = m]
  /\ past' = [past EXCEPT ![t] = @ \cup {m}]
  /\ UNCHANGED dst

DeleteFromSource(m) ==
  /\ src' = Without(src, m)
  /\ UNCHANGED <<dst, past>>

\* Replication follows.
Copy(t, m) ==
  /\ m \in past[t]
  /\ dst' = [dst EXCEPT ![t] = m]
  /\ UNCHANGED <<src, past>>

DeleteFromDestination(m) ==
  /\ dst' = Without(dst, m)
  /\ UNCHANGED <<src, past>>

Next ==
  \/ \E t \in Tags, m \in Manifests : PushToSource(t, m) \/ Copy(t, m)
  \/ \E m \in Manifests : DeleteFromSource(m) \/ DeleteFromDestination(m)

Spec == Init /\ [][Next]_<<src, dst, past>>
=============================================================================
