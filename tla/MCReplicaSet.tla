---------------------------- MODULE MCReplicaSet ----------------------------
(* Small instances of ReplicaSetController for TLC. *)
EXTENDS ReplicaSetController, TLC

Symmetry == Permutations(Workers) \cup Permutations(PodNames)

\* Two syncs race over the pods' names and the set; readiness has no part in it.
NoneReady == \A p \in Stored : pods[p].phase # "ready"

\* Names are alike: a new pod takes the first free one.
InNameOrder ==
  \A p \in PodNames :
    pods[p] = Absent /\ pods'[p] # Absent => \A q \in PodNames : q < p => pods[q] # Absent
=============================================================================
