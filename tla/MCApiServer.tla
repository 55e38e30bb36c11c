----------------------------- MODULE MCApiServer -----------------------------
(* Small instances of ApiServer for TLC. *)
EXTENDS ApiServer, TLC

\* One pod: graceful deletion, status endpoint, tracked generation.
PodKey == [k \in Keys |-> "Pod"]

CONSTANTS k1, k2

\* Two kinds: one is never deleted gracefully and holds the claim-protection
\* finalizer from its creation, the other is deleted gracefully.
ClaimAndPod == [k \in Keys |-> IF k = k1 THEN "PersistentVolumeClaim" ELSE "Pod"]

\* The bound on versions must not be what stops a transaction: leave out the
\* behaviours that spend the last version while one is running.
RoomToWrite == \A c \in Clients : InTx(c) => FreshRVs # {}

SpecSymmetry == Permutations(Specs)

\* A cfg has no negative numbers.
NegativeAndZero == {-1, 0}

\* UIDs and versions are only ever compared for equality, so it is enough to
\* look at the behaviours that hand them out in order.
InOrder ==
  /\ usedUID = 1..Cardinality(usedUID)
  /\ usedRV = 1..Cardinality(usedRV)
=============================================================================
