-------------------------------- MODULE MCIam --------------------------------
(* A small instance of IamReconcile for TLC, started from a populated store. *)
EXTENDS IamReconcile

CONSTANTS old, other    \* policies that are there from the start
CONSTANT otherResource

\* Identities that may or may not exist hold any of the two policies: a state
\* users reach by creating and attaching them.
SeededInit ==
  /\ identities \in [Identities -> SUBSET {old, other} \cup {NoIdentity}]
  /\ policies = [p \in PolicyIDs |->
       CASE p = old -> Resource [] p = other -> otherResource [] OTHER -> NoPolicy]
  /\ run = [c \in Callers |-> NoRun]
  /\ left = MaxDisturbances

SeededSpec == SeededInit /\ [][Next]_vars /\ Fairness
=============================================================================
