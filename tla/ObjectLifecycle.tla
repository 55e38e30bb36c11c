--------------------------- MODULE ObjectLifecycle ---------------------------
(***************************************************************************)
(* What the API model promises about the life of an object, without        *)
(* versions, finalizers, grace periods or transactions: a key is bound to  *)
(* an object with a UID that was never used, the object may start          *)
(* terminating, which nothing undoes, and it leaves for ever.              *)
(***************************************************************************)
CONSTANTS Keys, UIDs, Gone

VARIABLES
  object,   \* the UID under each key and whether it terminates, or Gone
  used      \* the UIDs that no object can be given any more

vars == <<object, used>>

Init ==
  /\ object = [k \in Keys |-> Gone]
  /\ used = {}

\* A UID is spent, on an object or on a refused request.
Spend(uid) ==
  /\ uid \notin used
  /\ used' = used \cup {uid}

Waste ==
  /\ \E uid \in UIDs : Spend(uid)
  /\ UNCHANGED object

Appear(k) ==
  /\ object[k] = Gone
  /\ \E uid \in UIDs :
       /\ Spend(uid)
       /\ object' = [object EXCEPT ![k] = [uid |-> uid, terminating |-> FALSE]]

Terminate(k) ==
  /\ object[k] # Gone
  /\ object' = [object EXCEPT ![k] = [uid |-> object[k].uid, terminating |-> TRUE]]
  /\ UNCHANGED used

Leave(k) ==
  /\ object[k] # Gone
  /\ object' = [object EXCEPT ![k] = Gone]
  /\ UNCHANGED used

Next == Waste \/ \E k \in Keys : Appear(k) \/ Terminate(k) \/ Leave(k)

Spec == Init /\ [][Next]_vars
=============================================================================
