------------------------------ MODULE IamModel ------------------------------
(***************************************************************************)
(* The IAM model (iam_model/state.go): identities, Allow policies for one  *)
(* resource each, and attachments.  Every operation runs under one mutex.  *)
(*                                                                         *)
(* Policies are never deleted and their IDs never reused.  A policy that   *)
(* is attached to nobody and that no caller holds grants nothing, and a    *)
(* caller who wants one like it can create it: its ID may stand for a      *)
(* fresh one, so any number of creations fits in a finite set of IDs.      *)
(***************************************************************************)
EXTENDS FiniteSets

CONSTANTS
  Identities,
  Resources,
  PolicyIDs,
  NoIdentity,     \* the identity has not been created
  NoPolicy        \* the ID has not been generated

ASSUME NoneAssumption ==
  (\A S \in SUBSET PolicyIDs : S # NoIdentity) /\ NoPolicy \notin Resources

VARIABLES
  identities,     \* the policies attached to each identity, or NoIdentity
  policies        \* the resource each policy allows, or NoPolicy

iamVars == <<identities, policies>>

IamTypeOK ==
  /\ identities \in [Identities -> (SUBSET PolicyIDs) \cup {NoIdentity}]
  /\ policies \in [PolicyIDs -> Resources \cup {NoPolicy}]

IamInit ==
  /\ identities = [i \in Identities |-> NoIdentity]
  /\ policies = [p \in PolicyIDs |-> NoPolicy]

Existing == {i \in Identities : identities[i] # NoIdentity}

Attached == UNION {identities[i] : i \in Existing}

\* IDs that can stand for a freshly generated one, given those callers hold.
FreshPolicyIDs(held) == PolicyIDs \ (Attached \cup held)

CreateIdentity(i) ==
  /\ identities[i] = NoIdentity
  /\ identities' = [identities EXCEPT ![i] = {}]
  /\ UNCHANGED policies

CreatePolicy(p, resource) ==
  /\ policies' = [policies EXCEPT ![p] = resource]
  /\ UNCHANGED identities

\* Attaching twice is no error.
AttachSucceeds(i, p) == i \in Existing /\ policies[p] # NoPolicy

AttachIdentityPolicy(i, p) ==
  /\ AttachSucceeds(i, p)
  /\ identities' = [identities EXCEPT ![i] = @ \cup {p}]
  /\ UNCHANGED policies

\* Detaching twice is.
DetachSucceeds(i, p) == i \in Existing /\ policies[p] # NoPolicy /\ p \in identities[i]

DetachIdentityPolicy(i, p) ==
  /\ DetachSucceeds(i, p)
  /\ identities' = [identities EXCEPT ![i] = @ \ {p}]
  /\ UNCHANGED policies

\* Who may use the resource.
Granted(resource) ==
  {i \in Existing : \E p \in identities[i] : policies[p] = resource}
=============================================================================
