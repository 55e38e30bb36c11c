---------------------------- MODULE IamReconcile ----------------------------
(***************************************************************************)
(* ReconcileIdentityAccess (iam_model/example) run by several callers at   *)
(* once over the IAM model, while users create identities and policies and *)
(* attach and detach them.  A caller takes one snapshot and then works     *)
(* from it, one API call at a time: each call is a step.  The order in     *)
(* which it goes through its maps is random in Go and open here.           *)
(***************************************************************************)
EXTENDS IamModel, Naturals

CONSTANTS
  Callers,         \* callers of ReconcileIdentityAccess
  Desired,         \* the identities that shall have access, the same for all
  Resource,        \* the resource it is about
  MaxDisturbances  \* bound: steps taken by users

ASSUME DesiredAssumption == Desired \subseteq Identities
ASSUME ResourceAssumption == Resource \in Resources
ASSUME BoundAssumption == MaxDisturbances \in Nat

\* A run: the attachments it still has to remove, the identities it found
\* missing, the policy it created for them, and (for SuccessIsExact only) the
\* disturbances that were left at its snapshot.
Runs ==
  [phase : {"idle", "detach", "create", "attach"},
   detach : SUBSET (Identities \X PolicyIDs), missing : SUBSET Identities,
   policy : PolicyIDs \cup {NoPolicy}, since : 0..MaxDisturbances]

VARIABLES
  run,    \* what each caller is doing
  left    \* user steps that may still happen

vars == <<identities, policies, run, left>>

TypeOK ==
  /\ IamTypeOK
  /\ run \in [Callers -> Runs]
  /\ left \in 0..MaxDisturbances

NoRun == [phase |-> "idle", detach |-> {}, missing |-> {}, policy |-> NoPolicy, since |-> 0]

Init ==
  /\ IamInit
  /\ run = [c \in Callers |-> NoRun]
  /\ left = MaxDisturbances

Held ==
  UNION {{a[2] : a \in run[c].detach} \cup {run[c].policy} : c \in Callers}

-----------------------------------------------------------------------------
(* The callers. *)

InPhase(c, phase) == run[c].phase = phase

\* Fault: any policy counts as one for the resource.
HasPolicyForResourceFault(i) == identities[i] # {}

HasPolicyForResource(i) == \E p \in identities[i] : policies[p] = Resource

\* Faults: policies for other resources are taken along; one policy is overlooked.
PoliciesForAnyFault(i) == identities[i]
PoliciesForOneFault(i) == {CHOOSE p \in identities[i] : policies[p] = Resource}

PoliciesForResource(i) == {p \in identities[i] : policies[p] = Resource}

\* The next phase of a run with nothing left to detach, or its end.
AfterDetach(r) ==
  IF r.detach # {} THEN r
  ELSE IF r.missing # {} THEN [r EXCEPT !.phase = "create"]
  ELSE NoRun

\* Snapshot, and the plan made from it.
TakeSnapshot(c) ==
  /\ InPhase(c, "idle")
  /\ LET current == {i \in Existing : HasPolicyForResource(i)}
     IN  run' = [run EXCEPT ![c] = AfterDetach(
           [phase   |-> "detach",
            detach  |-> UNION {{i} \X PoliciesForResource(i) : i \in current \ Desired},
            missing |-> Desired \ current,
            policy  |-> NoPolicy,
            since   |-> left])]
  /\ UNCHANGED <<identities, policies, left>>

\* One attachment is removed; an error, when somebody else removed it, ends the
\* run.  That one identity is finished before the next is left out.
Detach(c) ==
  /\ InPhase(c, "detach")
  /\ \E a \in run[c].detach :
       \/ /\ DetachIdentityPolicy(a[1], a[2])
          /\ run' = [run EXCEPT ![c] = AfterDetach([run[c] EXCEPT !.detach = run[c].detach \ {a}])]
       \/ /\ ~DetachSucceeds(a[1], a[2])
          /\ run' = [run EXCEPT ![c] = NoRun]
          /\ UNCHANGED iamVars
  /\ UNCHANGED left

\* One new policy serves all missing identities.
CreateMissingPolicy(c) ==
  /\ InPhase(c, "create")
  /\ FreshPolicyIDs(Held) # {}
  /\ LET p == CHOOSE q \in FreshPolicyIDs(Held) : TRUE
     IN  /\ CreatePolicy(p, Resource)
         /\ run' = [run EXCEPT ![c] = [run[c] EXCEPT !.phase = "attach", !.policy = p]]
  /\ UNCHANGED left

\* An identity that does not exist ends the run and leaves the rest unattached.
Attach(c) ==
  /\ InPhase(c, "attach")
  /\ \E i \in run[c].missing :
       \/ /\ AttachIdentityPolicy(i, run[c].policy)
          /\ run' = [run EXCEPT ![c] =
               IF run[c].missing = {i} THEN NoRun
               ELSE [run[c] EXCEPT !.missing = run[c].missing \ {i}]]
       \/ /\ ~AttachSucceeds(i, run[c].policy)
          /\ run' = [run EXCEPT ![c] = NoRun]
          /\ UNCHANGED iamVars
  /\ UNCHANGED left

Step(c) == TakeSnapshot(c) \/ Detach(c) \/ CreateMissingPolicy(c) \/ Attach(c)

-----------------------------------------------------------------------------
(* Users: a policy is created and attached in one step, since an unattached one
   grants nothing. *)

Disturb == left > 0 /\ left' = left - 1 /\ UNCHANGED run

UserCreatesIdentity == Disturb /\ \E i \in Identities : CreateIdentity(i)

UserGrants ==
  /\ Disturb
  /\ FreshPolicyIDs(Held) # {}
  /\ \E i \in Existing, resource \in Resources :
       LET p == CHOOSE q \in FreshPolicyIDs(Held) : TRUE
       IN  /\ policies' = [policies EXCEPT ![p] = resource]
           /\ identities' = [identities EXCEPT ![i] = @ \cup {p}]

UserAttaches ==
  Disturb /\ \E i \in Existing, p \in (Attached \cup Held) \cap PolicyIDs :
               AttachIdentityPolicy(i, p)

UserDetaches ==
  Disturb /\ \E i \in Existing : \E p \in identities[i] : DetachIdentityPolicy(i, p)

Users == UserCreatesIdentity \/ UserGrants \/ UserAttaches \/ UserDetaches

Next == Users \/ \E c \in Callers : Step(c)

Spec == Init /\ [][Next]_vars

\* A run goes on, and every caller reconciles again and again.
Fairness == \A c \in Callers : WF_vars(Step(c))

-----------------------------------------------------------------------------
(* Properties. *)

CallerSteps(c) == run'[c] # run[c]

\* Reconciling one resource leaves access to the others as it is, also when the
\* snapshot is old and its policies have since been attached elsewhere.
OtherResourcesUntouched ==
  [][\A c \in Callers : CallerSteps(c) =>
       \A resource \in Resources \ {Resource} : Granted(resource)' = Granted(resource)]_vars

\* A run that had something to do ends without an error: its last detach or attach
\* succeeded.
Succeeds(c) ==
  /\ CallerSteps(c)
  /\ run'[c] = NoRun
  /\ \/ InPhase(c, "detach") /\ identities' # identities
     \/ InPhase(c, "attach") /\ run[c].missing \subseteq Granted(Resource)'

\* "Grant access to exactly the identities in desired": a run that succeeds, and
\* during which no user did anything, leaves exactly them with access, whatever
\* other callers did at the same time from whichever snapshot.
SuccessIsExact ==
  [][\A c \in Callers : Succeeds(c) /\ run[c].since = left => Granted(Resource)' = Desired]_vars

\* Callers that work from old snapshots get in each other's way: they detach what
\* is gone already and fail half-way.  Still, once users stop and the desired
\* identities exist, access becomes and stays exactly what is desired.
Converges ==
  <>[](Desired \subseteq Existing) => <>[](Granted(Resource) = Desired)
=============================================================================
