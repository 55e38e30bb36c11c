------------------------------- MODULE IamProofs -------------------------------
(***************************************************************************)
(* Proofs about IamReconcile, for any number of callers, identities,       *)
(* resources, policies and user steps.                                     *)
(*                                                                         *)
(* What is stored matters as the set of attachments that give access to a  *)
(* resource (Gives).  A caller's step is described by what it does to this *)
(* set and by the run it leaves (GoesOn); the invariant is proved from     *)
(* this description.                                                       *)
(***************************************************************************)
EXTENDS IamReconcile, TLAPS

\* What holds of a run by itself: it takes access only from identities that shall
\* not have it, gives it only to those that shall, and does the former first.
RunOK(r) ==
  /\ r \in Runs
  /\ r.detach \subseteq (Identities \ Desired) \X PolicyIDs
  /\ r.missing \subseteq Desired
  /\ r.phase # "detach" => r.detach = {}
  /\ r.phase = "attach" => r.policy \in PolicyIDs

\* The policies a run holds are for the resource.
HoldsPolicies(r, pols) ==
  /\ \A a \in r.detach : pols[a[2]] = Resource
  /\ r.phase = "attach" => pols[r.policy] = Resource

\* The attachments that give access to a resource.
Gives(resource) ==
  {a \in Identities \X PolicyIDs :
     /\ identities[a[1]] # NoIdentity
     /\ a[2] \in identities[a[1]]
     /\ policies[a[2]] = resource}

\* Undisturbed so far, a run knows all that is wrong: whoever has access and shall not
\* has it by attachments it will remove; whoever shall and has not, it found missing.
Knows(r, gives, disturbances) ==
  r.phase # "idle" =>
    /\ disturbances <= r.since
    /\ r.since = disturbances =>
         /\ \A a \in gives : a[1] \notin Desired => a \in r.detach
         /\ \A i \in Desired \ r.missing : \E p \in PolicyIDs : <<i, p>> \in gives

Stores ==
  /\ IamTypeOK
  /\ left \in 0..MaxDisturbances

Inv ==
  /\ Stores
  /\ run = [c \in Callers |-> run[c]]
  /\ \A c \in Callers :
       /\ RunOK(run[c])
       /\ HoldsPolicies(run[c], policies)
       /\ Knows(run[c], Gives(Resource), left)

\* Nobody gains access who shall not have it, nobody who shall loses it.
Towards(gives, after) ==
  \A a \in Identities \X PolicyIDs :
    IF a[1] \in Desired THEN a \in gives => a \in after
                        ELSE a \in after => a \in gives

\* The policies of held IDs stay what they are.
HeldStay == \A p \in Held \cap PolicyIDs : policies'[p] = policies[p]

\* The run of c goes on to r.
GoesOn(c, r) ==
  /\ run' = [run EXCEPT ![c] = r]
  /\ RunOK(r)
  /\ HoldsPolicies(r, policies')
  /\ Knows(r, Gives(Resource)', left')
  /\ IamTypeOK'
  /\ HeldStay
  /\ left' = left
  /\ Towards(Gives(Resource), Gives(Resource)')
  /\ \A resource \in Resources \ {Resource} : Gives(resource)' = Gives(resource)

-----------------------------------------------------------------------------
(* The store. *)

\* Who may use a resource, by the attachments that give access to it.
LEMMA GrantedGives ==
  ASSUME NEW resource
  PROVE  /\ IamTypeOK => Granted(resource) =
              {i \in Identities : \E p \in PolicyIDs : <<i, p>> \in Gives(resource)}
         /\ IamTypeOK' => Granted(resource)' =
              {i \in Identities : \E p \in PolicyIDs : <<i, p>> \in Gives(resource)'}
<1>1. /\ IamTypeOK => \A i \in Identities :
           identities[i] # NoIdentity => identities[i] \subseteq PolicyIDs
      /\ IamTypeOK' => \A i \in Identities :
           identities'[i] # NoIdentity => identities'[i] \subseteq PolicyIDs
  BY DEF IamTypeOK
<1> QED BY <1>1 DEF Granted, Existing, Gives

\* The policy of a fresh ID is attached to nobody, and no run holds it.
LEMMA FreshIsFree ==
  ASSUME IamTypeOK, NEW p, p \in FreshPolicyIDs(Held)
  PROVE  /\ p \in PolicyIDs /\ p \notin Held
         /\ \A i \in Identities : identities[i] # NoIdentity => p \notin identities[i]
  BY DEF FreshPolicyIDs, Attached, Existing

\* Creating it changes nobody's access.
LEMMA CreateGives ==
  ASSUME IamTypeOK, NEW p, p \in FreshPolicyIDs(Held), NEW r \in Resources, CreatePolicy(p, r)
  PROVE  /\ IamTypeOK' /\ HeldStay /\ policies'[p] = r
         /\ \A resource \in Resources : Gives(resource)' = Gives(resource)
<1>1. /\ p \in PolicyIDs /\ p \notin Held
      /\ \A i \in Identities : identities[i] # NoIdentity => p \notin identities[i]
  BY FreshIsFree
<1>2. /\ identities' = identities /\ policies' \in [PolicyIDs -> Resources \cup {NoPolicy}]
      /\ policies'[p] = r /\ \A q \in PolicyIDs \ {p} : policies'[q] = policies[q]
  BY <1>1 DEF CreatePolicy, IamTypeOK
<1> QED BY <1>1, <1>2 DEF Gives, HeldStay, IamTypeOK

LEMMA AttachGives ==
  ASSUME IamTypeOK, NEW i \in Identities, NEW p \in PolicyIDs, AttachIdentityPolicy(i, p)
  PROVE  /\ IamTypeOK' /\ policies' = policies
         /\ \A resource : Gives(resource)' = Gives(resource)
              \cup (IF policies[p] = resource THEN {<<i, p>>} ELSE {})
<1>1. /\ identities[i] # NoIdentity /\ identities[i] \in SUBSET PolicyIDs
      /\ policies' = policies /\ identities' = [identities EXCEPT ![i] = @ \cup {p}]
  BY DEF AttachIdentityPolicy, AttachSucceeds, Existing, IamTypeOK
<1>2. /\ identities'[i] = identities[i] \cup {p} /\ identities'[i] # NoIdentity
      /\ \A j \in Identities \ {i} : identities'[j] = identities[j]
      /\ identities' \in [Identities -> (SUBSET PolicyIDs) \cup {NoIdentity}]
  BY <1>1, NoneAssumption DEF IamTypeOK
<1> QED BY <1>1, <1>2 DEF Gives, IamTypeOK

LEMMA DetachGives ==
  ASSUME IamTypeOK, NEW i \in Identities, NEW p \in PolicyIDs, DetachIdentityPolicy(i, p)
  PROVE  /\ IamTypeOK' /\ policies' = policies
         /\ \A resource : Gives(resource)' = Gives(resource) \ {<<i, p>>}
         /\ <<i, p>> \in Gives(policies[p])
<1>1. /\ identities[i] # NoIdentity /\ identities[i] \in SUBSET PolicyIDs /\ p \in identities[i]
      /\ policies' = policies /\ identities' = [identities EXCEPT ![i] = @ \ {p}]
  BY DEF DetachIdentityPolicy, DetachSucceeds, Existing, IamTypeOK
<1>2. /\ identities'[i] = identities[i] \ {p} /\ identities'[i] # NoIdentity
      /\ \A j \in Identities \ {i} : identities'[j] = identities[j]
      /\ identities' \in [Identities -> (SUBSET PolicyIDs) \cup {NoIdentity}]
  BY <1>1, NoneAssumption DEF IamTypeOK
<1> QED BY <1>1, <1>2 DEF Gives, IamTypeOK

-----------------------------------------------------------------------------
(* The callers' steps. *)

LEMMA NoRunOK ==
  /\ RunOK(NoRun)
  /\ \A pols : HoldsPolicies(NoRun, pols)
  /\ \A gives, n : Knows(NoRun, gives, n)
  BY BoundAssumption DEF NoRun, RunOK, Runs, HoldsPolicies, Knows

\* A run that ends without touching the store.
LEMMA GivesUp ==
  ASSUME Inv, NEW c \in Callers, run' = [run EXCEPT ![c] = NoRun], UNCHANGED <<iamVars, left>>
  PROVE  GoesOn(c, NoRun)
<1>1. Gives(Resource)' = Gives(Resource) /\ \A resource : Gives(resource)' = Gives(resource)
  BY DEF Gives, iamVars
<1> QED BY <1>1, NoRunOK DEF GoesOn, HeldStay, Towards, iamVars, IamTypeOK, Inv, Stores

LEMMA AfterDetachOK ==
  ASSUME NEW r \in Runs, r.phase = "detach", NEW pols, NEW gives, NEW n,
         r.detach \subseteq (Identities \ Desired) \X PolicyIDs, r.missing \subseteq Desired,
         HoldsPolicies(r, pols), Knows(r, gives, n)
  PROVE  RunOK(AfterDetach(r)) /\ HoldsPolicies(AfterDetach(r), pols)
         /\ Knows(AfterDetach(r), gives, n)
<1>1. CASE r.detach # {}
  BY <1>1 DEF AfterDetach, RunOK
<1>2. CASE r.detach = {} /\ r.missing # {}
  <2> DEFINE t == [r EXCEPT !.phase = "create"]
  <2>1. AfterDetach(r) = t
    BY <1>2 DEF AfterDetach
  <2>2. t \in Runs /\ t.phase = "create" /\ t.detach = {} /\ t.missing = r.missing
        /\ t.since = r.since
    BY <1>2 DEF Runs
  <2> HIDE DEF t
  <2> QED BY <1>2, <2>1, <2>2 DEF RunOK, HoldsPolicies, Knows
<1>3. CASE r.detach = {} /\ r.missing = {}
  BY <1>3, NoRunOK DEF AfterDetach
<1> QED BY <1>1, <1>2, <1>3

LEMMA TakeSnapshotGoesOn ==
  ASSUME Inv, NEW c \in Callers, TakeSnapshot(c)
  PROVE  \E r : GoesOn(c, r)
<1> DEFINE current == {i \in Existing : HasPolicyForResource(i)}
           r == [phase   |-> "detach",
                 detach  |-> UNION {{i} \X PoliciesForResource(i) : i \in current \ Desired},
                 missing |-> Desired \ current,
                 policy  |-> NoPolicy,
                 since   |-> left]
<1>1. run' = [run EXCEPT ![c] = AfterDetach(r)] /\ UNCHANGED <<identities, policies, left>>
  BY DEF TakeSnapshot
<1>2. /\ current \subseteq Identities
      /\ \A i \in current : PoliciesForResource(i) \subseteq PolicyIDs
      /\ Desired \subseteq Identities
  BY DesiredAssumption DEF Existing, PoliciesForResource, Inv, Stores, IamTypeOK
<1>3. r.detach \subseteq (Identities \ Desired) \X PolicyIDs
  BY <1>2
<1>4. r \in Runs
  BY <1>2, <1>3 DEF Runs, Inv, Stores
<1>5. HoldsPolicies(r, policies)
  BY DEF HoldsPolicies, PoliciesForResource
<1>6. Knows(r, Gives(Resource), left)
  <2>1. \A a \in Gives(Resource) : a[1] \in current /\ a[2] \in PoliciesForResource(a[1])
                                   /\ a = <<a[1], a[2]>>
    BY DEF Gives, Existing, HasPolicyForResource, PoliciesForResource
  <2>2. \A i \in current : \E p \in PolicyIDs : <<i, p>> \in Gives(Resource)
    BY <1>2 DEF Gives, Existing, HasPolicyForResource, PoliciesForResource
  <2>3. left \in Nat
    BY DEF Inv, Stores
  <2>4. \A a \in Gives(Resource) : a[1] \notin Desired => a \in r.detach
    BY <2>1
  <2>5. \A i \in Desired \ r.missing : i \in current
    OBVIOUS
  <2> HIDE DEF current
  <2> QED BY <2>2, <2>3, <2>4, <2>5 DEF Knows
<1>7. r.phase = "detach" /\ r.missing \subseteq Desired
  OBVIOUS
<1> HIDE DEF r
<1>8. /\ RunOK(AfterDetach(r)) /\ HoldsPolicies(AfterDetach(r), policies)
      /\ Knows(AfterDetach(r), Gives(Resource), left)
  BY <1>3, <1>4, <1>5, <1>6, <1>7, AfterDetachOK
<1>9. \A resource : Gives(resource)' = Gives(resource)
  BY <1>1 DEF Gives
<1>10. Gives(Resource)' = Gives(Resource)
  BY <1>9
<1> QED BY <1>1, <1>8, <1>9, <1>10 DEF GoesOn, HeldStay, Towards, IamTypeOK, Inv, Stores

LEMMA DetachGoesOn ==
  ASSUME Inv, NEW c \in Callers, Detach(c)
  PROVE  \E r : GoesOn(c, r)
<1> DEFINE s == run[c]
<1>1. PICK a \in s.detach :
        \/ /\ DetachIdentityPolicy(a[1], a[2])
           /\ run' = [run EXCEPT ![c] = AfterDetach([run[c] EXCEPT !.detach = run[c].detach \ {a}])]
        \/ /\ ~DetachSucceeds(a[1], a[2])
           /\ run' = [run EXCEPT ![c] = NoRun]
           /\ UNCHANGED iamVars
  BY DEF Detach
<1>2. /\ s \in Runs /\ s.phase = "detach" /\ left' = left
      /\ s.detach \subseteq (Identities \ Desired) \X PolicyIDs /\ s.missing \subseteq Desired
      /\ HoldsPolicies(s, policies) /\ Knows(s, Gives(Resource), left)
      /\ run[c] = s /\ IamTypeOK
  BY DEF Detach, InPhase, Inv, RunOK, Stores
<1>3. CASE run' = [run EXCEPT ![c] = NoRun] /\ UNCHANGED iamVars
  BY <1>2, <1>3, GivesUp
<1>4. CASE /\ DetachIdentityPolicy(a[1], a[2])
           /\ run' = [run EXCEPT ![c] = AfterDetach([run[c] EXCEPT !.detach = run[c].detach \ {a}])]
  <2> DEFINE r == [s EXCEPT !.detach = s.detach \ {a}]
  <2>1. a[1] \in Identities \ Desired /\ a[2] \in PolicyIDs /\ a = <<a[1], a[2]>>
        /\ policies[a[2]] = Resource
    BY <1>1, <1>2 DEF HoldsPolicies
  <2>2. run' = [run EXCEPT ![c] = AfterDetach(r)]
    BY <1>4
  <2>3. /\ r \in Runs /\ r.phase = "detach" /\ r.detach = s.detach \ {a}
        /\ r.missing = s.missing /\ r.since = s.since
    BY <1>2 DEF Runs
  <2> HIDE DEF r, s
  <2>4. /\ IamTypeOK' /\ policies' = policies
        /\ \A resource : Gives(resource)' = Gives(resource) \ {<<a[1], a[2]>>}
        /\ <<a[1], a[2]>> \in Gives(policies[a[2]])
    BY <1>2, <1>4, <2>1, DetachGives
  <2>5. Gives(Resource)' = Gives(Resource) \ {a}
    BY <2>1, <2>4
  <2>6. \A resource \in Resources \ {Resource} : Gives(resource)' = Gives(resource)
    BY <2>1, <2>4 DEF Gives
  <2>7. HoldsPolicies(r, policies') /\ Knows(r, Gives(Resource)', left')
    <3>1. HoldsPolicies(r, policies')
      BY <1>2, <2>3, <2>4 DEF HoldsPolicies
    <3>2. \A i \in Desired : \A p \in PolicyIDs : <<i, p>> # a
      BY <2>1
    <3>3. Knows(r, Gives(Resource)', left')
      BY <1>2, <2>3, <2>5, <3>2 DEF Knows
    <3> QED BY <3>1, <3>3
  <2>8. /\ RunOK(AfterDetach(r)) /\ HoldsPolicies(AfterDetach(r), policies')
        /\ Knows(AfterDetach(r), Gives(Resource)', left')
    BY <1>2, <2>3, <2>7, AfterDetachOK
  <2>9. Towards(Gives(Resource), Gives(Resource)')
    BY <2>1, <2>5 DEF Towards
  <2> QED BY <1>2, <2>2, <2>4, <2>6, <2>8, <2>9 DEF GoesOn, HeldStay
<1> QED BY <1>1, <1>3, <1>4

LEMMA CreateMissingPolicyGoesOn ==
  ASSUME Inv, NEW c \in Callers, CreateMissingPolicy(c)
  PROVE  \E r : GoesOn(c, r)
<1> DEFINE p == CHOOSE q \in FreshPolicyIDs(Held) : TRUE
           r == [run[c] EXCEPT !.phase = "attach", !.policy = p]
<1>1. p \in FreshPolicyIDs(Held) /\ CreatePolicy(p, Resource) /\ left' = left
      /\ run' = [run EXCEPT ![c] = [run[c] EXCEPT !.phase = "attach", !.policy = p]]
  BY DEF CreateMissingPolicy
<1>2. run' = [run EXCEPT ![c] = r]
  BY <1>1 DEF Inv
<1> HIDE DEF p
<1>3. /\ RunOK(run[c]) /\ run[c].phase = "create" /\ IamTypeOK
      /\ Knows(run[c], Gives(Resource), left)
  BY DEF CreateMissingPolicy, InPhase, Inv, Stores
<1>4. p \in PolicyIDs
  BY <1>1, <1>3, FreshIsFree
<1>5. /\ IamTypeOK' /\ HeldStay /\ policies'[p] = Resource
      /\ \A resource \in Resources : Gives(resource)' = Gives(resource)
  BY <1>1, <1>3, ResourceAssumption, CreateGives
<1>6. /\ r \in Runs /\ r.phase = "attach" /\ r.policy = p /\ r.detach = run[c].detach
      /\ r.missing = run[c].missing /\ r.since = run[c].since
  BY <1>3, <1>4 DEF RunOK, Runs
<1> HIDE DEF r
<1>7. Gives(Resource)' = Gives(Resource)
  BY <1>5, ResourceAssumption
<1>8. RunOK(r) /\ HoldsPolicies(r, policies') /\ Knows(r, Gives(Resource)', left')
  BY <1>1, <1>3, <1>4, <1>5, <1>6, <1>7 DEF RunOK, HoldsPolicies, Knows
<1> QED BY <1>1, <1>2, <1>5, <1>7, <1>8 DEF GoesOn, Towards

LEMMA AttachGoesOn ==
  ASSUME Inv, NEW c \in Callers, Attach(c)
  PROVE  \E r : GoesOn(c, r)
<1> DEFINE s == run[c]
<1>1. PICK i \in s.missing :
        \/ /\ AttachIdentityPolicy(i, s.policy)
           /\ run' = [run EXCEPT ![c] =
                IF run[c].missing = {i} THEN NoRun
               ELSE [run[c] EXCEPT !.missing = run[c].missing \ {i}]]
        \/ /\ run' = [run EXCEPT ![c] = NoRun]
           /\ UNCHANGED iamVars
  BY DEF Attach
<1>2. /\ RunOK(s) /\ s.phase = "attach" /\ left' = left /\ IamTypeOK
      /\ HoldsPolicies(s, policies) /\ Knows(s, Gives(Resource), left)
  BY DEF Attach, InPhase, Inv, Stores
<1>3. CASE run' = [run EXCEPT ![c] = NoRun] /\ UNCHANGED iamVars
  BY <1>2, <1>3, GivesUp
<1>4. CASE /\ AttachIdentityPolicy(i, s.policy)
           /\ run' = [run EXCEPT ![c] =
                IF run[c].missing = {i} THEN NoRun
               ELSE [run[c] EXCEPT !.missing = run[c].missing \ {i}]]
  <2> DEFINE t == [s EXCEPT !.missing = s.missing \ {i}]
             r == IF s.missing = {i} THEN NoRun ELSE t
  <2>1. i \in Desired /\ i \in Identities /\ s.policy \in PolicyIDs /\ policies[s.policy] = Resource
    BY <1>1, <1>2, DesiredAssumption DEF RunOK, HoldsPolicies
  <2>2. run' = [run EXCEPT ![c] = r]
    BY <1>4
  <2>3. /\ t \in Runs /\ t.phase = "attach" /\ t.policy = s.policy /\ t.detach = s.detach
        /\ t.missing = s.missing \ {i} /\ t.since = s.since
    BY <1>2 DEF RunOK, Runs
  <2> HIDE DEF t, s
  <2>4. /\ IamTypeOK' /\ policies' = policies
        /\ \A resource : Gives(resource)' = Gives(resource)
             \cup (IF policies[s.policy] = resource THEN {<<i, s.policy>>} ELSE {})
    BY <1>2, <1>4, <2>1, AttachGives
  <2>5. Gives(Resource)' = Gives(Resource) \cup {<<i, s.policy>>}
    BY <2>1, <2>4
  <2>6. \A resource \in Resources \ {Resource} : Gives(resource)' = Gives(resource)
    BY <2>1, <2>4
  <2>7. RunOK(t) /\ HoldsPolicies(t, policies')
    BY <1>2, <2>1, <2>3, <2>4 DEF RunOK, HoldsPolicies
  <2>8. Knows(t, Gives(Resource)', left')
    BY <1>2, <2>1, <2>3, <2>5 DEF Knows
  <2>9. RunOK(r) /\ HoldsPolicies(r, policies') /\ Knows(r, Gives(Resource)', left')
    BY <2>7, <2>8, NoRunOK
  <2>10. Towards(Gives(Resource), Gives(Resource)')
    BY <2>1, <2>5 DEF Towards
  <2> HIDE DEF r
  <2> QED BY <1>2, <2>2, <2>4, <2>6, <2>9, <2>10 DEF GoesOn, HeldStay
<1> QED BY <1>1, <1>3, <1>4

LEMMA StepGoesOn ==
  ASSUME Inv, NEW c \in Callers, Step(c)
  PROVE  \E r : GoesOn(c, r)
  BY TakeSnapshotGoesOn, DetachGoesOn, CreateMissingPolicyGoesOn, AttachGoesOn DEF Step

-----------------------------------------------------------------------------
(* The invariant. *)

LEMMA HeldInRuns ==
  ASSUME Inv, NEW c \in Callers
  PROVE  /\ \A a \in run[c].detach : a[2] \in Held \cap PolicyIDs
         /\ run[c].phase = "attach" => run[c].policy \in Held \cap PolicyIDs
  BY DEF Inv, RunOK, Held

LEMMA PoliciesStayHeld ==
  ASSUME Inv, HeldStay, NEW c \in Callers
  PROVE  HoldsPolicies(run[c], policies')
  BY HeldInRuns DEF Inv, HeldStay, HoldsPolicies

LEMMA KnowsStays ==
  ASSUME NEW r, RunOK(r), NEW gives, gives \subseteq Identities \X PolicyIDs,
         NEW after, after \subseteq Identities \X PolicyIDs, NEW n,
         Knows(r, gives, n), Towards(gives, after)
  PROVE  Knows(r, after, n)
  BY DesiredAssumption DEF Knows, Towards

LEMMA GoesOnKeeps ==
  ASSUME Inv, NEW c \in Callers, NEW r, GoesOn(c, r)
  PROVE  Inv'
<1>1. /\ Stores' /\ run' = [d \in Callers |-> run'[d]] /\ run'[c] = r
      /\ \A d \in Callers \ {c} : run'[d] = run[d]
  BY DEF GoesOn, Inv, Stores
<1>2. Gives(Resource) \subseteq Identities \X PolicyIDs
      /\ Gives(Resource)' \subseteq Identities \X PolicyIDs
  BY DEF Gives
<1>3. ASSUME NEW d \in Callers
      PROVE  /\ RunOK(run'[d]) /\ HoldsPolicies(run'[d], policies')
             /\ Knows(run'[d], Gives(Resource)', left')
  <2>1. CASE d = c
    BY <1>1, <2>1 DEF GoesOn
  <2>2. CASE d # c
    <3>1. RunOK(run[d]) /\ Knows(run[d], Gives(Resource), left)
      BY DEF Inv
    <3>2. Knows(run[d], Gives(Resource)', left)
      BY <1>2, <3>1, KnowsStays DEF GoesOn
    <3>3. HoldsPolicies(run[d], policies')
      BY PoliciesStayHeld DEF GoesOn
    <3> QED BY <1>1, <2>2, <3>1, <3>2, <3>3 DEF GoesOn
  <2> QED BY <2>1, <2>2
<1> QED BY <1>1, <1>3 DEF Inv

\* A user's step leaves no run undisturbed.
LEMMA UsersKeep ==
  ASSUME Inv, Users
  PROVE  Inv'
<1>1. Disturb
  BY DEF Users, UserCreatesIdentity, UserGrants, UserAttaches, UserDetaches
<1>2. IamTypeOK' /\ HeldStay
  <2>1. CASE UserCreatesIdentity
    BY <2>1 DEF UserCreatesIdentity, CreateIdentity, Inv, Stores, IamTypeOK, HeldStay
  <2>2. CASE UserGrants
    <3> DEFINE p == CHOOSE q \in FreshPolicyIDs(Held) : TRUE
    <3>1. PICK i \in Existing, resource \in Resources :
            /\ policies' = [policies EXCEPT ![p] = resource]
            /\ identities' = [identities EXCEPT ![i] = @ \cup {p}]
      BY <2>2 DEF UserGrants
    <3>2. p \in FreshPolicyIDs(Held) /\ IamTypeOK
      BY <2>2 DEF UserGrants, Inv, Stores
    <3> HIDE DEF p
    <3>3. p \in PolicyIDs /\ p \notin Held
      BY <3>2, FreshIsFree
    <3>4. i \in Identities /\ identities[i] \in SUBSET PolicyIDs
      BY <3>2 DEF Existing, IamTypeOK
    <3> QED BY <3>1, <3>2, <3>3, <3>4 DEF IamTypeOK, HeldStay
  <2>3. CASE UserAttaches
    <3>1. PICK i \in Existing, p \in PolicyIDs : AttachIdentityPolicy(i, p)
      BY <2>3 DEF UserAttaches
    <3>2. i \in Identities /\ IamTypeOK
      BY DEF Existing, Inv, Stores
    <3> QED BY <3>1, <3>2, AttachGives DEF HeldStay
  <2>4. CASE UserDetaches
    <3>1. PICK i \in Existing : \E q \in identities[i] : DetachIdentityPolicy(i, q)
      BY <2>4 DEF UserDetaches
    <3>2. PICK p \in identities[i] : DetachIdentityPolicy(i, p)
      BY <3>1
    <3>3. i \in Identities /\ IamTypeOK /\ p \in PolicyIDs
      BY DEF Existing, Inv, Stores, IamTypeOK
    <3> QED BY <3>2, <3>3, DetachGives DEF HeldStay
  <2> QED BY <2>1, <2>2, <2>3, <2>4 DEF Users
<1>3. Stores' /\ left' < left /\ left \in Nat /\ left' \in Nat /\ run' = run
  BY <1>1, <1>2, BoundAssumption DEF Disturb, Inv, Stores
<1>4. ASSUME NEW c \in Callers
      PROVE  /\ RunOK(run[c]) /\ HoldsPolicies(run[c], policies')
             /\ Knows(run[c], Gives(Resource)', left')
  <2>1. RunOK(run[c]) /\ HoldsPolicies(run[c], policies')
    BY <1>2, PoliciesStayHeld DEF Inv
  <2>2. run[c].phase # "idle" => left' < run[c].since
    BY <1>3 DEF Inv, Knows, RunOK, Runs
  <2>3. run[c].since \in Nat
    BY <2>1 DEF RunOK, Runs
  <2>4. Knows(run[c], Gives(Resource)', left')
    BY <1>3, <2>2, <2>3 DEF Knows
  <2> QED BY <2>1, <2>4
<1> QED BY <1>3, <1>4 DEF Inv

LEMMA InvInit == Init => Inv
<1> SUFFICES ASSUME Init PROVE Inv
  OBVIOUS
<1>1. Stores /\ run = [c \in Callers |-> run[c]]
  BY BoundAssumption DEF Init, IamInit, Stores, IamTypeOK
<1>2. \A c \in Callers : run[c] = NoRun
  BY DEF Init
<1> QED BY <1>1, <1>2, NoRunOK DEF Inv

LEMMA InvNext == Inv /\ [Next]_vars => Inv'
<1>1. ASSUME Inv, UNCHANGED vars PROVE Inv'
  <2>1. Gives(Resource)' = Gives(Resource)
    BY <1>1 DEF vars, Gives
  <2> QED BY <1>1, <2>1 DEF vars, Inv, Stores, IamTypeOK
<1>2. ASSUME Inv, NEW c \in Callers, Step(c) PROVE Inv'
  BY <1>2, StepGoesOn, GoesOnKeeps
<1> QED BY <1>1, <1>2, UsersKeep DEF Next

LEMMA InvAlways == Spec => []Inv
  BY InvInit, InvNext, PTL DEF Spec

-----------------------------------------------------------------------------
(* The theorems. *)

\* Whatever callers and users do: the stores and the runs are well typed; an identity
\* has policies attached only once it exists, and a run holds policies of its own.
THEOREM TypeCorrect == Spec => []TypeOK
<1>1. Inv => TypeOK
  BY DEF Inv, Stores, RunOK, TypeOK
<1> QED BY <1>1, InvAlways, PTL

\* However many callers of ReconcileIdentityAccess work from however old snapshots, and
\* whatever users attach and detach meanwhile, none of its calls changes who may use
\* another resource.
THEOREM OthersUntouched == Spec => OtherResourcesUntouched
<1>1. ASSUME Inv, Next, NEW c \in Callers, CallerSteps(c), NEW resource \in Resources \ {Resource}
      PROVE  Granted(resource)' = Granted(resource)
  <2>1. ~Users
    BY <1>1 DEF CallerSteps, Users, UserCreatesIdentity, UserGrants, UserAttaches,
                UserDetaches, Disturb
  <2>2. PICK d \in Callers : \E r : GoesOn(d, r)
    BY <1>1, <2>1, StepGoesOn DEF Next
  <2>3. Gives(resource)' = Gives(resource) /\ IamTypeOK' /\ IamTypeOK
    BY <1>1, <2>2 DEF GoesOn, Inv, Stores
  <2>4. /\ Granted(resource) =
             {i \in Identities : \E p \in PolicyIDs : <<i, p>> \in Gives(resource)}
        /\ Granted(resource)' =
             {i \in Identities : \E p \in PolicyIDs : <<i, p>> \in Gives(resource)'}
    BY <2>3, GrantedGives
  <2> QED BY <2>3, <2>4
<1>2. Inv /\ [Next]_vars =>
        [\A c \in Callers : CallerSteps(c) =>
           \A resource \in Resources \ {Resource} : Granted(resource)' = Granted(resource)]_vars
  BY <1>1
<1> QED BY <1>2, InvAlways, PTL DEF Spec, OtherResourcesUntouched

LEMMA LastStep ==
  ASSUME Inv, NEW c \in Callers, Step(c), Succeeds(c), run[c].since = left
  PROVE  Granted(Resource)' = Desired
<1> DEFINE s == run[c]
<1>1. /\ RunOK(s) /\ s.phase # "idle" /\ run'[c] = NoRun /\ IamTypeOK /\ IamTypeOK'
      /\ Knows(s, Gives(Resource), left) /\ s.since = left
      /\ Desired \subseteq Identities
  BY DesiredAssumption, StepGoesOn DEF Succeeds, InPhase, Inv, Stores, GoesOn
<1>2. Granted(Resource)' =
        {i \in Identities : \E p \in PolicyIDs : <<i, p>> \in Gives(Resource)'}
  BY <1>1, GrantedGives
<1>3. Gives(Resource) \subseteq Identities \X PolicyIDs
  BY DEF Gives
<1>4. CASE s.phase = "detach"
  <2>1. Detach(c) /\ identities' # identities
    BY <1>4 DEF Step, TakeSnapshot, CreateMissingPolicy, Attach, InPhase, Succeeds
  <2>2. PICK a \in s.detach :
          /\ DetachIdentityPolicy(a[1], a[2])
          /\ run' = [run EXCEPT ![c] = AfterDetach([run[c] EXCEPT !.detach = run[c].detach \ {a}])]
    BY <2>1 DEF Detach, iamVars
  <2> DEFINE r == [s EXCEPT !.detach = s.detach \ {a}]
  <2>3. /\ r.phase = "detach" /\ r.detach = s.detach \ {a} /\ r.missing = s.missing
        /\ AfterDetach(r) = NoRun
    BY <1>1, <1>4, <2>2 DEF RunOK, Runs, Inv
  <2> HIDE DEF r
  <2>4. r.detach = {} /\ r.missing = {}
    <3>1. NoRun.phase = "idle" /\ [r EXCEPT !.phase = "create"].phase # "idle"
      BY <1>1, <2>3 DEF NoRun
    <3> QED BY <2>3, <3>1 DEF AfterDetach
  <2>5. a[1] \in Identities /\ a[2] \in PolicyIDs /\ a[1] \notin Desired /\ a = <<a[1], a[2]>>
    BY <1>1, <2>2 DEF RunOK
  <2>6. Gives(Resource)' = Gives(Resource) \ {a}
    BY <1>1, <2>2, <2>5, DetachGives
  <2>7. \A b \in Gives(Resource) : b[1] \notin Desired => b = a
    BY <1>1, <2>3, <2>4 DEF Knows
  <2>8. \A i \in Desired : \E p \in PolicyIDs : <<i, p>> \in Gives(Resource) /\ <<i, p>> # a
    BY <1>1, <2>3, <2>4, <2>5 DEF Knows
  <2> QED BY <1>1, <1>2, <2>6, <2>7, <2>8
<1>5. CASE s.phase = "attach"
  <2>1. Attach(c) /\ s.missing \subseteq Granted(Resource)'
    BY <1>5 DEF Step, TakeSnapshot, CreateMissingPolicy, Detach, InPhase, Succeeds
  <2>2. PICK r : GoesOn(c, r)
    BY StepGoesOn
  <2>3. Towards(Gives(Resource), Gives(Resource)') /\ Gives(Resource)' \subseteq Identities \X PolicyIDs
    BY <2>2 DEF GoesOn, Gives
  <2>4. \A b \in Gives(Resource) : b[1] \in Desired
    BY <1>1, <1>5 DEF Knows, RunOK
  <2>5. \A i \in Identities, p \in PolicyIDs : <<i, p>> \in Gives(Resource)' => i \in Desired
    BY <2>3, <2>4 DEF Towards
  <2>6. \A i \in Desired \ s.missing : \E p \in PolicyIDs : <<i, p>> \in Gives(Resource)'
    BY <1>1, <2>3 DEF Knows, Towards
  <2> QED BY <1>1, <1>2, <2>1, <2>5, <2>6
<1> QED BY <1>4, <1>5 DEF Succeeds, InPhase

\* "Grant access to exactly the identities in desired" (ReconcileIdentityAccess): a run
\* that ends without an error, and during which no user did anything, leaves exactly the
\* desired identities with access, however many other callers worked at the same time.
THEOREM SuccessLeavesDesired == Spec => SuccessIsExact
<1>1. ASSUME Inv, Next, NEW c \in Callers, Succeeds(c), run[c].since = left
      PROVE  Granted(Resource)' = Desired
  <2>1. ~Users
    BY <1>1 DEF Succeeds, CallerSteps, Users, UserCreatesIdentity, UserGrants, UserAttaches,
                UserDetaches, Disturb
  <2>2. PICK d \in Callers : Step(d)
    BY <1>1, <2>1 DEF Next
  <2>3. d = c
    BY <1>1, <2>2, StepGoesOn DEF GoesOn, Succeeds, CallerSteps, Inv
  <2> QED BY <1>1, <2>2, <2>3, LastStep
<1>2. Inv /\ [Next]_vars =>
        [\A c \in Callers : Succeeds(c) /\ run[c].since = left =>
           Granted(Resource)' = Desired]_vars
  BY <1>1
<1> QED BY <1>2, InvAlways, PTL DEF Spec, SuccessIsExact

LEMMA CallersApproach ==
  ASSUME Inv, Next, ~Users
  PROVE  /\ Granted(Resource)' \ Desired \subseteq Granted(Resource)
         /\ Granted(Resource) \cap Desired \subseteq Granted(Resource)'
<1>1. PICK c \in Callers : \E r : GoesOn(c, r)
  BY StepGoesOn DEF Next
<1>2. Towards(Gives(Resource), Gives(Resource)') /\ IamTypeOK /\ IamTypeOK'
  BY <1>1 DEF GoesOn, Inv, Stores
<1>3. /\ Granted(Resource) =
           {i \in Identities : \E p \in PolicyIDs : <<i, p>> \in Gives(Resource)}
      /\ Granted(Resource)' =
           {i \in Identities : \E p \in PolicyIDs : <<i, p>> \in Gives(Resource)'}
  BY <1>2, GrantedGives
<1>4. \A i \in Identities, p \in PolicyIDs :
        IF i \in Desired THEN <<i, p>> \in Gives(Resource) => <<i, p>> \in Gives(Resource)'
                         ELSE <<i, p>> \in Gives(Resource)' => <<i, p>> \in Gives(Resource)
  BY <1>2 DEF Towards
<1> QED BY <1>3, <1>4

\* A call made from an outdated snapshot may be useless or fail, but it never does harm:
\* no caller, however late, takes access from an identity that shall have it or gives it
\* to one that shall not.  So once access is exactly what is desired, it stays so until
\* a user acts, whatever callers still have under way.
THEOREM LateCallsDoNoHarm ==
  Spec =>
    /\ [][\A c \in Callers : CallerSteps(c) =>
            /\ Granted(Resource)' \ Desired \subseteq Granted(Resource)
            /\ Granted(Resource) \cap Desired \subseteq Granted(Resource)']_vars
    /\ [](Granted(Resource) = Desired /\ [][~Users]_vars => [](Granted(Resource) = Desired))
<1>1. Inv /\ [Next]_vars =>
        [\A c \in Callers : CallerSteps(c) =>
            /\ Granted(Resource)' \ Desired \subseteq Granted(Resource)
            /\ Granted(Resource) \cap Desired \subseteq Granted(Resource)']_vars
  <2> SUFFICES ASSUME Inv, Next, NEW c \in Callers, CallerSteps(c)
               PROVE  /\ Granted(Resource)' \ Desired \subseteq Granted(Resource)
                      /\ Granted(Resource) \cap Desired \subseteq Granted(Resource)'
    OBVIOUS
  <2>1. ~Users
    BY DEF CallerSteps, Users, UserCreatesIdentity, UserGrants, UserAttaches,
           UserDetaches, Disturb
  <2> QED BY <2>1, CallersApproach
<1>2. Inv /\ Granted(Resource) = Desired /\ [Next]_vars /\ [~Users]_vars =>
        (Granted(Resource) = Desired)'
  <2> SUFFICES ASSUME Inv, Granted(Resource) = Desired, [Next]_vars, [~Users]_vars
               PROVE  Granted(Resource)' = Desired
    OBVIOUS
  <2>1. CASE UNCHANGED vars
    BY <2>1 DEF vars, Granted, Existing
  <2>2. CASE Next /\ ~Users
    BY <2>2, CallersApproach
  <2> QED BY <2>1, <2>2
<1> QED BY <1>1, <1>2, InvAlways, PTL DEF Spec
=============================================================================
