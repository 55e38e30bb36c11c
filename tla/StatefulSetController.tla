------------------------ MODULE StatefulSetController ------------------------
(***************************************************************************)
(* The simplified StatefulSet controller (controllers/statefulset): syncs  *)
(* of one StatefulSet that release pods with bad names, bring the pods of  *)
(* the desired ordinals up one by one with their claims and labels, then   *)
(* take down one condemned or one outdated pod; users, the garbage         *)
(* collector, the kubelet and claim protection act in between.             *)
(*                                                                         *)
(* Each call to the API is one step.  Resource versions are left out: the  *)
(* Update of a copy succeeds when the copy is still what is stored, which  *)
(* is what a version says (VersionIdentifiesContent of ApiServer).  A UID  *)
(* has to tell apart only the pods that bore one name.                     *)
(***************************************************************************)
EXTENDS Integers, FiniteSets

CONSTANTS
  Workers,          \* goroutines that run syncStatefulSet on the set's key
  MaxOrdinal,       \* bound: the ordinals modelled, more than any size needs
  StrayNames,       \* names of pods that are not <set>-<ordinal>
  ClaimTemplates,   \* names in spec.volumeClaimTemplates
  Templates,        \* values of spec.template and spec.serviceName
  CompleteTemplates,\* those to which API defaults, admission and scheduler add nothing
  Sizes,            \* values of spec.replicas
  SetUIDs,          \* identifiers for incarnations of the set
  PodUIDs,          \* identifiers for the pods of one name
  MaxDisturbances,  \* bound: steps taken by users and failures of requests
  NoOwner, Absent

Ordinals == 0..MaxOrdinal

ASSUME OrdinalAssumption == MaxOrdinal \in Nat /\ StrayNames \cap Ordinals = {}
ASSUME SizeAssumption == Sizes \subseteq Ordinals
ASSUME TemplateAssumption == CompleteTemplates \subseteq Templates
ASSUME FiniteAssumption == IsFiniteSet(ClaimTemplates) /\ IsFiniteSet(StrayNames)
ASSUME BoundAssumption == MaxDisturbances \in Nat

\* Pods by name; a member of the set is known by its ordinal (isMemberOf).
Names == Ordinals \cup StrayNames

StatefulSets ==
  [uid : SetUIDs, replicas : Sizes, template : Templates, deleting : BOOLEAN]

\* labelled: the labels name the pod and its ordinal.  A pod that is terminating
\* was retired by a sync or is stopping at somebody else's request.
Pods ==
  [uid : PodUIDs, owner : SetUIDs \cup {NoOwner}, template : Templates,
   labelled : BOOLEAN, phase : {"running", "retired", "stopping"}]

\* A claim that was removed is not there, as one that never was.
ClaimStates == {"none", "present", "terminating", "removed"}

\* A sync: its copy of the set, the pods it listed (less the released ones), the
\* ordinal it is at with the claims still to look up, the claim found missing, and
\* the pod it is about to delete.
Syncs ==
  [phase : {"idle", "list", "release", "desired", "claim", "delete"},
   copy : StatefulSets \cup {Absent}, listed : [Names -> Pods \cup {Absent}],
   ordinal : Ordinals, todo : SUBSET ClaimTemplates,
   claim : ClaimTemplates \cup {Absent}, victim : Ordinals \cup {Absent}]

ASSUME TokenAssumption ==
  /\ Absent \notin StatefulSets \cup Pods \cup ClaimTemplates \cup Ordinals
  /\ NoOwner \notin SetUIDs

VARIABLES
  sts,    \* the StatefulSet stored under the key, or Absent
  pods,   \* the pod stored under each name, or Absent
  claims, \* the state of the claim of each claim template and ordinal
  sync,   \* the sync each worker is running
  left    \* disturbances that may still happen

vars == <<sts, pods, claims, sync, left>>

\* A sync is only ever at an ordinal that its copy asks for.
TypeOK ==
  /\ sts \in StatefulSets \cup {Absent}
  /\ pods \in [Names -> Pods \cup {Absent}]
  /\ claims \in [ClaimTemplates \X Ordinals -> ClaimStates]
  /\ sync \in [Workers -> Syncs]
  /\ \A w \in Workers :
       sync[w].phase \in {"desired", "claim"} =>
         sync[w].copy # Absent /\ sync[w].ordinal < sync[w].copy.replicas
  /\ left \in 0..MaxDisturbances

NoPods == [n \in Names |-> Absent]

NoSync ==
  [phase |-> "idle", copy |-> Absent, listed |-> NoPods, ordinal |-> 0,
   todo |-> {}, claim |-> Absent, victim |-> Absent]

Init ==
  /\ sts = Absent
  /\ pods = NoPods
  /\ claims = [c \in ClaimTemplates \X Ordinals |-> "none"]
  /\ sync = [w \in Workers |-> NoSync]
  /\ left = MaxDisturbances

-----------------------------------------------------------------------------
(* Reading the store. *)

Stored == {n \in Names : pods[n] # Absent}

Owned(uid) == {n \in Stored : pods[n].owner = uid}

ClaimExists(c) == claims[c] \in {"present", "terminating"}

FreeSetUIDs ==
  SetUIDs \ ({pods[n].owner : n \in Stored}
               \cup {sync[w].copy.uid : w \in {v \in Workers : sync[v].copy # Absent}}
               \cup (IF sts = Absent THEN {} ELSE {sts.uid}))

FreePodUIDs(n) ==
  PodUIDs \ ({sync[w].listed[n].uid : w \in {v \in Workers : sync[v].listed[n] # Absent}}
               \cup (IF pods[n] = Absent THEN {} ELSE {pods[n].uid}))

\* A deleted pod terminates, or goes at once if it has not been scheduled; deleting
\* it again changes nothing.
RemovePod(n, phase) ==
  IF pods[n].phase = "running"
  THEN \E left_behind \in {[pods[n] EXCEPT !.phase = phase], Absent} :
         pods' = [pods EXCEPT ![n] = left_behind]
  ELSE pods' = pods

\* Another step of a user, or another refused request.
Disturb == left > 0 /\ left' = left - 1

-----------------------------------------------------------------------------
(* The decisions of a sync, on its copies. *)

\* Fault: one ordinal too many.
EndOrdinalFault(set) == set.replicas

EndOrdinal(set) == set.replicas - 1

\* Fault: fields that creation fills in are compared with the template.
PodSpecMatchesFault(set, pod) == FALSE

\* podSpecMatches: the stored spec equals the template the set has now.
PodSpecMatches(set, pod) ==
  pod.template = set.template /\ set.template \in CompleteTemplates

\* Fault: a condemned pod that is terminating already is passed over.
CondemnedFault(s) ==
  {o \in Ordinals : /\ o > EndOrdinal(s.copy)
                    /\ s.listed[o] # Absent
                    /\ s.listed[o].phase = "running"}

Condemned(s) == {o \in Ordinals : o > EndOrdinal(s.copy) /\ s.listed[o] # Absent}

Outdated(s) ==
  {o \in Ordinals : /\ o <= EndOrdinal(s.copy)
                    /\ s.listed[o] # Absent
                    /\ ~PodSpecMatches(s.copy, s.listed[o])}

Highest(S) == CHOOSE o \in S : \A p \in S : p <= o

\* reconcileCondemnedPod and reconcileOutdatedPod: at most one pod is to go, and
\* none while the one in question is still terminating.
TakeDown(s) ==
  LET candidates == IF Condemned(s) # {} THEN Condemned(s) ELSE Outdated(s)
      victim     == Highest(candidates)
  IN  IF candidates = {} \/ s.listed[victim].phase # "running" THEN NoSync
      ELSE [s EXCEPT !.phase = "delete", !.victim = victim, !.ordinal = 0]

\* Fault: only the claims of a missing pod are looked up.
DesiredFault(s, o) ==
  IF o > EndOrdinal(s.copy) THEN TakeDown(s)
  ELSE IF s.listed[o] # Absent /\ s.listed[o].phase # "running" THEN NoSync
  ELSE [s EXCEPT !.phase = "desired", !.ordinal = o,
                 !.todo = IF s.listed[o] = Absent THEN ClaimTemplates ELSE {}]

\* reconcileDesiredPods comes to an ordinal: a terminating pod ends the sync.
Desired(s, o) ==
  IF o > EndOrdinal(s.copy) THEN TakeDown(s)
  ELSE IF s.listed[o] # Absent /\ s.listed[o].phase # "running" THEN NoSync
  ELSE [s EXCEPT !.phase = "desired", !.ordinal = o, !.todo = ClaimTemplates]

Strays(s) == {n \in StrayNames : s.listed[n] # Absent}

\* releasePodsWithBadNames goes on, or has nothing left to release.
ReleaseStrays(s) ==
  IF Strays(s) # {} THEN [s EXCEPT !.phase = "release"] ELSE Desired(s, 0)

-----------------------------------------------------------------------------
(* A sync, call by call. *)

Worker(w, phase) == sync[w].phase = phase

Finish(w) == sync' = [sync EXCEPT ![w] = NoSync]

GoOn(w, s) == sync' = [sync EXCEPT ![w] = s]

\* A request of the sync is refused; that ends it.
Refused(w) == Disturb /\ Finish(w) /\ UNCHANGED <<pods, claims>>

\* syncStatefulSet reads the set; one that does not exist needs no sync.
ReadSet(w) ==
  /\ Worker(w, "idle")
  /\ sts # Absent
  /\ GoOn(w, [NoSync EXCEPT !.phase = "list", !.copy = sts])
  /\ UNCHANGED <<sts, pods, claims, left>>

\* FilterPodsByOwner.  Nothing is done for a set that is being deleted.
ListPods(w) ==
  /\ Worker(w, "list")
  /\ LET s == [sync[w] EXCEPT !.listed =
                 [n \in Names |-> IF n \in Owned(sync[w].copy.uid) THEN pods[n] ELSE Absent]]
     IN  GoOn(w, IF s.copy.deleting THEN NoSync ELSE ReleaseStrays(s))
  /\ UNCHANGED <<sts, pods, claims, left>>

\* Fault: only another UID is a conflict, as for a client that retries.
UpdateConflictFault(w, n) == pods[n].uid # sync[w].listed[n].uid

\* The stored pod is no longer the version that was listed.
UpdateConflict(w, n) == pods[n] # sync[w].listed[n]

\* releasePod: the listed copy, without its owner; a pod that is gone is no error.
ReleasePod(w) ==
  /\ Worker(w, "release")
  /\ \E n \in Strays(sync[w]) :
       LET rest == ReleaseStrays([sync[w] EXCEPT !.listed[n] = Absent])
       IN  \/ /\ pods[n] = Absent
              /\ GoOn(w, rest)
              /\ UNCHANGED <<pods, claims, left>>
           \/ /\ pods[n] # Absent
              /\ ~UpdateConflict(w, n)
              /\ pods' = [pods EXCEPT ![n] = [sync[w].listed[n] EXCEPT !.owner = NoOwner,
                                                                       !.phase = pods[n].phase]]
              /\ GoOn(w, rest)
              /\ UNCHANGED <<claims, left>>
           \/ /\ pods[n] # Absent
              /\ UpdateConflict(w, n)
              /\ Finish(w)
              /\ UNCHANGED <<pods, claims, left>>
           \/ Refused(w)
  /\ UNCHANGED sts

\* createPersistentVolumeClaim looks the claim up; the templates are in a map.
GetClaim(w) ==
  /\ Worker(w, "desired")
  /\ \E t \in sync[w].todo :
       GoOn(w, IF ClaimExists(<<t, sync[w].ordinal>>)
               THEN [sync[w] EXCEPT !.todo = @ \ {t}]
               ELSE [sync[w] EXCEPT !.phase = "claim", !.claim = t])
  /\ UNCHANGED <<sts, pods, claims, left>>

ClaimDone(s) == [s EXCEPT !.phase = "desired", !.todo = @ \ {s.claim}, !.claim = Absent]

\* Fault: a refused create is passed over.
CreateClaimFault(w) ==
  /\ Worker(w, "claim")
  /\ LET c == <<sync[w].claim, sync[w].ordinal>>
     IN  \/ /\ claims' = [claims EXCEPT ![c] = IF ClaimExists(c) THEN @ ELSE "present"]
            /\ UNCHANGED left
         \/ Disturb /\ UNCHANGED claims
  /\ GoOn(w, ClaimDone(sync[w]))
  /\ UNCHANGED <<sts, pods>>

\* The create; AlreadyExists is as good.
CreateClaim(w) ==
  /\ Worker(w, "claim")
  /\ \/ /\ LET c == <<sync[w].claim, sync[w].ordinal>>
           IN  claims' = [claims EXCEPT ![c] = IF ClaimExists(c) THEN @ ELSE "present"]
        /\ GoOn(w, ClaimDone(sync[w]))
        /\ UNCHANGED <<pods, left>>
     \/ Refused(w)
  /\ UNCHANGED sts

\* All claims of the ordinal are there.
ClaimsDone(w) == Worker(w, "desired") /\ sync[w].todo = {}

\* newStatefulSetPod.
NewPod(set, o) ==
  [uid |-> CHOOSE uid \in FreePodUIDs(o) : TRUE, owner |-> set.uid,
   template |-> set.template, labelled |-> TRUE, phase |-> "running"]

\* createStatefulPod, for an ordinal without a pod.  AlreadyExists is no error, and
\* the sync ends in any case.
CreatePod(w) ==
  /\ ClaimsDone(w)
  /\ LET o == sync[w].ordinal
     IN  /\ sync[w].listed[o] = Absent
         /\ \/ /\ pods[o] # Absent
               /\ UNCHANGED <<pods, left>>
            \/ /\ pods[o] = Absent
               /\ FreePodUIDs(o) # {}
               /\ pods' = [pods EXCEPT ![o] = NewPod(sync[w].copy, o)]
               /\ UNCHANGED left
            \/ Disturb /\ UNCHANGED pods
  /\ Finish(w)
  /\ UNCHANGED <<sts, claims>>

\* updateStatefulPod: nothing to do if the labels are right, else the listed copy
\* with the right ones.  Any error ends the sync.
UpdatePod(w) ==
  /\ ClaimsDone(w)
  /\ LET s == sync[w]
         o == s.ordinal
     IN  /\ s.listed[o] # Absent
         /\ \/ /\ s.listed[o].labelled
               /\ GoOn(w, Desired(s, o + 1))
               /\ UNCHANGED <<pods, claims, left>>
            \/ /\ ~s.listed[o].labelled
               /\ pods[o] # Absent
               /\ ~UpdateConflict(w, o)
               /\ pods' = [pods EXCEPT ![o] = [s.listed[o] EXCEPT !.labelled = TRUE,
                                                                  !.phase = pods[o].phase]]
               /\ GoOn(w, Desired(s, o + 1))
               /\ UNCHANGED <<claims, left>>
            \/ /\ ~s.listed[o].labelled
               /\ pods[o] = Absent \/ UpdateConflict(w, o)
               /\ Finish(w)
               /\ UNCHANGED <<pods, claims, left>>
            \/ ~s.listed[o].labelled /\ Refused(w)
  /\ UNCHANGED sts

\* deletePod: by name, without the UID; a pod that is gone is no error.
DeletePod(w) ==
  /\ Worker(w, "delete")
  /\ \/ /\ IF pods[sync[w].victim] = Absent
           THEN UNCHANGED pods
           ELSE RemovePod(sync[w].victim, "retired")
        /\ Finish(w)
        /\ UNCHANGED <<claims, left>>
     \/ Refused(w)
  /\ UNCHANGED sts

Step(w) ==
  \/ ListPods(w) \/ ReleasePod(w) \/ GetClaim(w) \/ CreateClaim(w)
  \/ CreatePod(w) \/ UpdatePod(w) \/ DeletePod(w)

-----------------------------------------------------------------------------
(* Users.  They never create a pod under a member's name. *)

CreateSet ==
  /\ Disturb
  /\ sts = Absent
  /\ FreeSetUIDs # {}
  /\ \E n \in Sizes, t \in Templates :
       sts' = [uid |-> CHOOSE uid \in FreeSetUIDs : TRUE, replicas |-> n, template |-> t,
               deleting |-> FALSE]
  /\ UNCHANGED <<pods, claims, sync>>

\* Another size or another template.
UpdateSet ==
  /\ Disturb
  /\ sts # Absent
  /\ \E n \in Sizes, t \in Templates :
       sts' = [sts EXCEPT !.replicas = n, !.template = t]
  /\ sts' # sts
  /\ UNCHANGED <<pods, claims, sync>>

\* With the Background or the Foreground policy.
DeleteSet ==
  /\ Disturb
  /\ sts # Absent
  /\ ~sts.deleting
  /\ sts' \in {Absent, [sts EXCEPT !.deleting = TRUE]}
  /\ UNCHANGED <<pods, claims, sync>>

\* A pod that names the set as its owner and is no member.
CreateStray ==
  /\ Disturb
  /\ sts # Absent
  /\ \E n \in StrayNames \ Stored, t \in Templates :
       /\ FreePodUIDs(n) # {}
       /\ pods' = [pods EXCEPT ![n] = [NewPod(sts, n) EXCEPT !.labelled = FALSE, !.template = t]]
  /\ UNCHANGED <<sts, claims, sync>>

EditLabels ==
  /\ Disturb
  /\ \E n \in Stored : pods' = [pods EXCEPT ![n].labelled = ~@]
  /\ UNCHANGED <<sts, claims, sync>>

DeleteAnyPod ==
  /\ Disturb
  /\ \E n \in Stored : pods[n].phase = "running" /\ RemovePod(n, "stopping")
  /\ UNCHANGED <<sts, claims, sync>>

\* Claims have the protection finalizer from their creation.
DeleteClaim ==
  /\ Disturb
  /\ \E c \in DOMAIN claims :
       claims[c] = "present" /\ claims' = [claims EXCEPT ![c] = "terminating"]
  /\ UNCHANGED <<sts, pods, sync>>

Users ==
  \/ CreateSet \/ UpdateSet \/ DeleteSet \/ CreateStray \/ EditLabels
  \/ DeleteAnyPod \/ DeleteClaim

-----------------------------------------------------------------------------
(* The other parts of the cluster. *)

\* The garbage collector deletes pods whose owner is gone or, under the Foreground
\* policy, on its way out.
CollectPod(n) ==
  /\ pods[n] # Absent
  /\ pods[n].owner # NoOwner
  /\ sts # Absent => sts.uid # pods[n].owner \/ sts.deleting
  /\ pods[n].phase = "running"
  /\ RemovePod(n, "stopping")
  /\ UNCHANGED <<sts, claims, sync, left>>

FinishForegroundDeletion ==
  /\ sts # Absent
  /\ sts.deleting
  /\ Owned(sts.uid) = {}
  /\ sts' = Absent
  /\ UNCHANGED <<pods, claims, sync, left>>

PodStops(n) ==
  /\ pods[n] # Absent
  /\ pods[n].phase # "running"
  /\ pods' = [pods EXCEPT ![n] = Absent]
  /\ UNCHANGED <<sts, claims, sync, left>>

\* Claim protection lets a claim go when no pod uses it.
ClaimGoes(c) ==
  /\ claims[c] = "terminating"
  /\ pods[c[2]] = Absent
  /\ claims' = [claims EXCEPT ![c] = "removed"]
  /\ UNCHANGED <<sts, pods, sync, left>>

Cluster ==
  \/ \E n \in Names : CollectPod(n) \/ PodStops(n)
  \/ \E c \in ClaimTemplates \X Ordinals : ClaimGoes(c)
  \/ FinishForegroundDeletion

Next ==
  \/ \E w \in Workers : ReadSet(w) \/ Step(w)
  \/ Users
  \/ Cluster

Spec == Init /\ [][Next]_vars

\* The set is synced again and again, a sync that runs goes on, and the cluster's
\* other parts do their work.
FairSpec ==
  /\ Spec
  /\ \A w \in Workers : WF_vars(ReadSet(w)) /\ WF_vars(Step(w))
  /\ \A n \in Names : WF_vars(CollectPod(n)) /\ WF_vars(PodStops(n))
  /\ \A c \in ClaimTemplates \X Ordinals : WF_vars(ClaimGoes(c))
  /\ WF_vars(FinishForegroundDeletion)

-----------------------------------------------------------------------------
(* Properties. *)

\* However claims fail to be created, get deleted or outlive their pods, a pod of
\* the set never exists at an ordinal some claim of which was never created: a
\* failure among the claims keeps the sync from going on to the pod.
ClaimsBeforePods ==
  \A o \in Ordinals : pods[o] # Absent =>
    \A t \in ClaimTemplates : claims[<<t, o>>] # "none"

\* With one sync at a time, however the set is scaled, given another template and
\* scaled back, its syncs have at most two of its pods terminating: one that is
\* being replaced and, when a smaller size came in meanwhile, a condemned one above.
AtMostTwoDown ==
  sts # Absent /\ ~sts.deleting =>
    Cardinality({o \in Owned(sts.uid) : pods[o].phase = "retired"}) <= 2

Living(n) == pods[n] # Absent /\ pods[n].owner = sts.uid /\ pods[n].phase = "running"

Wanted == {o \in Ordinals : o < sts.replicas}

\* How far the cluster is from what the set asks for: the ranking of the Rocq
\* development (match_distance), with the labels.
Distance ==
  LET present == {o \in Wanted : Living(o)}
  IN  Cardinality(Wanted \ present)
        + 2 * Cardinality({o \in present : ~PodSpecMatches(sts, pods[o])})
        + Cardinality({o \in present : ~pods[o].labelled})
        + Cardinality({o \in Ordinals \ Wanted : Living(o)})
        + Cardinality({n \in StrayNames : n \in Owned(sts.uid)})
        + Cardinality({c \in ClaimTemplates \X Wanted : ~ClaimExists(c)})

\* As long as the set is what the sync read, every write of the sync brings the
\* cluster closer to it, whatever others did to pods and claims since the sync's
\* reads: deleting by name never hits a pod that matches, and no write is repeated.
WritesMakeProgress ==
  [][\A w \in Workers :
       /\ sync'[w] # sync[w]
       /\ pods' # pods \/ claims' # claims
       /\ sts # Absent
       /\ sts = sync[w].copy
       /\ sts.template \in CompleteTemplates
       => Distance' < Distance]_vars

\* Releasing and relabelling send a copy of the whole pod; they change the owner or
\* the labels and revert nothing that others wrote since the list.
UpdateSparesTheRest ==
  [][\A w \in Workers, n \in Names :
       /\ sync'[w] # sync[w]
       /\ pods'[n] # pods[n]
       => /\ Worker(w, "release") => pods'[n] = [pods[n] EXCEPT !.owner = NoOwner]
          /\ pods[n] # Absent /\ Worker(w, "desired") =>
               pods'[n] = [pods[n] EXCEPT !.labelled = TRUE]]_vars

\* Once users and failures stop, the cluster comes to match the set and stays so:
\* no pod is taken for outdated again.
Converges ==
  <>[](\/ sts = Absent \/ sts.deleting
       \/ sts.template \notin CompleteTemplates
       \/ Distance = 0)
=============================================================================
