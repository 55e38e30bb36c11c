------------------------- MODULE DeploymentController -------------------------
(***************************************************************************)
(* The simplified Deployment controller (controllers/deployment): syncs of *)
(* one Deployment that find or create the ReplicaSet of its template,      *)
(* scale it up and scale every other one down, while users edit and        *)
(* replace the Deployment, scale and delete sets, the ReplicaSet           *)
(* controllers move the pods, and the garbage collector cleans up.         *)
(*                                                                         *)
(* A ReplicaSet's name is the hash of its template; the code assumes that  *)
(* hashes do not collide, so a template stands for the name too.  Each     *)
(* call to the API is one step.  Resource versions are left out: an Update *)
(* succeeds when its copy is what is stored, so a set that was changed and *)
(* changed back counts as unchanged.                                       *)
(***************************************************************************)
EXTENDS Integers, FiniteSets

CONSTANTS
  Workers,          \* goroutines that run syncDeployment on the key
  Templates,        \* values of spec.template
  Sizes,            \* values of spec.replicas
  DeploymentUIDs,   \* identifiers for incarnations of the Deployment
  MaxDisturbances,  \* bound: steps taken by users and failures of requests
  NoOwner, Absent

ASSUME SizeAssumption == Sizes \subseteq Nat
ASSUME BoundAssumption == MaxDisturbances \in Nat

Policies == {"Foreground", "Orphan"}

\* deleting: the finalizer the Deployment waits for, once it has been deleted.
Deployments ==
  [uid : DeploymentUIDs, replicas : Sizes, template : Templates,
   deleting : Policies \cup {"no"}]

\* A ReplicaSet: how many replicas it asks for and who last said so, and how many
\* its status shows.
ReplicaSets ==
  [owner : DeploymentUIDs \cup {NoOwner}, replicas : Nat, by : {"sync", "user"}, status : Nat]

\* A sync: its copy of the Deployment, the ReplicaSets it listed, the copy of the
\* one it takes for the new one, and the old ones it has to scale down.
Syncs ==
  [phase : {"idle", "list", "create", "get", "new", "old"},
   copy : Deployments \cup {Absent}, listed : [Templates -> ReplicaSets \cup {Absent}],
   new : ReplicaSets \cup {Absent}, todo : SUBSET Templates]

ASSUME TokenAssumption ==
  Absent \notin Deployments \cup ReplicaSets /\ NoOwner \notin DeploymentUIDs

VARIABLES
  dep,    \* the Deployment stored under the key, or Absent
  sets,   \* the ReplicaSet of each template, or Absent
  sync,   \* the sync each worker is running
  left    \* disturbances that may still happen

vars == <<dep, sets, sync, left>>

\* A sync lists nothing but ReplicaSets of the Deployment it read.
TypeOK ==
  /\ dep \in Deployments \cup {Absent}
  /\ sets \in [Templates -> ReplicaSets \cup {Absent}]
  /\ sync \in [Workers -> Syncs]
  /\ \A w \in Workers, t \in Templates :
       sync[w].listed[t] # Absent => /\ sync[w].copy # Absent
                                     /\ sync[w].listed[t].owner = sync[w].copy.uid
  /\ left \in 0..MaxDisturbances

NoSets == [t \in Templates |-> Absent]

NoSync == [phase |-> "idle", copy |-> Absent, listed |-> NoSets, new |-> Absent, todo |-> {}]

Init ==
  /\ dep = Absent
  /\ sets = NoSets
  /\ sync = [w \in Workers |-> NoSync]
  /\ left = MaxDisturbances

-----------------------------------------------------------------------------
(* Reading the store, and the decisions of a sync on its copies. *)

Stored == {t \in Templates : sets[t] # Absent}

Owned(uid) == {t \in Stored : sets[t].owner = uid}

FreeUIDs ==
  DeploymentUIDs \ ({sets[t].owner : t \in Stored}
                      \cup {sync[w].copy.uid : w \in {v \in Workers : sync[v].copy # Absent}}
                      \cup (IF dep = Absent THEN {} ELSE {dep.uid}))

\* Another step of a user, or another refused request.
Disturb == left > 0 /\ left' = left - 1

\* Fault: the sets of other owners are taken along.
ListedFault(uid) == sets

\* filterReplicaSetsByOwner.
Listed(uid) == [t \in Templates |-> IF t \in Owned(uid) THEN sets[t] ELSE Absent]

\* Fault: a set that is to stay as large as the Deployment is passed over.
OldSetsFault(s) ==
  {t \in Templates \ {s.copy.template} :
     s.listed[t] # Absent /\ s.listed[t].replicas \notin {0, s.copy.replicas}}

\* findOldReplicaSets, less those that scaleReplicaSet has nothing to do for.
OldSets(s) ==
  {t \in Templates \ {s.copy.template} : s.listed[t] # Absent /\ s.listed[t].replicas # 0}

\* reconcileOldReplicaSets.
ScaleDown(s) ==
  IF OldSets(s) = {} THEN NoSync
  ELSE [s EXCEPT !.phase = "old", !.new = Absent, !.todo = OldSets(s)]

\* Fault: the old sets come first.
ReconcileNewFault(s, rs) ==
  IF OldSets(s) = {} THEN [s EXCEPT !.phase = "new", !.new = rs] ELSE ScaleDown(s)

\* reconcileNewReplicaSet, once getNewReplicaSet has returned a set.
ReconcileNew(s, rs) ==
  IF rs.replicas = s.copy.replicas THEN ScaleDown(s)
  ELSE [s EXCEPT !.phase = "new", !.new = rs]

\* findNewReplicaSet: the template tells.
FindNew(s) == s.listed[s.copy.template]

\* rollout, up to its next request.
Rollout(s) ==
  IF FindNew(s) # Absent THEN ReconcileNew(s, FindNew(s)) ELSE [s EXCEPT !.phase = "create"]

-----------------------------------------------------------------------------
(* A sync, call by call. *)

Worker(w, phase) == sync[w].phase = phase

GoOn(w, s) == sync' = [sync EXCEPT ![w] = s]

Finish(w) == GoOn(w, NoSync)

\* A request of the sync is refused; that ends it.
Refused(w) == Disturb /\ Finish(w) /\ UNCHANGED sets

\* syncDeployment reads the Deployment; one that does not exist needs no sync.
ReadDeployment(w) ==
  /\ Worker(w, "idle")
  /\ dep # Absent
  /\ GoOn(w, [NoSync EXCEPT !.phase = "list", !.copy = dep])
  /\ UNCHANGED <<dep, sets, left>>

\* The list.  Nothing is done for a Deployment that is being deleted.
ListSets(w) ==
  /\ Worker(w, "list")
  /\ LET s == [sync[w] EXCEPT !.listed = Listed(sync[w].copy.uid)]
     IN  GoOn(w, IF s.copy.deleting # "no" THEN NoSync ELSE Rollout(s))
  /\ UNCHANGED <<dep, sets, left>>

NewReplicaSet(d) == [owner |-> d.uid, replicas |-> d.replicas, by |-> "sync", status |-> 0]

\* getNewReplicaSet creates the set; when the name is taken, it gets what has it.
CreateSet(w) ==
  /\ Worker(w, "create")
  /\ LET d  == sync[w].copy
         rs == NewReplicaSet(d)
     IN  \/ /\ sets[d.template] = Absent
            /\ sets' = [sets EXCEPT ![d.template] = rs]
            /\ GoOn(w, ReconcileNew(sync[w], rs))
            /\ UNCHANGED left
         \/ /\ sets[d.template] # Absent
            /\ GoOn(w, [sync[w] EXCEPT !.phase = "get"])
            /\ UNCHANGED <<sets, left>>
         \/ Refused(w)
  /\ UNCHANGED dep

\* The set that has the name, whoever owns it.
GetSet(w) ==
  /\ Worker(w, "get")
  /\ LET rs == sets[sync[w].copy.template]
     IN  GoOn(w, IF rs = Absent THEN NoSync ELSE ReconcileNew(sync[w], rs))
  /\ UNCHANGED <<dep, sets, left>>

\* Fault: no version is a conflict, as for a client that retries.
UpdateConflictFault(t, copy) == FALSE

\* The stored set is no longer the version that was read.
UpdateConflict(t, copy) == sets[t] # copy

\* scaleReplicaSet sends the copy with another size.  A set that is gone is an
\* error too, and any error ends the sync; next is what follows the write.
Scale(w, t, copy, size, next) ==
  \/ /\ sets[t] # Absent
     /\ ~UpdateConflict(t, copy)
     /\ sets' = [sets EXCEPT ![t] = [copy EXCEPT !.replicas = size, !.by = "sync"]]
     /\ GoOn(w, next)
     /\ UNCHANGED left
  \/ /\ sets[t] = Absent \/ UpdateConflict(t, copy)
     /\ Finish(w)
     /\ UNCHANGED <<sets, left>>
  \/ Refused(w)

ScaleNewSet(w) ==
  /\ Worker(w, "new")
  /\ LET d == sync[w].copy
     IN  Scale(w, d.template, sync[w].new, d.replicas, ScaleDown(sync[w]))
  /\ UNCHANGED dep

ScaleOldSet(w) ==
  /\ Worker(w, "old")
  /\ \E t \in sync[w].todo :
       LET rest == sync[w].todo \ {t}
       IN  Scale(w, t, sync[w].listed[t], 0,
                 IF rest = {} THEN NoSync ELSE [sync[w] EXCEPT !.todo = rest])
  /\ UNCHANGED dep

Step(w) == ListSets(w) \/ CreateSet(w) \/ GetSet(w) \/ ScaleNewSet(w) \/ ScaleOldSet(w)

-----------------------------------------------------------------------------
(* Users. *)

CreateDeployment ==
  /\ Disturb
  /\ dep = Absent
  /\ FreeUIDs # {}
  /\ \E n \in Sizes, t \in Templates :
       dep' = [uid |-> CHOOSE uid \in FreeUIDs : TRUE, replicas |-> n, template |-> t,
               deleting |-> "no"]
  /\ UNCHANGED <<sets, sync>>

\* Another size or another template.
UpdateDeployment ==
  /\ Disturb
  /\ dep # Absent
  /\ \E n \in Sizes, t \in Templates : dep' = [dep EXCEPT !.replicas = n, !.template = t]
  /\ dep' # dep
  /\ UNCHANGED <<sets, sync>>

\* In the background, or with a policy that leaves a finalizer.
DeleteDeployment ==
  /\ Disturb
  /\ dep # Absent
  /\ dep.deleting = "no"
  /\ \/ dep' = Absent
     \/ \E policy \in Policies : dep' = [dep EXCEPT !.deleting = policy]
  /\ UNCHANGED <<sets, sync>>

UserScalesSet ==
  /\ Disturb
  /\ \E t \in Stored, n \in Sizes \cup {0} :
       /\ n # sets[t].replicas
       /\ sets' = [sets EXCEPT ![t].replicas = n, ![t].by = "user"]
  /\ UNCHANGED <<dep, sync>>

UserDeletesSet ==
  /\ Disturb
  /\ \E t \in Stored : sets' = [sets EXCEPT ![t] = Absent]
  /\ UNCHANGED <<dep, sync>>

Users ==
  CreateDeployment \/ UpdateDeployment \/ DeleteDeployment \/ UserScalesSet \/ UserDeletesSet

-----------------------------------------------------------------------------
(* The ReplicaSet controllers and the garbage collector. *)

\* A pod more or less, and a status that shows it.
MovePods(t) ==
  /\ sets[t] # Absent
  /\ sets[t].status # sets[t].replicas
  /\ sets' = [sets EXCEPT ![t].status = IF @ < sets[t].replicas THEN @ + 1 ELSE @ - 1]
  /\ UNCHANGED <<dep, sync, left>>

\* A set whose owner is gone goes; one whose owner is on its way out goes, or stays
\* without an owner.
CollectSet(t) ==
  /\ sets[t] # Absent
  /\ sets[t].owner # NoOwner
  /\ dep # Absent => dep.uid # sets[t].owner \/ dep.deleting = "Foreground"
  /\ sets' = [sets EXCEPT ![t] = Absent]
  /\ UNCHANGED <<dep, sync, left>>

OrphanSet(t) ==
  /\ dep # Absent
  /\ dep.deleting = "Orphan"
  /\ t \in Owned(dep.uid)
  /\ sets' = [sets EXCEPT ![t].owner = NoOwner]
  /\ UNCHANGED <<dep, sync, left>>

FinishDeletion ==
  /\ dep # Absent
  /\ dep.deleting # "no"
  /\ Owned(dep.uid) = {}
  /\ dep' = Absent
  /\ UNCHANGED <<sets, sync, left>>

Cluster ==
  \/ \E t \in Templates : MovePods(t) \/ CollectSet(t) \/ OrphanSet(t)
  \/ FinishDeletion

Next ==
  \/ \E w \in Workers : ReadDeployment(w) \/ Step(w)
  \/ Users
  \/ Cluster

Spec == Init /\ [][Next]_vars

\* The Deployment is synced again and again, a sync that runs goes on, and the other
\* controllers do their work.
FairSpec ==
  /\ Spec
  /\ \A w \in Workers : WF_vars(ReadDeployment(w)) /\ WF_vars(Step(w))
  /\ \A t \in Templates :
       WF_vars(MovePods(t)) /\ WF_vars(CollectSet(t)) /\ WF_vars(OrphanSet(t))
  /\ WF_vars(FinishDeletion)

-----------------------------------------------------------------------------
(* Properties. *)

\* With one sync at a time, a sync that takes capacity from the old sets has the new
\* one ask for all of it, unless somebody else changed the new set's size since.
CapacityKept ==
  \A w \in Workers : Worker(w, "old") =>
    LET rs == sets[sync[w].copy.template]
    IN  rs # Absent /\ rs.by = "sync" => rs.replicas = sync[w].copy.replicas

\* A set that the garbage collector released under the Orphan policy is not given its
\* dead owner back by a sync that listed it before: the next collection would take
\* the pods that were to be kept.
OrphansStay ==
  [][\A t \in Templates :
       sets[t] # Absent /\ sets[t].owner = NoOwner =>
         sets'[t] = Absent \/ sets'[t].owner = NoOwner]_vars

\* getNewReplicaSet "returns the deployment's new ReplicaSet": what a sync scales is
\* controlled by the Deployment it read.
OnlyOwnSetsScaled ==
  [][\A w \in Workers, t \in Templates :
       /\ sync'[w] # sync[w]
       /\ sets'[t] # sets[t]
       /\ sets[t] # Absent
       => sets[t].owner = sync[w].copy.uid]_vars

RolledOut ==
  /\ sets[dep.template] # Absent
  /\ sets[dep.template].replicas = dep.replicas
  /\ sets[dep.template].status = dep.replicas
  /\ \A t \in Owned(dep.uid) \ {dep.template} : sets[t].replicas = 0 /\ sets[t].status = 0

\* Once users and failures stop, the rollout completes and stays complete, although
\* every status that the ReplicaSet controllers write makes the sync's copies stale.
RolloutCompletes == <>[](dep = Absent \/ dep.deleting # "no" \/ RolledOut)
=============================================================================
