--------------------------- MODULE DeploymentProofs ---------------------------
(***************************************************************************)
(* Proofs about DeploymentController, for any number of syncs (one, where  *)
(* said), templates and sizes.                                             *)
(*                                                                         *)
(* A step either leaves the syncs alone and treats the sets gently         *)
(* (Gentle), or takes one sync further (GoesOn); the invariants are proved *)
(* from this description.  That a completed rollout lasts needs one more:  *)
(* a sync only plans writes that change the size it read (Plans).          *)
(***************************************************************************)
EXTENDS DeploymentController, TLAPS

\* What holds of a sync by itself.
SyncOK(s) ==
  /\ s \in Syncs
  /\ s.phase # "idle" => s.copy # Absent
  /\ \A t \in Templates : s.listed[t] # Absent =>
       s.copy # Absent /\ s.listed[t].owner = s.copy.uid
  /\ s.phase = "new" => s.new # Absent
  /\ s.phase = "old" => s.copy.template \notin s.todo /\ \A t \in s.todo : s.listed[t] # Absent

\* CapacityKept of one sync, with these sets stored.
Capacity(s, stored) ==
  s.phase = "old" =>
    LET rs == stored[s.copy.template]
    IN  rs # Absent /\ rs.by = "sync" => rs.replicas = s.copy.replicas

SyncsOK ==
  /\ sync = [w \in Workers |-> sync[w]]
  /\ \A w \in Workers : SyncOK(sync[w])

StoreTypes ==
  /\ dep \in Deployments \cup {Absent}
  /\ sets \in [Templates -> ReplicaSets \cup {Absent}]
  /\ left \in 0..MaxDisturbances

Inv == StoreTypes /\ SyncsOK

\* A set goes, keeps what was asked of it, or is asked something else by a user.
Gentle ==
  \A t \in Templates :
    \/ sets'[t] = Absent
    \/ /\ sets[t] # Absent
       /\ \/ sets'[t].by = "user"
          \/ sets'[t].by = sets[t].by /\ sets'[t].replicas = sets[t].replicas

\* The sync of w goes on to t, and keeps the capacity if it did so before.
GoesOn(w, t) ==
  /\ sync' = [sync EXCEPT ![w] = t]
  /\ SyncOK(t)
  /\ Capacity(sync[w], sets) => Capacity(t, sets')

\* A set without an owner gets none.
NoAdoption ==
  \A t \in Templates :
    sets[t] # Absent /\ sets[t].owner = NoOwner =>
      sets'[t] = Absent \/ sets'[t].owner = NoOwner

Described ==
  /\ StoreTypes'
  /\ NoAdoption
  /\ (sync' = sync /\ Gentle) \/ \E w \in Workers, t \in Syncs : GoesOn(w, t)

-----------------------------------------------------------------------------
(* The decisions of a sync. *)

LEMMA NoSyncOK == SyncOK(NoSync) /\ NoSync.phase = "idle"
BY DEF NoSync, SyncOK, Syncs, NoSets

\* A sync turns to the old sets of its copy only, or ends.
LEMMA ScaleDownOK ==
  ASSUME NEW s, SyncOK(s), s.copy # Absent
  PROVE  /\ SyncOK(ScaleDown(s))
         /\ ScaleDown(s).phase \in {"idle", "old"}
         /\ ScaleDown(s).phase = "old" => ScaleDown(s).copy = s.copy
<1> DEFINE t == [s EXCEPT !.phase = "old", !.new = Absent, !.todo = OldSets(s)]
<1>1. CASE OldSets(s) = {}
  BY <1>1, NoSyncOK DEF ScaleDown
<1>2. CASE OldSets(s) # {}
  <2>1. ScaleDown(s) = t
    BY <1>2 DEF ScaleDown
  <2>2. OldSets(s) \in SUBSET Templates
    BY DEF OldSets
  <2>3. /\ t \in Syncs /\ t.phase = "old" /\ t.copy = s.copy /\ t.todo = OldSets(s)
        /\ t.listed = s.listed
    BY <2>2 DEF SyncOK, Syncs
  <2>4. s.copy.template \notin OldSets(s) /\ \A o \in OldSets(s) : s.listed[o] # Absent
    BY DEF OldSets
  <2> HIDE DEF t
  <2> QED BY <2>1, <2>3, <2>4 DEF SyncOK
<1> QED BY <1>1, <1>2

LEMMA ReconcileNewOK ==
  ASSUME NEW s, SyncOK(s), s.copy # Absent, NEW rs \in ReplicaSets
  PROVE  /\ SyncOK(ReconcileNew(s, rs))
         /\ ReconcileNew(s, rs).phase = "old" =>
              ReconcileNew(s, rs).copy = s.copy /\ rs.replicas = s.copy.replicas
<1> DEFINE t == [s EXCEPT !.phase = "new", !.new = rs]
<1>1. CASE rs.replicas = s.copy.replicas
  BY <1>1, ScaleDownOK DEF ReconcileNew
<1>2. CASE rs.replicas # s.copy.replicas
  <2>1. ReconcileNew(s, rs) = t
    BY <1>2 DEF ReconcileNew
  <2>2. /\ t \in Syncs /\ t.phase = "new" /\ t.copy = s.copy /\ t.new = rs
        /\ t.listed = s.listed
    BY DEF SyncOK, Syncs
  <2>3. rs # Absent
    BY TokenAssumption
  <2> HIDE DEF t
  <2> QED BY <2>1, <2>2, <2>3 DEF SyncOK
<1> QED BY <1>1, <1>2

LEMMA RolloutOK ==
  ASSUME NEW s, SyncOK(s), s.copy # Absent
  PROVE  /\ SyncOK(Rollout(s))
         /\ Rollout(s).phase = "old" =>
              /\ Rollout(s).copy = s.copy
              /\ s.listed[s.copy.template] # Absent
              /\ s.listed[s.copy.template].replicas = s.copy.replicas
<1> DEFINE t == [s EXCEPT !.phase = "create"]
<1>1. s.copy.template \in Templates
  BY DEF SyncOK, Syncs, Deployments
<1>2. CASE s.listed[s.copy.template] # Absent
  <2>1. s.listed[s.copy.template] \in ReplicaSets
    BY <1>1, <1>2 DEF SyncOK, Syncs
  <2> QED BY <1>2, <2>1, ReconcileNewOK DEF Rollout, FindNew
<1>3. CASE s.listed[s.copy.template] = Absent
  <2>1. Rollout(s) = t
    BY <1>3 DEF Rollout, FindNew
  <2>2. t \in Syncs /\ t.phase = "create" /\ t.copy = s.copy /\ t.listed = s.listed
    BY DEF SyncOK, Syncs
  <2> HIDE DEF t
  <2> QED BY <2>1, <2>2 DEF SyncOK
<1> QED BY <1>2, <1>3

-----------------------------------------------------------------------------
(* The steps of a sync. *)

LEMMA SameSets ==
  ASSUME Inv, sets' = sets
  PROVE  NoAdoption
BY DEF NoAdoption

\* A sync that goes on without a write, or ends.
LEMMA QuietStep ==
  ASSUME Inv, NEW w \in Workers, NEW t, GoOn(w, t), SyncOK(t), Capacity(t, sets),
         dep' = dep, sets' = sets, left' \in 0..MaxDisturbances
  PROVE  Described
<1>1. StoreTypes'
  BY DEF Inv, StoreTypes
<1>2. GoesOn(w, t) /\ t \in Syncs
  BY DEF GoOn, GoesOn, SyncOK
<1> QED BY <1>1, <1>2, SameSets DEF Described

LEMMA DisturbType ==
  ASSUME Inv
  PROVE  (Disturb => left' \in 0..MaxDisturbances) /\ (left' = left => left' \in 0..MaxDisturbances)
BY BoundAssumption DEF Inv, StoreTypes, Disturb

LEMMA RefusedStep ==
  ASSUME Inv, NEW w \in Workers, Finish(w), dep' = dep, sets' = sets,
         Disturb \/ left' = left
  PROVE  Described
<1>1. SyncOK(NoSync) /\ Capacity(NoSync, sets)
  BY NoSyncOK DEF Capacity
<1> QED BY <1>1, QuietStep, DisturbType DEF Finish

LEMMA ReadDeploymentStep ==
  ASSUME Inv, NEW w \in Workers, ReadDeployment(w)
  PROVE  Described
<1> DEFINE t == [NoSync EXCEPT !.phase = "list", !.copy = dep]
<1>1. dep \in Deployments /\ dep # Absent
  BY DEF ReadDeployment, Inv, StoreTypes
<1>2. /\ t \in Syncs /\ t.phase = "list" /\ t.copy = dep
      /\ \A x \in Templates : t.listed[x] = Absent
  BY <1>1 DEF NoSync, NoSets, Syncs
<1>3. GoOn(w, t) /\ dep' = dep /\ sets' = sets /\ left' = left
  BY DEF ReadDeployment
<1> HIDE DEF t
<1>4. SyncOK(t) /\ Capacity(t, sets)
  BY <1>1, <1>2 DEF SyncOK, Capacity
<1> QED BY <1>3, <1>4, QuietStep, DisturbType

LEMMA ListSetsStep ==
  ASSUME Inv, NEW w \in Workers, ListSets(w)
  PROVE  Described
<1> DEFINE listed == Listed(sync[w].copy.uid)
           s == [sync[w] EXCEPT !.listed = listed]
           t == IF s.copy.deleting # "no" THEN NoSync ELSE Rollout(s)
<1>1. SyncOK(sync[w]) /\ sync[w] \in Syncs /\ sync[w].copy # Absent /\ sync[w].phase = "list"
  BY DEF ListSets, Worker, Inv, SyncsOK, SyncOK
<1>2. /\ listed \in [Templates -> ReplicaSets \cup {Absent}]
      /\ \A x \in Templates : listed[x] # Absent =>
           listed[x] = sets[x] /\ listed[x].owner = sync[w].copy.uid
  BY DEF Listed, Owned, Inv, StoreTypes
<1>3. /\ s \in Syncs /\ s.copy = sync[w].copy /\ s.phase = "list" /\ s.listed = listed
  <2> HIDE DEF listed
  <2> QED BY <1>1, <1>2 DEF Syncs
<1>4. GoOn(w, t) /\ dep' = dep /\ sets' = sets /\ left' = left
  BY DEF ListSets
<1>5. SyncOK(s) /\ s.copy # Absent /\ s.copy.template \in Templates
  <2> HIDE DEF s, listed
  <2> QED BY <1>1, <1>2, <1>3 DEF SyncOK, Syncs, Deployments
<1>6. SyncOK(t) /\ Capacity(t, sets)
  <2> HIDE DEF s, listed
  <2>1. SyncOK(NoSync) /\ Capacity(NoSync, sets)
    BY NoSyncOK DEF Capacity
  <2>2. SyncOK(Rollout(s)) /\ Capacity(Rollout(s), sets)
    BY <1>2, <1>3, <1>5, RolloutOK DEF Capacity
  <2> QED BY <2>1, <2>2
<1> HIDE DEF t
<1> QED BY <1>4, <1>6, QuietStep, DisturbType

LEMMA CreateSetStep ==
  ASSUME Inv, NEW w \in Workers, CreateSet(w)
  PROVE  Described
<1> DEFINE d  == sync[w].copy
           rs == NewReplicaSet(d)
<1>1. SyncOK(sync[w]) /\ sync[w] \in Syncs /\ d # Absent /\ d \in Deployments /\ dep' = dep
  BY DEF CreateSet, Worker, Inv, SyncsOK, SyncOK, Syncs
<1>2. rs \in ReplicaSets /\ d.template \in Templates /\ rs.replicas = d.replicas
  BY <1>1, SizeAssumption DEF NewReplicaSet, ReplicaSets, Deployments
<1>3. CASE /\ sets[d.template] = Absent
           /\ sets' = [sets EXCEPT ![d.template] = rs]
           /\ GoOn(w, ReconcileNew(sync[w], rs))
           /\ left' = left
  <2> DEFINE t == ReconcileNew(sync[w], rs)
  <2> HIDE DEF rs
  <2>1. SyncOK(t) /\ (t.phase = "old" => t.copy = d /\ rs.replicas = d.replicas)
    BY <1>1, <1>2, ReconcileNewOK
  <2>2. StoreTypes' /\ sets'[d.template] = rs /\ NoAdoption
    BY <1>1, <1>2, <1>3 DEF Inv, StoreTypes, NoAdoption
  <2>3. Capacity(t, sets')
    BY <2>1, <2>2 DEF Capacity
  <2>4. GoesOn(w, t) /\ t \in Syncs
    BY <1>3, <2>1, <2>3 DEF GoOn, GoesOn, SyncOK
  <2> QED BY <2>2, <2>4 DEF Described
<1>4. CASE GoOn(w, [sync[w] EXCEPT !.phase = "get"]) /\ UNCHANGED <<sets, left>>
  <2> DEFINE t == [sync[w] EXCEPT !.phase = "get"]
  <2>1. t \in Syncs /\ t.phase = "get" /\ t.copy = d /\ t.listed = sync[w].listed
    BY <1>1 DEF Syncs
  <2>2. GoOn(w, t) /\ sets' = sets /\ left' = left
    BY <1>4
  <2> HIDE DEF t
  <2>3. SyncOK(t) /\ Capacity(t, sets)
    BY <1>1, <2>1 DEF SyncOK, Capacity
  <2> QED BY <1>1, <2>2, <2>3, QuietStep, DisturbType
<1>5. CASE Refused(w)
  BY <1>1, <1>5, RefusedStep DEF Refused
<1> QED BY <1>3, <1>4, <1>5 DEF CreateSet

LEMMA GetSetStep ==
  ASSUME Inv, NEW w \in Workers, GetSet(w)
  PROVE  Described
<1> DEFINE rs == sets[sync[w].copy.template]
<1>1. /\ SyncOK(sync[w]) /\ sync[w].copy # Absent /\ sync[w].copy.template \in Templates
      /\ dep' = dep /\ sets' = sets /\ left' = left
  BY DEF GetSet, Worker, Inv, SyncsOK, SyncOK, Syncs, Deployments
<1>2. CASE rs = Absent
  <2>1. Finish(w)
    BY <1>2 DEF GetSet, Finish
  <2> QED BY <1>1, <2>1, RefusedStep
<1>3. CASE rs # Absent
  <2> DEFINE t == ReconcileNew(sync[w], rs)
  <2>1. rs \in ReplicaSets
    BY <1>1, <1>3 DEF Inv, StoreTypes
  <2>2. SyncOK(t) /\ (t.phase = "old" => t.copy = sync[w].copy /\ rs.replicas = sync[w].copy.replicas)
    BY <1>1, <2>1, ReconcileNewOK
  <2>3. GoOn(w, t)
    BY <1>3 DEF GetSet
  <2>4. Capacity(t, sets)
    BY <2>2 DEF Capacity
  <2> QED BY <1>1, <2>2, <2>3, <2>4, QuietStep, DisturbType
<1> QED BY <1>2, <1>3

\* scaleReplicaSet overwrites the set with the copy that is stored, or ends the sync.
LEMMA ScaleStep ==
  ASSUME Inv, NEW w \in Workers, NEW t \in Templates, NEW copy \in ReplicaSets,
         NEW size \in Nat, NEW next, Scale(w, t, copy, size, next), dep' = dep,
         SyncOK(next),
         /\ Capacity(sync[w], sets)
         /\ sets' = [sets EXCEPT ![t] = [copy EXCEPT !.replicas = size, !.by = "sync"]]
         => Capacity(next, sets')
  PROVE  Described
<1> DEFINE rs == [copy EXCEPT !.replicas = size, !.by = "sync"]
<1>1. CASE /\ sets[t] # Absent /\ ~UpdateConflict(t, copy)
           /\ sets' = [sets EXCEPT ![t] = rs]
           /\ GoOn(w, next) /\ left' = left
  <2>1. rs \in ReplicaSets /\ rs.owner = copy.owner /\ copy = sets[t]
    BY <1>1 DEF ReplicaSets, UpdateConflict
  <2>2. StoreTypes' /\ NoAdoption
    <3> HIDE DEF rs
    <3> QED BY <1>1, <2>1 DEF Inv, StoreTypes, NoAdoption
  <2>3. GoesOn(w, next) /\ next \in Syncs
    BY <1>1 DEF GoOn, GoesOn, SyncOK
  <2> QED BY <2>2, <2>3 DEF Described
<1>2. CASE Finish(w) /\ UNCHANGED <<sets, left>>
  BY <1>2, RefusedStep
<1>3. CASE Refused(w)
  BY <1>3, RefusedStep DEF Refused
<1> QED BY <1>1, <1>2, <1>3 DEF Scale

LEMMA ScaleNewSetStep ==
  ASSUME Inv, NEW w \in Workers, ScaleNewSet(w)
  PROVE  Described
<1> DEFINE d == sync[w].copy
           next == ScaleDown(sync[w])
<1>1. /\ SyncOK(sync[w]) /\ d # Absent /\ d.template \in Templates /\ d.replicas \in Nat
      /\ sync[w].new \in ReplicaSets /\ dep' = dep
  BY SizeAssumption DEF ScaleNewSet, Worker, Inv, SyncsOK, SyncOK, Syncs, Deployments
<1>2. SyncOK(next) /\ (next.phase = "old" => next.copy = d)
  BY <1>1, ScaleDownOK
<1>3. Scale(w, d.template, sync[w].new, d.replicas, next)
  BY DEF ScaleNewSet
<1>4. sets' = [sets EXCEPT ![d.template] =
                [sync[w].new EXCEPT !.replicas = d.replicas, !.by = "sync"]] =>
        Capacity(next, sets')
  <2> SUFFICES ASSUME sets' = [sets EXCEPT ![d.template] =
                        [sync[w].new EXCEPT !.replicas = d.replicas, !.by = "sync"]]
               PROVE  Capacity(next, sets')
    OBVIOUS
  <2>1. sets'[d.template].replicas = d.replicas
    BY <1>1 DEF Inv, StoreTypes, ReplicaSets
  <2> QED BY <1>2, <2>1 DEF Capacity
<1> HIDE DEF next, d
<1> QED BY <1>1, <1>2, <1>3, <1>4, ScaleStep

LEMMA ScaleOldSetStep ==
  ASSUME Inv, NEW w \in Workers, ScaleOldSet(w)
  PROVE  Described
<1> DEFINE s == sync[w]
<1>1. /\ SyncOK(s) /\ s \in Syncs /\ s.copy # Absent /\ s.phase = "old" /\ dep' = dep
      /\ s.copy.template \in Templates
  BY DEF ScaleOldSet, Worker, Inv, SyncsOK, SyncOK, Syncs, Deployments
<1>2. PICK t \in s.todo :
        Scale(w, t, s.listed[t], 0,
              IF s.todo \ {t} = {} THEN NoSync ELSE [s EXCEPT !.todo = s.todo \ {t}])
  BY DEF ScaleOldSet
<1> DEFINE rest == [s EXCEPT !.todo = s.todo \ {t}]
           next == IF s.todo \ {t} = {} THEN NoSync ELSE rest
<1>3. /\ t \in Templates /\ t # s.copy.template
      /\ s.listed[t] \in ReplicaSets
  BY <1>1 DEF SyncOK, Syncs
<1>4. /\ rest \in Syncs /\ rest.phase = "old" /\ rest.copy = s.copy
      /\ rest.listed = s.listed /\ rest.todo = s.todo \ {t}
  BY <1>1 DEF Syncs
<1>5. SyncOK(next) /\ next.phase \in {"idle", "old"} /\ (next.phase = "old" => next.copy = s.copy)
  <2> HIDE DEF rest, s
  <2> QED BY <1>1, <1>4, NoSyncOK DEF SyncOK
<1>6. /\ Capacity(s, sets)
      /\ sets' = [sets EXCEPT ![t] = [s.listed[t] EXCEPT !.replicas = 0, !.by = "sync"]]
      => Capacity(next, sets')
  <2> HIDE DEF next, s
  <2>1. sets' = [sets EXCEPT ![t] = [s.listed[t] EXCEPT !.replicas = 0, !.by = "sync"]] =>
          sets'[s.copy.template] = sets[s.copy.template]
    BY <1>1, <1>3 DEF Inv, StoreTypes
  <2> QED BY <1>1, <1>5, <2>1 DEF Capacity
<1>7. Scale(w, t, s.listed[t], 0, next)
  BY <1>2
<1> HIDE DEF next, s
<1> QED BY <1>1, <1>3, <1>5, <1>6, <1>7, ScaleStep DEF s

-----------------------------------------------------------------------------
(* The steps of users and of the rest of the cluster. *)

LEMMA DeploymentUserStep ==
  ASSUME Inv, CreateDeployment \/ UpdateDeployment \/ DeleteDeployment
  PROVE  Described
<1>1. dep' \in Deployments \cup {Absent}
  <2>1. CASE CreateDeployment
    <3>1. (CHOOSE uid \in FreeUIDs : TRUE) \in DeploymentUIDs
      BY <2>1 DEF CreateDeployment, FreeUIDs
    <3> QED BY <2>1, <3>1 DEF CreateDeployment, Deployments
  <2>2. CASE UpdateDeployment
    BY <2>2 DEF UpdateDeployment, Inv, StoreTypes, Deployments
  <2>3. CASE DeleteDeployment
    BY <2>3 DEF DeleteDeployment, Inv, StoreTypes, Deployments
  <2> QED BY <2>1, <2>2, <2>3
<1>2. Disturb /\ sets' = sets /\ sync' = sync
  BY DEF CreateDeployment, UpdateDeployment, DeleteDeployment
<1>3. Gentle
  BY <1>2 DEF Gentle
<1> QED BY <1>1, <1>2, <1>3, DisturbType, SameSets DEF Inv, StoreTypes, Described

\* What happens to one set, in one step.
LEMMA OneSetStep ==
  ASSUME Inv, NEW t \in Templates, NEW rs \in ReplicaSets \cup {Absent},
         sets' = [sets EXCEPT ![t] = rs], dep' = dep, sync' = sync,
         left' \in 0..MaxDisturbances,
         \/ rs = Absent
         \/ /\ sets[t] # Absent
            /\ rs.owner \in {sets[t].owner, NoOwner}
            /\ rs.by = "user" \/ (rs.by = sets[t].by /\ rs.replicas = sets[t].replicas)
  PROVE  Described
BY DEF Inv, StoreTypes, Described, Gentle, NoAdoption

LEMMA SetUserStep ==
  ASSUME Inv, UserScalesSet \/ UserDeletesSet
  PROVE  Described
<1>1. Disturb /\ dep' = dep /\ sync' = sync
  BY DEF UserScalesSet, UserDeletesSet
<1>2. CASE UserScalesSet
  <2>1. PICK t \in Stored, n \in Sizes \cup {0} :
          sets' = [sets EXCEPT ![t].replicas = n, ![t].by = "user"]
    BY <1>2 DEF UserScalesSet
  <2> DEFINE rs == [sets[t] EXCEPT !.replicas = n, !.by = "user"]
  <2>2. /\ t \in Templates /\ sets[t] # Absent /\ rs \in ReplicaSets
        /\ rs.owner = sets[t].owner /\ rs.by = "user"
    <3>1. n \in Nat
      BY SizeAssumption
    <3>2. t \in Templates /\ sets[t] # Absent /\ sets[t] \in ReplicaSets
      BY DEF Stored, Inv, StoreTypes
    <3> QED BY <3>1, <3>2 DEF ReplicaSets
  <2>3. sets' = [sets EXCEPT ![t] = rs]
    BY <2>1, <2>2 DEF Inv, StoreTypes
  <2> HIDE DEF rs
  <2> QED BY <1>1, <2>2, <2>3, OneSetStep, DisturbType
<1>3. CASE UserDeletesSet
  BY <1>1, <1>3, OneSetStep, DisturbType DEF UserDeletesSet, Stored
<1> QED BY <1>2, <1>3

LEMMA ClusterStep ==
  ASSUME Inv, Cluster
  PROVE  Described
<1>1. ASSUME NEW t \in Templates, MovePods(t) PROVE Described
  <2> DEFINE rs == [sets[t] EXCEPT !.status = IF @ < sets[t].replicas THEN @ + 1 ELSE @ - 1]
  <2>1. sets[t] \in ReplicaSets /\ sets[t] # Absent /\ sets[t].status # sets[t].replicas
    BY <1>1 DEF MovePods, Inv, StoreTypes
  <2>2. /\ rs \in ReplicaSets /\ rs.owner = sets[t].owner
        /\ rs.by = sets[t].by /\ rs.replicas = sets[t].replicas
    BY <2>1 DEF ReplicaSets
  <2>3. /\ sets' = [sets EXCEPT ![t] = rs] /\ dep' = dep /\ sync' = sync /\ left' = left
    BY <1>1 DEF MovePods
  <2> HIDE DEF rs
  <2> QED BY <2>1, <2>2, <2>3, OneSetStep, DisturbType
<1>2. ASSUME NEW t \in Templates, CollectSet(t) PROVE Described
  BY <1>2, OneSetStep, DisturbType DEF CollectSet
<1>3. ASSUME NEW t \in Templates, OrphanSet(t) PROVE Described
  <2> DEFINE rs == [sets[t] EXCEPT !.owner = NoOwner]
  <2>1. /\ sets[t] # Absent /\ rs \in ReplicaSets /\ rs.owner = NoOwner
        /\ rs.by = sets[t].by /\ rs.replicas = sets[t].replicas
    BY <1>3 DEF OrphanSet, Owned, Stored, Inv, StoreTypes, ReplicaSets
  <2>2. /\ sets' = [sets EXCEPT ![t] = rs] /\ dep' = dep /\ sync' = sync /\ left' = left
    BY <1>3 DEF OrphanSet
  <2> HIDE DEF rs
  <2> QED BY <2>1, <2>2, OneSetStep, DisturbType
<1>4. ASSUME FinishDeletion PROVE Described
  <2>1. Gentle
    BY <1>4 DEF FinishDeletion, Gentle
  <2> QED BY <1>4, <2>1, SameSets DEF FinishDeletion, Inv, StoreTypes, Described
<1> QED BY <1>1, <1>2, <1>3, <1>4 DEF Cluster

-----------------------------------------------------------------------------
(* The invariants. *)

LEMMA NextDescribed ==
  ASSUME Inv, Next
  PROVE  Described
<1>1. ASSUME NEW w \in Workers, ReadDeployment(w) \/ Step(w) PROVE Described
  BY <1>1, ReadDeploymentStep, ListSetsStep, CreateSetStep, GetSetStep, ScaleNewSetStep,
     ScaleOldSetStep DEF Step
<1>2. ASSUME Users PROVE Described
  BY <1>2, DeploymentUserStep, SetUserStep DEF Users
<1> QED BY <1>1, <1>2, ClusterStep DEF Next

LEMMA SyncsFollow ==
  ASSUME Inv, NEW w \in Workers, NEW t, GoesOn(w, t)
  PROVE  /\ sync' = [v \in Workers |-> sync'[v]]
         /\ \A v \in Workers : sync'[v] = IF v = w THEN t ELSE sync[v]
<1>1. sync = [v \in Workers |-> sync[v]]
  BY DEF Inv, SyncsOK
<1>2. sync' = [sync EXCEPT ![w] = t]
  BY DEF GoesOn
<1> QED BY <1>1, <1>2

LEMMA InvStep == Inv /\ [Next]_vars => Inv'
<1>1. Inv /\ UNCHANGED vars => Inv'
  <2> SUFFICES ASSUME Inv, UNCHANGED vars PROVE Inv'
    OBVIOUS
  <2>1. dep' = dep /\ sets' = sets /\ sync' = sync /\ left' = left
    BY DEF vars
  <2> QED BY <2>1 DEF Inv, StoreTypes, SyncsOK
<1>2. Inv /\ Next => Inv'
  <2> SUFFICES ASSUME Inv, Described PROVE Inv'
    BY NextDescribed
  <2>1. SyncsOK'
    <3>1. CASE sync' = sync
      BY <3>1 DEF Inv, SyncsOK
    <3>2. ASSUME NEW w \in Workers, NEW t \in Syncs, GoesOn(w, t) PROVE SyncsOK'
      BY <3>2, SyncsFollow DEF GoesOn, Inv, SyncsOK
    <3> QED BY <3>1, <3>2 DEF Described
  <2> QED BY <2>1 DEF Described, Inv
<1> QED BY <1>1, <1>2

LEMMA InvInit == Init => Inv
<1> SUFFICES ASSUME Init PROVE Inv
  OBVIOUS
<1>1. StoreTypes
  BY BoundAssumption DEF Init, StoreTypes, NoSets
<1>2. SyncsOK
  BY NoSyncOK DEF Init, SyncsOK
<1> QED BY <1>1, <1>2 DEF Inv

LEMMA InvAlways == Spec => []Inv
BY InvInit, InvStep, PTL DEF Spec

\* The single sync that runs keeps its capacity.
LEMMA CapacityStep ==
  ASSUME \A v, w \in Workers : v = w
  PROVE  Inv /\ CapacityKept /\ [Next]_vars => CapacityKept'
<1> SUFFICES ASSUME Inv, CapacityKept, [Next]_vars PROVE CapacityKept'
  OBVIOUS
<1>1. CASE UNCHANGED vars
  <2>1. sets' = sets /\ sync' = sync
    BY <1>1 DEF vars
  <2> QED BY <2>1 DEF CapacityKept, Worker
<1>2. CASE Next
  <2>1. Described
    BY <1>2, NextDescribed
  <2>2. \A w \in Workers : Capacity(sync[w], sets)
    BY DEF CapacityKept, Worker, Capacity
  <2>3. \A w \in Workers : Capacity(sync'[w], sets')
    <3> SUFFICES ASSUME NEW w \in Workers PROVE Capacity(sync'[w], sets')
      OBVIOUS
    <3>1. CASE sync' = sync /\ Gentle
      <4> SUFFICES ASSUME sync[w].phase = "old" PROVE Capacity(sync[w], sets')
        BY <3>1 DEF Capacity
      <4>1. sync[w].copy.template \in Templates
        BY DEF Inv, SyncsOK, SyncOK, Syncs, Deployments
      <4> QED BY <2>2, <3>1, <4>1 DEF Gentle, Capacity
    <3>2. CASE \E v \in Workers, t \in Syncs : GoesOn(v, t)
      <4>1. PICK v \in Workers, t \in Syncs : GoesOn(v, t)
        BY <3>2
      <4>2. sync'[w] = t
        BY <4>1, SyncsFollow
      <4> QED BY <2>2, <4>1, <4>2 DEF GoesOn
    <3> QED BY <2>1, <3>1, <3>2 DEF Described
  <2> QED BY <2>3 DEF CapacityKept, Worker, Capacity
<1> QED BY <1>1, <1>2

-----------------------------------------------------------------------------
(* The theorems. *)

\* Every value stays in its type, and a sync lists only sets of the Deployment it
\* read (filterReplicaSetsByOwner), however many syncs run.
THEOREM TypeCorrect == Spec => []TypeOK
<1>1. Inv => TypeOK
  BY DEF Inv, StoreTypes, SyncsOK, SyncOK, TypeOK
<1> QED BY <1>1, InvAlways, PTL

\* With any number of syncs, no write of an older copy gives an orphaned ReplicaSet
\* its owner back (scaleReplicaSet sends the whole set as it was listed).
THEOREM OrphansStayOrphans == Spec => OrphansStay
<1>1. Inv /\ [Next]_vars =>
        [\A t \in Templates :
           sets[t] # Absent /\ sets[t].owner = NoOwner =>
             sets'[t] = Absent \/ sets'[t].owner = NoOwner]_vars
  <2>1. Inv /\ Next => NoAdoption
    BY NextDescribed DEF Described
  <2> QED BY <2>1 DEF NoAdoption
<1> QED BY <1>1, InvAlways, PTL DEF Spec, OrphansStay

\* Where one sync runs at a time, as with upstream's work queue, syncDeployment never
\* takes replicas from old sets before the new set asks for all of them, whatever
\* templates and sizes come and go.
THEOREM CapacityStays ==
  ASSUME \A v, w \in Workers : v = w
  PROVE  Spec => []CapacityKept
<1>1. Init => CapacityKept
  BY NoSyncOK DEF Init, CapacityKept, Worker
<1>2. Inv /\ CapacityKept /\ [Next]_vars => CapacityKept'
  BY CapacityStep
<1> QED BY <1>1, <1>2, InvAlways, PTL DEF Spec

-----------------------------------------------------------------------------
(* A completed rollout lasts. *)

\* What a sync is about to scale had another size when it was read.
Plans(s) ==
  /\ s.phase = "new" => s.new.replicas # s.copy.replicas
  /\ s.phase = "old" => \A t \in s.todo : s.listed[t].replicas # 0

\* What a sync goes on to: nothing, or a plan for the same copy.
Follows(s, t) == Plans(t) /\ (t.phase = "idle" \/ t.copy = s.copy)

LEMMA NoSyncFollows == ASSUME NEW s PROVE Follows(s, NoSync)
BY DEF Follows, Plans, NoSync

LEMMA ScaleDownFollows == ASSUME NEW s \in Syncs PROVE Follows(s, ScaleDown(s))
<1> DEFINE t == [s EXCEPT !.phase = "old", !.new = Absent, !.todo = OldSets(s)]
<1>1. /\ t.phase = "old" /\ t.copy = s.copy /\ t.todo = OldSets(s) /\ t.listed = s.listed
  BY DEF Syncs
<1>2. ScaleDown(s) = NoSync \/ ScaleDown(s) = t
  BY DEF ScaleDown
<1> HIDE DEF t
<1>3. \A x \in OldSets(s) : s.listed[x].replicas # 0
  BY DEF OldSets
<1> QED BY <1>1, <1>2, <1>3, NoSyncFollows DEF Follows, Plans

LEMMA ReconcileNewFollows == ASSUME NEW s \in Syncs, NEW rs PROVE Follows(s, ReconcileNew(s, rs))
<1> DEFINE t == [s EXCEPT !.phase = "new", !.new = rs]
<1>1. t.phase = "new" /\ t.copy = s.copy /\ t.new = rs
  BY DEF Syncs
<1>2. \/ ReconcileNew(s, rs) = ScaleDown(s)
      \/ rs.replicas # s.copy.replicas /\ ReconcileNew(s, rs) = t
  BY DEF ReconcileNew
<1> HIDE DEF t
<1> QED BY <1>1, <1>2, ScaleDownFollows DEF Follows, Plans

LEMMA RolloutFollows == ASSUME NEW s \in Syncs PROVE Follows(s, Rollout(s))
<1> DEFINE t == [s EXCEPT !.phase = "create"]
<1>1. t.phase = "create" /\ t.copy = s.copy
  BY DEF Syncs
<1>2. Rollout(s) = ReconcileNew(s, FindNew(s)) \/ Rollout(s) = t
  BY DEF Rollout
<1> HIDE DEF t
<1> QED BY <1>1, <1>2, ReconcileNewFollows DEF Follows, Plans

\* The sync of w is followed by one that has planned well.
LEMMA StepFollows ==
  ASSUME Inv, NEW w \in Workers, Plans(sync[w]), Step(w)
  PROVE  \E t : sync' = [sync EXCEPT ![w] = t] /\ Follows(sync[w], t)
<1> DEFINE s == sync[w]
<1>1. s \in Syncs
  BY DEF Inv, SyncsOK, SyncOK
<1>2. Finish(w) => sync' = [sync EXCEPT ![w] = NoSync]
  BY DEF Finish, GoOn
<1>3. CASE ListSets(w)
  <2> DEFINE listed == Listed(s.copy.uid)
             r == [s EXCEPT !.listed = listed]
  <2>1. listed \in [Templates -> ReplicaSets \cup {Absent}]
    BY DEF Listed, Owned, Inv, StoreTypes
  <2>2. \/ sync' = [sync EXCEPT ![w] = NoSync]
        \/ sync' = [sync EXCEPT ![w] = Rollout(r)]
    BY <1>3 DEF ListSets, GoOn
  <2> HIDE DEF listed
  <2>3. r \in Syncs /\ r.copy = s.copy
    BY <1>1, <2>1 DEF Syncs
  <2> HIDE DEF r, s
  <2>4. Follows(s, Rollout(r))
    BY <2>3, RolloutFollows DEF Follows
  <2> QED BY <2>2, <2>4, NoSyncFollows DEF s
<1>4. CASE CreateSet(w)
  <2> DEFINE t == [s EXCEPT !.phase = "get"]
  <2>1. t.phase = "get" /\ t.copy = s.copy
    BY <1>1 DEF Syncs
  <2>2. \/ sync' = [sync EXCEPT ![w] = ReconcileNew(s, NewReplicaSet(s.copy))]
        \/ sync' = [sync EXCEPT ![w] = t]
        \/ sync' = [sync EXCEPT ![w] = NoSync]
    BY <1>2, <1>4 DEF CreateSet, GoOn, Refused
  <2> HIDE DEF t, s
  <2>3. Follows(s, t)
    BY <2>1 DEF Follows, Plans
  <2> QED BY <1>1, <2>2, <2>3, NoSyncFollows, ReconcileNewFollows DEF s
<1>5. CASE GetSet(w)
  <2> DEFINE rs == sets[s.copy.template]
  <2>1. \/ sync' = [sync EXCEPT ![w] = ReconcileNew(s, rs)]
        \/ sync' = [sync EXCEPT ![w] = NoSync]
    BY <1>5 DEF GetSet, GoOn
  <2> HIDE DEF rs, s
  <2> QED BY <1>1, <2>1, NoSyncFollows, ReconcileNewFollows DEF s
<1>6. CASE ScaleNewSet(w)
  <2>1. \/ sync' = [sync EXCEPT ![w] = ScaleDown(s)]
        \/ sync' = [sync EXCEPT ![w] = NoSync]
    BY <1>2, <1>6 DEF ScaleNewSet, Scale, GoOn, Refused
  <2> HIDE DEF s
  <2> QED BY <1>1, <2>1, NoSyncFollows, ScaleDownFollows DEF s
<1>7. CASE ScaleOldSet(w)
  <2>1. PICK o \in s.todo :
          \/ sync' = [sync EXCEPT ![w] = IF s.todo \ {o} = {} THEN NoSync
                                         ELSE [s EXCEPT !.todo = s.todo \ {o}]]
          \/ sync' = [sync EXCEPT ![w] = NoSync]
    BY <1>2, <1>7 DEF ScaleOldSet, Scale, GoOn, Refused
  <2> DEFINE t == [s EXCEPT !.todo = s.todo \ {o}]
  <2>2. t.phase = s.phase /\ t.copy = s.copy /\ t.todo = s.todo \ {o} /\ t.listed = s.listed
        /\ t.new = s.new
    BY <1>1 DEF Syncs
  <2>3. sync' = [sync EXCEPT ![w] = t] \/ sync' = [sync EXCEPT ![w] = NoSync]
    BY <2>1
  <2> HIDE DEF t
  <2>4. Follows(s, t)
    BY <2>2 DEF Follows, Plans
  <2> HIDE DEF s
  <2> QED BY <2>3, <2>4, NoSyncFollows DEF s
<1> QED BY <1>3, <1>4, <1>5, <1>6, <1>7 DEF Step

LEMMA ReadFollows ==
  ASSUME NEW w \in Workers, ReadDeployment(w)
  PROVE  \E t : sync' = [sync EXCEPT ![w] = t] /\ Plans(t) /\ t.copy = dep
<1> DEFINE t == [NoSync EXCEPT !.phase = "list", !.copy = dep]
<1>1. t.phase = "list" /\ t.copy = dep
  BY DEF NoSync
<1>2. sync' = [sync EXCEPT ![w] = t]
  BY DEF ReadDeployment, GoOn
<1> HIDE DEF t
<1> QED BY <1>1, <1>2 DEF Plans

AllPlan == \A w \in Workers : Plans(sync[w])

LEMMA AllPlanKept == Inv /\ AllPlan /\ [Next]_vars => AllPlan'
<1> SUFFICES ASSUME Inv, AllPlan, [Next]_vars PROVE AllPlan'
  OBVIOUS
<1>1. CASE sync' = sync
  BY <1>1 DEF AllPlan
<1>2. ASSUME NEW w \in Workers, ReadDeployment(w) \/ Step(w) PROVE AllPlan'
  <2>1. \E t : sync' = [sync EXCEPT ![w] = t] /\ Plans(t)
    BY <1>2, StepFollows, ReadFollows DEF AllPlan, Follows
  <2> QED BY <2>1 DEF AllPlan, Inv, SyncsOK
<1>3. Users \/ Cluster => sync' = sync
  BY DEF Users, Cluster, CreateDeployment, UpdateDeployment, DeleteDeployment, UserScalesSet,
         UserDeletesSet, MovePods, CollectSet, OrphanSet, FinishDeletion
<1> QED BY <1>1, <1>2, <1>3 DEF Next, vars

LEMMA AllPlanAlways == Spec => []AllPlan
<1>1. Init => AllPlan
  BY NoSyncFollows DEF Init, AllPlan, Follows
<1> QED BY <1>1, AllPlanKept, InvAlways, PTL DEF Spec

\* The rollout is complete, by a set of the Deployment's own, and no sync works from an
\* older version of the Deployment.
Complete ==
  /\ dep # Absent /\ dep.deleting = "no"
  /\ RolledOut
  /\ sets[dep.template].owner = dep.uid
  /\ \A w \in Workers : Worker(w, "idle") \/ sync[w].copy = dep

\* Whatever a sync has planned, it finds the sets changed since, or at the size it wants.
LEMMA NothingScaled ==
  ASSUME Inv, AllPlan, Complete, NEW w \in Workers, ReadDeployment(w) \/ Step(w)
  PROVE  sets' = sets /\ dep' = dep
<1>1. /\ sync[w].phase # "idle" => sync[w].copy = dep
      /\ SyncOK(sync[w]) /\ Plans(sync[w]) /\ dep.template \in Templates
  BY DEF Complete, Worker, Inv, SyncsOK, StoreTypes, Deployments, AllPlan
<1>2. CASE ReadDeployment(w) \/ ListSets(w) \/ GetSet(w)
  BY <1>2 DEF ReadDeployment, ListSets, GetSet
<1>3. CASE CreateSet(w)
  BY <1>1, <1>3 DEF CreateSet, Worker, Complete, RolledOut, Refused
<1>4. CASE ScaleNewSet(w)
  <2>1. sync[w].copy = dep /\ sync[w].new.replicas # dep.replicas
    BY <1>1, <1>4 DEF ScaleNewSet, Worker, Plans
  <2>2. UpdateConflict(dep.template, sync[w].new)
    BY <2>1 DEF UpdateConflict, Complete, RolledOut
  <2> QED BY <1>4, <2>1, <2>2 DEF ScaleNewSet, Scale, Refused
<1>5. CASE ScaleOldSet(w)
  <2>1. PICK t \in sync[w].todo :
          \/ sets[t] # Absent /\ ~UpdateConflict(t, sync[w].listed[t])
          \/ sets' = sets
    BY <1>5 DEF ScaleOldSet, Scale, Refused
  <2>2. sync[w].copy = dep /\ sync[w].phase = "old"
    BY <1>1, <1>5 DEF ScaleOldSet, Worker
  <2>3. /\ t \in Templates /\ t # dep.template
        /\ sync[w].listed[t] # Absent /\ sync[w].listed[t].owner = dep.uid
        /\ sync[w].listed[t].replicas # 0
    BY <1>1, <2>2 DEF SyncOK, Syncs, Plans
  <2>4. ~(sets[t] # Absent /\ ~UpdateConflict(t, sync[w].listed[t]))
    BY <2>3 DEF UpdateConflict, Complete, RolledOut, Owned, Stored
  <2> QED BY <1>5, <2>1, <2>4 DEF ScaleOldSet
<1> QED BY <1>2, <1>3, <1>4, <1>5 DEF Step

LEMMA SyncsLeaveIt ==
  ASSUME Inv, AllPlan, Complete, NEW w \in Workers, ReadDeployment(w) \/ Step(w)
  PROVE  Complete'
<1>1. sets' = sets /\ dep' = dep
  BY NothingScaled
<1>2. \E t : sync' = [sync EXCEPT ![w] = t] /\ (t.phase = "idle" \/ t.copy = dep)
  <2>1. CASE ReadDeployment(w)
    BY <2>1, ReadFollows
  <2>2. CASE Step(w)
    <3>1. sync[w].copy = dep
      BY <2>2 DEF Complete, Step, Worker, ListSets, CreateSet, GetSet, ScaleNewSet, ScaleOldSet
    <3> QED BY <2>2, <3>1, StepFollows DEF AllPlan, Follows
  <2> QED BY <2>1, <2>2
<1>3. \A v \in Workers : sync'[v].phase = "idle" \/ sync'[v].copy = dep
  BY <1>2 DEF Complete, Worker, Inv, SyncsOK
<1> QED BY <1>1, <1>3 DEF Complete, Worker, RolledOut, Owned, Stored

\* The ReplicaSet controllers are through with the Deployment's sets, and the garbage
\* collector has no claim to them.
LEMMA ClusterLeavesIt ==
  ASSUME Inv, Complete, Cluster
  PROVE  Complete'
<1>1. /\ dep # Absent /\ dep.deleting = "no" /\ RolledOut /\ dep.template \in Templates
      /\ sets[dep.template].owner = dep.uid
  BY DEF Complete, Inv, StoreTypes, Deployments
<1>2. ~FinishDeletion /\ \A t \in Templates : ~OrphanSet(t)
  BY <1>1 DEF FinishDeletion, OrphanSet
<1>3. ASSUME NEW t \in Templates, MovePods(t) \/ CollectSet(t)
      PROVE  \E rs : /\ sets' = [sets EXCEPT ![t] = rs]
                     /\ sets[t].owner # dep.uid /\ sets[t] # Absent
                     /\ rs = Absent \/ rs.owner = sets[t].owner
  <2>1. CASE CollectSet(t)
    BY <1>1, <2>1 DEF CollectSet
  <2>2. CASE MovePods(t)
    <3> DEFINE rs == [sets[t] EXCEPT !.status = IF @ < sets[t].replicas THEN @ + 1 ELSE @ - 1]
    <3>1. sets[t] # Absent /\ sets[t] \in ReplicaSets /\ sets[t].status # sets[t].replicas
          /\ sets' = [sets EXCEPT ![t] = rs]
      BY <2>2 DEF MovePods, Inv, StoreTypes
    <3>2. rs.owner = sets[t].owner
      BY <3>1 DEF ReplicaSets
    <3>3. sets[t].owner # dep.uid
      BY <1>1, <3>1 DEF RolledOut, Owned, Stored
    <3> HIDE DEF rs
    <3> QED BY <3>1, <3>2, <3>3
  <2> QED BY <1>3, <2>1, <2>2
<1>4. dep' = dep /\ sync' = sync
  BY <1>2 DEF Cluster, MovePods, CollectSet
<1>5. PICK t \in Templates : MovePods(t) \/ CollectSet(t)
  BY <1>2 DEF Cluster
<1>6. PICK rs : /\ sets' = [sets EXCEPT ![t] = rs]
                /\ sets[t].owner # dep.uid /\ sets[t] # Absent
                /\ rs = Absent \/ rs.owner = sets[t].owner
  BY <1>3, <1>5
<1>7. /\ sets'[t] = rs /\ \A x \in Templates \ {t} : sets'[x] = sets[x]
      /\ t # dep.template
  BY <1>1, <1>6 DEF Inv, StoreTypes
<1>8. t \notin Owned(dep.uid)' /\ \A x \in Owned(dep.uid)' : x \in Owned(dep.uid)
  BY <1>4, <1>6, <1>7 DEF Owned, Stored
<1>9. RolledOut'
  <2>1. dep.template \in Templates /\ Owned(dep.uid) \subseteq Templates
    BY DEF Complete, Inv, StoreTypes, Deployments, Owned, Stored
  <2>2. dep' = dep /\ sets'[dep.template] = sets[dep.template]
    BY <1>4, <1>7, <2>1
  <2>3. \A x \in Owned(dep.uid)' : x \in Owned(dep.uid) /\ sets'[x] = sets[x]
    BY <1>7, <1>8, <2>1
  <2> QED BY <1>1, <2>2, <2>3 DEF RolledOut
<1> QED BY <1>1, <1>4, <1>7, <1>9 DEF Complete, Worker

(***************************************************************************)
(* With any number of syncs: once the rollout is complete, by a set of the *)
(* Deployment's own, and no sync is left that read an older version of the *)
(* Deployment, it stays complete until a user acts.  A sync may still hold *)
(* sets listed long before; scaleReplicaSet then meets a Conflict, because *)
(* it only sends a size that differs from the one it read.                 *)
(***************************************************************************)
THEOREM RolloutLasts ==
  Spec =>
    /\ [](Complete /\ [][~Users]_vars => []Complete)
    /\ [][Complete /\ sync' # sync => sets' = sets]_vars
<1>1. Inv /\ AllPlan /\ Complete /\ [Next]_vars /\ [~Users]_vars => Complete'
  <2> SUFFICES ASSUME Inv, AllPlan, Complete, [Next]_vars, [~Users]_vars
               PROVE  Complete'
    OBVIOUS
  <2>1. CASE UNCHANGED vars
    BY <2>1 DEF vars, Complete, Worker, RolledOut, Owned, Stored
  <2>2. CASE Next /\ ~Users
    BY <2>2, SyncsLeaveIt, ClusterLeavesIt DEF Next
  <2> QED BY <2>1, <2>2
<1>2. Inv /\ AllPlan /\ [Next]_vars =>
        [Complete /\ sync' # sync => sets' = sets]_vars
  <2> SUFFICES ASSUME Inv, AllPlan, Next, Complete, sync' # sync
               PROVE  sets' = sets
    OBVIOUS
  <2>1. ~Users /\ ~Cluster
    BY DEF Users, Cluster, CreateDeployment, UpdateDeployment, DeleteDeployment, UserScalesSet,
           UserDeletesSet, MovePods, CollectSet, OrphanSet, FinishDeletion
  <2> QED BY <2>1, NothingScaled DEF Next
<1> QED BY <1>1, <1>2, AllPlanAlways, InvAlways, PTL DEF Spec
=============================================================================
