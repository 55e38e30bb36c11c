------------------------ MODULE ReplicaSetController ------------------------
(***************************************************************************)
(* The simplified ReplicaSet controller (controllers/replicaset): syncs of *)
(* one ReplicaSet that each read the set, list its pods, create or delete  *)
(* pods to close the gap, and write a status, while users scale, delete    *)
(* and recreate the set, pods come and go, and other syncs run.            *)
(*                                                                         *)
(* Each call to the API is one step; ApiServer says what such a call does, *)
(* and its theorems why a call on one object is atomic.  Two of its facts  *)
(* keep this model finite: UIDs and resource versions are never given out  *)
(* twice and are only compared for equality.  An identifier that no stored *)
(* object and no copy holds can therefore stand for a fresh one.           *)
(***************************************************************************)
EXTENDS Integers, FiniteSets

CONSTANTS
  Workers,        \* goroutines that run syncReplicaSet, one key between them
  PodNames,       \* names of pods in the namespace
  PodUIDs,        \* identifiers for pods, more than can be held at once
  RSUIDs,         \* identifiers for incarnations of the ReplicaSet
  RVs,            \* its resource versions, more than can be held at once
  Sizes,          \* values of spec.replicas
  Burst,          \* burstReplicas: pods created or deleted by one sync
  RetryingClient, \* UpdateStatus is the model's updateStatusTx, as the proofs bind it
  MaxDisturbances,\* bound: steps taken by users and failures of requests
  NoOwner, Absent

ASSUME BurstAssumption == Burst \in Nat \ {0}
ASSUME SizeAssumption  == Sizes \subseteq Nat
ASSUME BoundAssumption == MaxDisturbances \in Nat
ASSUME NameAssumption == IsFiniteSet(PodNames)
ASSUME WorkerAssumption == IsFiniteSet(Workers)
ASSUME ClientAssumption == RetryingClient \in BOOLEAN

\* controller.SlowStartInitialBatchSize
SlowStartInitialBatchSize == 1

statusUpdateRetries == 1

Failures == {"none", "FailedCreate", "FailedDelete", "unnamed"}

Statuses ==
  [replicas : Nat, ready : Nat, observed : Nat, failure : Failures]

\* held: the object has a finalizer.
ReplicaSets ==
  [uid : RSUIDs, rv : RVs, gen : Nat, replicas : Sizes, held : BOOLEAN,
   deleting : BOOLEAN, status : Statuses]

Pods ==
  [uid : PodUIDs, owner : RSUIDs \cup {NoOwner},
   phase : {"pending", "ready", "terminating"}]

\* What a sync keeps of a pod it listed.
SeenPods == [name : PodNames, uid : PodUIDs, ready : BOOLEAN]

ASSUME TokenAssumption ==
  Absent \notin ReplicaSets \cup Pods /\ NoOwner \notin RSUIDs

Phases == {"idle", "list", "create", "delete", "status", "get"}

\* A sync: its copy of the set, the pods it counts as active, the slow start
\* (calls left, size and calls not yet made of the batch, outcomes so far), the
\* pods still to delete and whether a delete failed, the status it reports, the
\* copy it sends that with, and which attempt this is.
Syncs ==
  [phase : Phases, copy : ReplicaSets \cup {Absent}, seen : SUBSET SeenPods,
   remaining : Nat, batch : Nat, todo : Nat, successes : Nat, failed : Nat,
   victims : SUBSET SeenPods, err : BOOLEAN, status : Statuses,
   current : ReplicaSets \cup {Absent}, attempt : Nat]

VARIABLES
  rs,     \* the ReplicaSet stored under the key, or Absent
  pods,   \* the pod stored under each name, or Absent
  sync,   \* the sync each worker is running
  left    \* disturbances that may still happen

vars == <<rs, pods, sync, left>>

TypeOK ==
  /\ rs \in ReplicaSets \cup {Absent}
  /\ pods \in [PodNames -> Pods \cup {Absent}]
  /\ sync \in [Workers -> Syncs]
  /\ left \in 0..MaxDisturbances

NewStatus == [replicas |-> 0, ready |-> 0, observed |-> 0, failure |-> "none"]

NoSync ==
  [phase |-> "idle", copy |-> Absent, seen |-> {}, remaining |-> 0, batch |-> 0,
   todo |-> 0, successes |-> 0, failed |-> 0, victims |-> {}, err |-> FALSE,
   status |-> NewStatus, current |-> Absent, attempt |-> 0]

Init ==
  /\ rs = Absent
  /\ pods = [p \in PodNames |-> Absent]
  /\ sync = [w \in Workers |-> NoSync]
  /\ left = MaxDisturbances

-----------------------------------------------------------------------------
(* Identifiers: which of the free ones is taken makes no difference. *)

Copies ==
  (UNION {{rs, sync[w].copy, sync[w].current} : w \in Workers}) \ {Absent}

FreeRVs == RVs \ {c.rv : c \in Copies}

Stored == {p \in PodNames : pods[p] # Absent}

FreeRSUIDs ==
  RSUIDs \ ({c.uid : c \in Copies} \cup {pods[p].owner : p \in Stored})

FreePodUIDs ==
  PodUIDs \ ({pods[p].uid : p \in Stored}
               \cup UNION {{s.uid : s \in sync[w].seen} : w \in Workers})

-----------------------------------------------------------------------------
(* What the API does with a write. *)

\* Storing a changed ReplicaSet gives it a new version.
StoreReplicaSet(new) ==
  IF new = rs THEN rs' = rs
  ELSE /\ FreeRVs # {}
       /\ rs' = [new EXCEPT !.rv = CHOOSE rv \in FreeRVs : TRUE]

\* A terminating ReplicaSet without a finalizer is gone: deletion is not graceful.
PersistReplicaSet(new) ==
  IF new.deleting /\ ~new.held THEN rs' = Absent ELSE StoreReplicaSet(new)

\* A pod is deleted gracefully, or at once when it has not been scheduled.
RemovePod(p) ==
  \/ pods' = [pods EXCEPT ![p].phase = "terminating"]
  \/ pods[p].phase = "pending" /\ pods' = [pods EXCEPT ![p] = Absent]

\* Another step of a user, or another refused request.
Disturb == left > 0 /\ left' = left - 1

-----------------------------------------------------------------------------
(* A sync. *)

Worker(w, phase) == sync[w].phase = phase

Finish(w) == sync' = [sync EXCEPT ![w] = NoSync]

\* syncReplicaSet reads the set; one that does not exist needs no sync.
ReadReplicaSet(w) ==
  /\ Worker(w, "idle")
  /\ rs # Absent
  /\ sync' = [sync EXCEPT ![w] = [NoSync EXCEPT !.phase = "list", !.copy = rs]]
  /\ UNCHANGED <<rs, pods, left>>

\* FilterPodsByOwner and FilterActivePods.
Owned(uid) == {p \in Stored : pods[p].owner = uid}

\* Fault: pods of other owners count too.
ActivePodsFault(uid) ==
  {[name |-> p, uid |-> pods[p].uid, ready |-> pods[p].phase = "ready"] :
     p \in {q \in Stored : pods[q].phase # "terminating"}}

\* Fault: pods that are not ready yet do not count.
ActivePodsReadyFault(uid) ==
  {[name |-> p, uid |-> pods[p].uid, ready |-> TRUE] :
     p \in {q \in Owned(uid) : pods[q].phase = "ready"}}

ActivePods(uid) ==
  {[name |-> p, uid |-> pods[p].uid, ready |-> pods[p].phase = "ready"] :
     p \in {q \in Owned(uid) : pods[q].phase # "terminating"}}

AtMost(n, bound) == IF n > bound THEN bound ELSE n

\* getPodsToDelete: pods that are not ready go first; how the ranks on nodes and
\* the ages order the others is left open.
PodsToDelete(active, n) ==
  {V \in SUBSET active :
     /\ Cardinality(V) = n
     /\ \A v \in V, s \in active \ V : v.ready => s.ready}

FailureReason(copy, active) ==
  LET diff == Cardinality(active) - copy.replicas
  IN  IF diff < 0 THEN "FailedCreate" ELSE IF diff > 0 THEN "FailedDelete" ELSE "unnamed"

\* calculateStatus: all counts come from the pods listed before manageReplicas
\* ran.  A condition that is already there keeps its reason.
CalculateStatus(copy, active, err) ==
  [replicas |-> Cardinality(active),
   ready    |-> Cardinality({s \in active : s.ready}),
   observed |-> copy.status.observed,
   failure  |-> IF ~err THEN "none"
                ELSE IF copy.status.failure = "none" THEN FailureReason(copy, active)
                ELSE copy.status.failure]

\* Fault: an unchanged count is not reported under the new generation.
StatusCurrentFault(copy, status) ==
  [status EXCEPT !.observed = 0] = [copy.status EXCEPT !.observed = 0]

\* updateReplicaSetStatus has nothing to write.
StatusCurrent(copy, status) ==
  /\ status = copy.status
  /\ copy.gen = copy.status.observed

\* The end of syncReplicaSet once manageReplicas is done with outcome err.
ToStatus(s, err) ==
  LET status == CalculateStatus(s.copy, s.seen, err)
  IN  IF StatusCurrent(s.copy, status) THEN NoSync
      ELSE [NoSync EXCEPT !.phase = "status", !.copy = s.copy, !.current = s.copy,
                          !.status = [status EXCEPT !.observed = s.copy.gen]]

\* Fault: the first batch is as large as the rest allows.
FirstBatchFault(s, n) ==
  [s EXCEPT !.phase = "create", !.remaining = n, !.batch = n, !.todo = n]

FirstBatch(s, n) ==
  LET size == AtMost(n, SlowStartInitialBatchSize)
  IN  [s EXCEPT !.phase = "create", !.remaining = n, !.batch = size, !.todo = size]

\* The list of pods, and the branch manageReplicas takes on it.  It is skipped
\* for a set that is being deleted.
ListPods(w) ==
  /\ Worker(w, "list")
  /\ LET copy   == sync[w].copy
         active == ActivePods(copy.uid)
         s      == [sync[w] EXCEPT !.seen = active]
         diff   == Cardinality(active) - copy.replicas
     IN  \/ /\ copy.deleting \/ diff = 0
            /\ sync' = [sync EXCEPT ![w] = ToStatus(s, FALSE)]
         \/ /\ ~copy.deleting /\ diff < 0
            /\ sync' = [sync EXCEPT ![w] = FirstBatch(s, AtMost(-diff, Burst))]
         \/ /\ ~copy.deleting /\ diff > 0
            /\ \E V \in PodsToDelete(active, AtMost(diff, Burst)) :
                 sync' = [sync EXCEPT ![w] = [s EXCEPT !.phase = "delete", !.victims = V]]
  /\ UNCHANGED <<rs, pods, left>>

\* Fault: the batch doubles however few calls are left.
NextBatchFault(s) ==
  LET remaining == s.remaining - s.batch
      size      == IF remaining = 0 THEN 0 ELSE 2 * s.batch
  IN  IF s.failed > 0 THEN ToStatus(s, TRUE)
      ELSE IF size = 0 THEN ToStatus(s, FALSE)
      ELSE [s EXCEPT !.remaining = remaining, !.batch = size, !.todo = size]

\* slowStartBatch, between two batches: a failure ends it, else the next batch
\* is twice as large if enough calls are left.
NextBatch(s) ==
  LET remaining == s.remaining - s.batch
      size      == AtMost(2 * s.batch, remaining)
  IN  IF s.failed > 0 THEN ToStatus(s, TRUE)
      ELSE IF size = 0 THEN ToStatus(s, FALSE)
      ELSE [s EXCEPT !.remaining = remaining, !.batch = size, !.todo = size]

\* One goroutine of the batch has its answer; the last one ends the batch.
CallDone(s, ok) ==
  LET done == [s EXCEPT !.todo = @ - 1,
                        !.successes = @ + (IF ok THEN 1 ELSE 0),
                        !.failed    = @ + (IF ok THEN 0 ELSE 1)]
  IN  IF done.todo > 0 THEN done ELSE NextBatch(done)

\* A create call of the batch.  It finds a free name, or it is refused: an error
\* unless the namespace is terminating, which counts as a success.
CreatePod(w) ==
  /\ Worker(w, "create")
  /\ \/ /\ FreePodUIDs # {}
        /\ \E p \in PodNames \ Stored :
             pods' = [pods EXCEPT ![p] =
               [uid |-> CHOOSE uid \in FreePodUIDs : TRUE,
                owner |-> sync[w].copy.uid, phase |-> "pending"]]
        /\ sync' = [sync EXCEPT ![w] = CallDone(@, TRUE)]
        /\ UNCHANGED left
     \/ /\ Disturb
        /\ \E terminatingNamespace \in BOOLEAN :
             sync' = [sync EXCEPT ![w] = CallDone(@, terminatingNamespace)]
        /\ UNCHANGED pods
  /\ UNCHANGED rs

\* The last delete goroutine of a sync has its answer.
VictimDone(s, v, failed) ==
  LET done == [s EXCEPT !.victims = @ \ {v}, !.err = @ \/ failed]
  IN  IF done.victims # {} THEN done ELSE ToStatus(done, done.err)

\* Fault: the name alone says which pod is deleted.
DeletePodFault(w) ==
  /\ Worker(w, "delete")
  /\ \E v \in sync[w].victims :
       \/ /\ pods[v.name] = Absent
          /\ sync' = [sync EXCEPT ![w] = VictimDone(@, v, FALSE)]
          /\ UNCHANGED pods
       \/ /\ pods[v.name] # Absent
          /\ sync' = [sync EXCEPT ![w] = VictimDone(@, v, FALSE)]
          /\ IF pods[v.name].phase = "terminating" THEN UNCHANGED pods ELSE RemovePod(v.name)
  /\ UNCHANGED <<rs, left>>

\* A delete goroutine: the UID is a precondition and a pod that is gone is no
\* error; a pod that is terminating already stays as it is.
DeletePod(w) ==
  /\ Worker(w, "delete")
  /\ \E v \in sync[w].victims :
       LET p == pods[v.name]
       IN  \/ /\ p = Absent
              /\ sync' = [sync EXCEPT ![w] = VictimDone(@, v, FALSE)]
              /\ UNCHANGED pods
           \/ /\ p # Absent
              /\ p.uid # v.uid
              /\ sync' = [sync EXCEPT ![w] = VictimDone(@, v, TRUE)]
              /\ UNCHANGED pods
           \/ /\ p # Absent
              /\ p.uid = v.uid
              /\ sync' = [sync EXCEPT ![w] = VictimDone(@, v, FALSE)]
              /\ IF p.phase = "terminating" THEN UNCHANGED pods ELSE RemovePod(v.name)
  /\ UNCHANGED <<rs, left>>

\* Fault: a stale version is no conflict, as for the client the proofs bind.
StatusConflictFault(current) == current.uid # rs.uid

\* The client's answer to a status write of this copy is a Conflict.
StatusConflict(current) ==
  \/ current.uid # rs.uid
  \/ ~RetryingClient /\ current.rv # rs.rv

\* A failed write is tried again once, from a fresh copy.
StatusFailed(s) ==
  IF s.attempt >= statusUpdateRetries THEN NoSync ELSE [s EXCEPT !.phase = "get"]

\* Status().Update sends the whole copy: its finalizers are stored with the
\* status.  updateStatusTx does not come back from a Conflict over the UID.
WriteStatus(w) ==
  /\ Worker(w, "status")
  /\ \/ /\ rs = Absent
        /\ sync' = [sync EXCEPT ![w] = StatusFailed(@)]
        /\ UNCHANGED <<rs, left>>
     \/ /\ rs # Absent
        /\ StatusConflict(sync[w].current)
        /\ ~RetryingClient
        /\ sync' = [sync EXCEPT ![w] = StatusFailed(@)]
        /\ UNCHANGED <<rs, left>>
     \/ /\ rs # Absent
        /\ ~StatusConflict(sync[w].current)
        /\ PersistReplicaSet([rs EXCEPT !.status = sync[w].status, !.held = sync[w].current.held])
        /\ Finish(w)
        /\ UNCHANGED left
     \/ /\ rs # Absent
        /\ ~StatusConflict(sync[w].current)
        /\ Disturb
        /\ sync' = [sync EXCEPT ![w] = StatusFailed(@)]
        /\ UNCHANGED rs
  /\ UNCHANGED pods

\* Fault: the generation is taken from the fresh copy.
RefetchFault(w) ==
  /\ Worker(w, "get")
  /\ sync' = [sync EXCEPT ![w] =
       IF rs = Absent THEN NoSync
       ELSE [@ EXCEPT !.phase = "status", !.current = rs, !.attempt = @ + 1,
                      !.status.observed = rs.gen]]
  /\ UNCHANGED <<rs, pods, left>>

\* The next attempt uses a fresh copy; the status and its generation are kept.
NextAttempt(s) ==
  [s EXCEPT !.phase = "status", !.current = rs, !.attempt = @ + 1]

\* The GET between two attempts.
Refetch(w) ==
  /\ Worker(w, "get")
  /\ sync' = [sync EXCEPT ![w] = IF rs = Absent THEN NoSync ELSE NextAttempt(@)]
  /\ UNCHANGED <<rs, pods, left>>

Step(w) == ListPods(w) \/ CreatePod(w) \/ DeletePod(w) \/ WriteStatus(w) \/ Refetch(w)

-----------------------------------------------------------------------------
(* Users, the kubelet and the garbage collector. *)

CreateReplicaSet ==
  /\ Disturb
  /\ rs = Absent
  /\ FreeRSUIDs # {}
  /\ FreeRVs # {}
  /\ \E n \in Sizes :
       rs' = [uid |-> CHOOSE uid \in FreeRSUIDs : TRUE, rv |-> CHOOSE rv \in FreeRVs : TRUE,
              gen |-> 1, replicas |-> n, held |-> FALSE, deleting |-> FALSE, status |-> NewStatus]
  /\ UNCHANGED <<pods, sync>>

Scale ==
  /\ Disturb
  /\ rs # Absent
  /\ \E n \in Sizes \ {rs.replicas} :
       StoreReplicaSet([rs EXCEPT !.replicas = n, !.gen = @ + 1])
  /\ UNCHANGED <<pods, sync>>

\* A finalizer comes, or the last one goes.
SetFinalizer ==
  /\ Disturb
  /\ rs # Absent
  /\ rs.deleting => rs.held
  /\ PersistReplicaSet([rs EXCEPT !.held = ~@])
  /\ UNCHANGED <<pods, sync>>

\* A delete request with the Background or the Foreground policy; the latter
\* leaves a finalizer.
DeleteReplicaSet ==
  /\ Disturb
  /\ rs # Absent
  /\ ~rs.deleting
  /\ \E foreground \in BOOLEAN :
       PersistReplicaSet([rs EXCEPT !.held = @ \/ foreground, !.deleting = TRUE, !.gen = @ + 1])
  /\ UNCHANGED <<pods, sync>>

\* A pod nobody owns appears under any free name.
CreateOtherPod ==
  /\ Disturb
  /\ FreePodUIDs # {}
  /\ \E p \in PodNames \ Stored :
       pods' = [pods EXCEPT ![p] =
         [uid |-> CHOOSE uid \in FreePodUIDs : TRUE, owner |-> NoOwner, phase |-> "pending"]]
  /\ UNCHANGED <<rs, sync>>

RemoveAnyPod ==
  /\ Disturb
  /\ \E p \in Stored : pods[p].phase # "terminating" /\ RemovePod(p)
  /\ UNCHANGED <<rs, sync>>

PodBecomesReady(p) ==
  /\ pods[p] # Absent
  /\ pods[p].phase = "pending"
  /\ pods' = [pods EXCEPT ![p].phase = "ready"]
  /\ UNCHANGED <<rs, sync, left>>

PodStops(p) ==
  /\ pods[p] # Absent
  /\ pods[p].phase = "terminating"
  /\ pods' = [pods EXCEPT ![p] = Absent]
  /\ UNCHANGED <<rs, sync, left>>

Environment ==
  \/ CreateReplicaSet \/ Scale \/ SetFinalizer \/ DeleteReplicaSet
  \/ CreateOtherPod \/ RemoveAnyPod
  \/ \E p \in PodNames : PodBecomesReady(p) \/ PodStops(p)

Next ==
  \/ \E w \in Workers : ReadReplicaSet(w) \/ Step(w)
  \/ Environment

Spec == Init /\ [][Next]_vars

\* A sync that runs goes on, the set is synced again and again, and the kubelet
\* starts and stops pods.
FairSpec ==
  /\ Spec
  /\ \A w \in Workers : WF_vars(ReadReplicaSet(w)) /\ WF_vars(Step(w))
  /\ \A p \in PodNames : WF_vars(PodBecomesReady(p)) /\ WF_vars(PodStops(p))

-----------------------------------------------------------------------------
(* Properties. *)

\* A sync deletes nothing but active pods it listed for its own ReplicaSet: a pod
\* that took over the name of a listed one, before or after the sync chose its
\* victims, is left alone.
OnlyListedPodsDeleted ==
  [][\A w \in Workers, p \in PodNames :
       /\ Worker(w, "delete")
       /\ sync'[w] # sync[w]
       /\ pods'[p] # pods[p]
       => /\ pods[p].owner = sync[w].copy.uid
          /\ \E s \in sync[w].seen : s.name = p /\ s.uid = pods[p].uid]_vars

\* The active pods of a set, by name.
Running(uid) ==
  {p \in PodNames : pods[p] # Absent /\ pods[p].owner = uid /\ pods[p].phase # "terminating"}

\* How many pods a sync may create, and how many calls it is still going to make.
Allowance(s) == AtMost(s.copy.replicas - Cardinality(s.seen), Burst)

CallsLeft(s) == Allowance(s) - (s.successes + s.failed)

\* What the slow start is for: however the calls of a batch are interleaved, and
\* even if all that are under way fail, a sync has at most one failed create more
\* than it has successful ones; and slowStartBatch never makes more calls than the
\* pods the sync may create.
SlowStartLimitsFailures ==
  \A w \in Workers : Worker(w, "create") =>
    /\ sync[w].failed + sync[w].todo <= sync[w].successes + 1
    /\ sync[w].successes + sync[w].failed + sync[w].todo <= Allowance(sync[w])

\* With one sync at a time, the pods of a set never outgrow what it found and may
\* add, whoever deletes pods meanwhile.
NoOvershoot ==
  \A w \in Workers : Worker(w, "create") =>
    Cardinality(Running(sync[w].copy.uid)) <= Cardinality(sync[w].seen) + Allowance(sync[w])

\* The creates that syncs of a set are still going to make.
CreatesToCome(uid) ==
  {c \in Workers \X (1..Burst) :
     /\ Worker(c[1], "create")
     /\ sync[c[1]].copy.uid = uid
     /\ c[2] <= CallsLeft(sync[c[1]])}

\* Nothing keeps two syncs of one set from listing the same pods and creating twice
\* what is missing.  But a set never gets beyond the largest size it was ever given
\* by more than one burst for each sync but the last to list, however often syncs
\* start, fail and are overtaken by users: what runs and what is still to be created
\* count together.
OvershootBounded ==
  \A uid \in RSUIDs, n \in Sizes : (\A m \in Sizes : m <= n) =>
    Cardinality(Running(uid)) + Cardinality(CreatesToCome(uid))
      <= n + (Cardinality(Workers) - 1) * AtMost(n, Burst)

WritesStatus(w) == Worker(w, "status") /\ sync'[w] = NoSync /\ rs # Absent /\ rs' # rs

\* A status that names the live generation comes from a sync that acted on the
\* live spec, also when the write was repeated on a newer copy of the object the
\* sync had read.
ObservedSpecWasActedOn ==
  [][\A w \in Workers :
       /\ WritesStatus(w)
       /\ rs' # Absent
       /\ sync[w].copy.uid = rs.uid
       /\ sync[w].status.observed = rs.gen
       => sync[w].copy.replicas = rs.replicas]_vars

\* The same for every object the status may end up on.  updateReplicaSetStatus
\* saves the generation "otherwise we might wrongfully indicate that we've seen a
\* spec update when we retry"; but its GET goes by name, and a set created anew
\* under the name has generations of its own.
StatusComesFromSeenSpec ==
  [][\A w \in Workers :
       /\ WritesStatus(w)
       /\ rs' # Absent
       /\ sync[w].status.observed = rs.gen
       => sync[w].copy.replicas = rs.replicas]_vars

\* A status write changes the status: it neither removes the set nor brings back
\* or drops a finalizer that a user dropped or set after the controller's read.
StatusWriteSparesTheRest ==
  [][\A w \in Workers :
       WritesStatus(w) => rs' # Absent /\ rs'.held = rs.held]_vars

\* Once users and failures stop, the number of active pods becomes and stays what
\* the spec asks for.
Converges ==
  <>[](rs = Absent \/ rs.deleting \/ Cardinality(Running(rs.uid)) = rs.replicas)

\* And the status becomes and stays the truth about them, although every status is
\* computed from a list taken before the sync acted.
StatusSettles ==
  <>[](rs = Absent \/
       rs.status = [replicas |-> Cardinality(Running(rs.uid)),
                    ready    |-> Cardinality({p \in Running(rs.uid) : pods[p].phase = "ready"}),
                    observed |-> rs.gen,
                    failure  |-> "none"])
=============================================================================
