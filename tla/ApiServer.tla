------------------------------ MODULE ApiServer ------------------------------
(***************************************************************************)
(* The in-memory Kubernetes API model (kubernetes_model/apimodel): one map *)
(* of objects behind one mutex, the UIDs and resource versions ever given  *)
(* out, and the read-then-write transactions that clients run over it.     *)
(*                                                                         *)
(* A call that holds the mutex for its whole body (create, update,         *)
(* updateStatus, delete, patch) is one action.  A transaction (deleteTx,   *)
(* updateTx, updateStatusTx) locks twice per attempt, once to read the     *)
(* live version and once to write, so other clients run in between.        *)
(*                                                                         *)
(* A client works on a copy it read earlier, possibly long before it       *)
(* writes: BeginUpdate and BeginDelete are that read together with the     *)
(* choice of what to write; the copy is kept in the call.                  *)
(***************************************************************************)
EXTENDS Integers, FiniteSets

CONSTANTS
  Clients,          \* controllers, kubelets and users that hold copies
  Keys,             \* (kind, namespace, name) triples
  KindOf,           \* the kind of each key
  UIDs,             \* UIDs that can be generated: bounds the creations of a run
  RVs,              \* versions that can be generated: bounds its writes
  Specs,            \* values of an object's spec
  Statuses,         \* values of an object's status
  CreatedStatus,    \* the status the create strategies leave
  UserFinalizers,   \* finalizers that are not the system's own
  GracePeriods,     \* grace periods a delete request may carry
  DefaultGrace,     \* terminationGracePeriodSeconds of a pod
  NoUID, NoRV, NoGrace, \* the field is left empty
  Absent,           \* the key is not in the map
  Idle              \* the client has no call in progress

ASSUME StatusAssumption == CreatedStatus \in Statuses
ASSUME GraceAssumption  == GracePeriods \subseteq Int /\ DefaultGrace \in Nat
ASSUME EmptyAssumption  == NoUID \notin UIDs /\ NoRV \notin RVs /\ NoGrace \notin Int

-----------------------------------------------------------------------------
(* Kinds: which endpoints the typed wrappers expose, and what a strategy does. *)

StatusKinds == {"Pod", "PersistentVolumeClaim", "ReplicaSet", "StatefulSet", "Deployment"}

DeleteKinds == StatusKinds \cup {"ControllerRevision"}

UpdateKinds == DeleteKinds \cup {"ClusterRole"}

Kinds == UpdateKinds \cup {"ServiceAccount"}

ASSUME KindAssumption == KindOf \in [Keys -> Kinds]

\* The kinds whose create strategy starts metadata.generation at 1 and whose
\* update strategy advances it with the spec; the others leave it 0.
GenerationKinds == StatusKinds \ {"PersistentVolumeClaim"}

OrphanFinalizer     == "orphan"
ForegroundFinalizer == "foregroundDeletion"
GCFinalizers        == {OrphanFinalizer, ForegroundFinalizer}
PVCFinalizer        == "kubernetes.io/pvc-protection"
Finalizers          == UserFinalizers \cup GCFinalizers \cup {PVCFinalizer}

-----------------------------------------------------------------------------
(* A stored object.  deleting says DeletionTimestamp is set; grace is          *)
(* DeletionGracePeriodSeconds, 0 standing for nil too: no read of it tells     *)
(* the two apart.  Labels and owner references behave as finalizers do in a    *)
(* write (metadata, no effect on generation) and are not kept apart.           *)
Objects ==
  [uid : UIDs, rv : RVs, gen : Nat, spec : Specs, status : Statuses,
   fin : SUBSET Finalizers, deleting : BOOLEAN, grace : Nat]

Policies == {"unset", "Orphan", "Background", "Foreground"}

\* OrphanDependents = true and false act as the policies Orphan and Background;
\* a request with both fields is refused by validateDeleteOptions.
DeleteOptions ==
  [uid : UIDs \cup {NoUID}, rv : RVs \cup {NoRV},
   grace : GracePeriods \cup {NoGrace}, policy : Policies]

MainOps   == {"update", "updateTx"}
StatusOps == {"updateStatus", "updateStatusTx"}
UpdateOps == MainOps \cup StatusOps
DeleteOps == {"delete", "deleteTx"}
TxOps     == {"updateTx", "updateStatusTx", "deleteTx"}

\* A call in progress: the copy the client read, what it asks for, and in phase
\* "write" the version it will write against.
UpdateCalls ==
  [phase : {"read", "write"}, op : UpdateOps, key : Keys, copy : Objects,
   uid : UIDs \cup {NoUID}, rv : RVs \cup {NoRV},
   spec : Specs, status : Statuses, fin : SUBSET Finalizers]

DeleteCalls ==
  [phase : {"read", "write"}, op : DeleteOps, key : Keys, copy : Objects,
   opts : DeleteOptions]

\* The object of ObjectLifecycle that a stored object stands for.
LifecycleObjects == [uid : UIDs, terminating : BOOLEAN]

ASSUME TokenAssumption ==
  /\ Absent \notin Objects \cup LifecycleObjects
  /\ Idle \notin UpdateCalls \cup DeleteCalls

VARIABLES
  m,         \* the object stored under each key, or Absent
  usedUID,   \* every UID ever generated
  usedRV,    \* every resource version ever generated
  tx         \* the call each client has in progress, or Idle

vars == <<m, usedUID, usedRV, tx>>

TypeOK ==
  /\ m \in [Keys -> Objects \cup {Absent}]
  /\ usedUID \subseteq UIDs
  /\ usedRV \subseteq RVs
  /\ tx \in [Clients -> UpdateCalls \cup DeleteCalls \cup {Idle}]

Init ==
  /\ m = [k \in Keys |-> Absent]
  /\ usedUID = {}
  /\ usedRV = {}
  /\ tx = [c \in Clients |-> Idle]

-----------------------------------------------------------------------------
(* What the write pipelines do to an object. *)

\* Fault: only the UIDs of stored objects are avoided.
FreshUIDsFault == UIDs \ {m[k].uid : k \in {j \in Keys : m[j] # Absent}}

FreshUIDs == UIDs \ usedUID

FreshRVs == RVs \ usedRV

ValidFinalizers(fin) == ~(GCFinalizers \subseteq fin)

\* rest.BeforeUpdate: name, UID and deletion marks are immutable, and an object
\* being deleted may lose finalizers but not gain any.
ValidUpdate(old, new) ==
  /\ ValidFinalizers(new.fin)
  /\ old.deleting => new.fin \subseteq old.fin

\* Fault: an update clears the deletion mark it was not given.
MainUpdatedFault(k, old, req) ==
  [old EXCEPT !.spec = req.spec, !.fin = req.fin, !.deleting = FALSE, !.grace = 0]

\* The main endpoint keeps the stored status; a spec change advances generation.
MainUpdated(k, old, req) ==
  [old EXCEPT !.spec = req.spec,
              !.fin  = req.fin,
              !.gen  = IF KindOf[k] \in GenerationKinds /\ req.spec # old.spec
                       THEN @ + 1 ELSE @]

\* Fault: the status endpoint writes the spec of the caller's copy.
StatusUpdatedFault(old, req) ==
  [old EXCEPT !.status = req.status, !.spec = req.spec, !.fin = req.fin]

\* The status endpoint keeps the stored spec, but not the stored finalizers.
StatusUpdated(old, req) ==
  [old EXCEPT !.status = req.status, !.fin = req.fin]

ShouldDeleteDuringUpdate(new, old) ==
  new.fin = {} /\ old.deleting /\ old.grace = 0

Remove(k) ==
  /\ m' = [m EXCEPT ![k] = Absent]
  /\ UNCHANGED usedRV

\* Fault: a changed object is stored under its old version.
StoreFault(k, old, new) ==
  m' = [m EXCEPT ![k] = new] /\ UNCHANGED usedRV

\* A write that changes nothing is not written and keeps its version.
Store(k, old, new) ==
  \/ new = old /\ UNCHANGED <<m, usedRV>>
  \/ /\ new # old
     /\ \E rv \in FreshRVs :
          /\ m' = [m EXCEPT ![k] = [new EXCEPT !.rv = rv]]
          /\ usedRV' = usedRV \cup {rv}

Persist(k, old, new) ==
  IF ShouldDeleteDuringUpdate(new, old) THEN Remove(k) ELSE Store(k, old, new)

-----------------------------------------------------------------------------
(* Deletion. *)

\* validateDeletePreconditions: UID first, then version.
PreconditionsHold(obj, opts) ==
  /\ opts.uid \in {NoUID, obj.uid}
  /\ opts.rv \in {NoRV, obj.rv}

\* Fault: negative periods are taken as they come.
RequestedGraceFault(opts) == {opts.grace} \ {NoGrace}

\* The period a request asks for, if any; a negative one is treated as 1s.
RequestedGrace(opts) ==
  {IF g < 0 THEN 1 ELSE g : g \in {opts.grace} \ {NoGrace}}

\* Fault: a repeated delete sets its period even if it is the longer one.
EffectiveGraceFault(k, obj, opts) ==
  {0} \cup RequestedGrace(opts) \cup {DefaultGrace}

\* checkGracefulDelete: the periods the delete may end up with, none when an
\* earlier graceful deletion stays in charge.  A pod that is unscheduled or
\* finished goes at once; spec and status do not say which pods are.  When the
\* shorter period has already elapsed the code first records 1s, but delete
\* then stores the requested period over it, so only the timestamp differs.
EffectiveGrace(k, obj, opts) ==
  CASE obj.deleting /\ obj.grace = 0 -> {0}
    [] obj.deleting /\ obj.grace # 0 -> {g \in RequestedGrace(opts) : g < obj.grace}
    [] ~obj.deleting /\ KindOf[k] = "Pod" ->
         {0} \cup (IF opts.grace = NoGrace THEN {DefaultGrace} ELSE RequestedGrace(opts))
    [] ~obj.deleting /\ KindOf[k] # "Pod" -> {0}

\* The policy decides; without one, a finalizer already there does.
ShouldOrphanDependents(fin, policy) ==
  policy = "Orphan" \/ (policy = "unset" /\ OrphanFinalizer \in fin)

ShouldDeleteDependents(fin, policy) ==
  policy = "Foreground" \/ (policy = "unset" /\ ForegroundFinalizer \in fin)

DeletionFinalizers(fin, policy) ==
  (fin \ GCFinalizers)
    \cup {f \in {OrphanFinalizer} : ShouldOrphanDependents(fin, policy)}
    \cup {f \in {ForegroundFinalizer} : ShouldDeleteDependents(fin, policy)}

\* Only the first mark advances a tracked generation.
MarkedDeleting(obj, fin, grace) ==
  [obj EXCEPT !.fin      = fin,
              !.grace    = grace,
              !.deleting = TRUE,
              !.gen      = IF ~obj.deleting /\ @ > 0 THEN @ + 1 ELSE @]

\* Fault: whether the object may go is decided on the finalizers before they are
\* recomputed.
DeleteObjectFault(k, opts) ==
  \E grace \in EffectiveGrace(k, m[k], opts) :
    IF m[k].fin = {} /\ grace = 0
    THEN Remove(k)
    ELSE Store(k, m[k], MarkedDeleting(m[k], DeletionFinalizers(m[k].fin, opts.policy), grace))

\* delete, once the key was found and the preconditions hold.
DeleteObject(k, opts) ==
  \/ EffectiveGrace(k, m[k], opts) = {} /\ UNCHANGED <<m, usedRV>>
  \/ \E grace \in EffectiveGrace(k, m[k], opts) :
       LET fin == DeletionFinalizers(m[k].fin, opts.policy)
       IN  IF fin = {} /\ grace = 0
           THEN Remove(k)
           ELSE Store(k, m[k], MarkedDeleting(m[k], fin, grace))

-----------------------------------------------------------------------------
(* Calls that need no earlier read. *)

\* create: a UID is taken before the request is validated and before the key is
\* found to exist, so a refused create uses one up.  A generated name is an
\* absent key of the namespace, found under the same lock.
Create(k) ==
  /\ \E uid \in FreshUIDs, spec \in Specs, fin \in SUBSET UserFinalizers :
       /\ usedUID' = usedUID \cup {uid}
       /\ \/ UNCHANGED <<m, usedRV>>
          \/ /\ m[k] = Absent
             /\ \E rv \in FreshRVs :
                  /\ usedRV' = usedRV \cup {rv}
                  /\ m' = [m EXCEPT ![k] =
                       [uid |-> uid, rv |-> rv, spec |-> spec, status |-> CreatedStatus,
                        gen |-> IF KindOf[k] \in GenerationKinds THEN 1 ELSE 0,
                        fin |-> fin \cup {f \in {PVCFinalizer} : KindOf[k] = "PersistentVolumeClaim"},
                        deleting |-> FALSE, grace |-> 0]]
  /\ UNCHANGED tx

\* delete by a caller that names no UID and no version, as kubectl does.
Delete(k) ==
  /\ m[k] # Absent
  /\ KindOf[k] \in DeleteKinds
  /\ \E grace \in GracePeriods \cup {NoGrace}, policy \in Policies :
       DeleteObject(k, [uid |-> NoUID, rv |-> NoRV, grace |-> grace, policy |-> policy])
  /\ UNCHANGED <<usedUID, tx>>

\* What one write does to the finalizers of the object it starts from.
EditedFinalizers(fin) ==
  {fin} \cup {fin \ {f} : f \in fin} \cup {fin \cup {f} : f \in UserFinalizers}

\* patch: the change is applied to the live object under the lock.
Patch(k) ==
  /\ m[k] # Absent
  /\ \E spec \in Specs, status \in Statuses, fin \in EditedFinalizers(m[k].fin) :
       LET req == [spec |-> spec, status |-> status, fin |-> fin]
           new == MainUpdated(k, m[k], req)
           newStatus == StatusUpdated(m[k], req)
       IN  \/ ValidUpdate(m[k], new) /\ Persist(k, m[k], new)
           \/ /\ KindOf[k] \in StatusKinds
              /\ ValidUpdate(m[k], newStatus)
              /\ Persist(k, m[k], newStatus)
  /\ UNCHANGED <<usedUID, tx>>

-----------------------------------------------------------------------------
(* Calls a client makes from a copy. *)

\* A caller keeps or clears the copy's UID and, outside a transaction, its
\* version; a transaction will put in the live version itself.
BeginUpdate(c, k) ==
  /\ tx[c] = Idle
  /\ m[k] # Absent
  /\ \E op \in UpdateOps, uid \in {NoUID, m[k].uid}, rv \in {NoRV, m[k].rv},
        spec \in Specs, status \in Statuses, fin \in EditedFinalizers(m[k].fin) :
       /\ KindOf[k] \in IF op \in StatusOps THEN StatusKinds ELSE UpdateKinds
       /\ op \in TxOps => rv = NoRV
       /\ IF op \in StatusOps THEN spec = m[k].spec ELSE status = m[k].status
       /\ tx' = [tx EXCEPT ![c] =
            [phase |-> IF op \in TxOps THEN "read" ELSE "write", op |-> op, key |-> k,
             copy |-> m[k], uid |-> uid, rv |-> rv, spec |-> spec,
             status |-> status, fin |-> fin]]
  /\ UNCHANGED <<m, usedUID, usedRV>>

BeginDelete(c, k) ==
  /\ tx[c] = Idle
  /\ m[k] # Absent
  /\ KindOf[k] \in DeleteKinds
  /\ \E op \in DeleteOps, uid \in {NoUID, m[k].uid}, rv \in {NoRV, m[k].rv},
        grace \in GracePeriods \cup {NoGrace}, policy \in Policies :
       /\ op \in TxOps => rv = NoRV
       /\ tx' = [tx EXCEPT ![c] =
            [phase |-> IF op \in TxOps THEN "read" ELSE "write", op |-> op, key |-> k,
             copy |-> m[k],
             opts |-> [uid |-> uid, rv |-> rv, grace |-> grace, policy |-> policy]]]
  /\ UNCHANGED <<m, usedUID, usedRV>>

InPhase(c, phase, ops) ==
  tx[c] # Idle /\ tx[c].phase = phase /\ tx[c].op \in ops

Return(c) == tx' = [tx EXCEPT ![c] = Idle]

\* A conflict sends a transaction round its loop with the caller's object again.
Retry(c) ==
  tx' = [tx EXCEPT ![c] =
    IF @.op \in DeleteOps THEN [@ EXCEPT !.phase = "read", !.opts.rv = NoRV]
                          ELSE [@ EXCEPT !.phase = "read", !.rv = NoRV]]

\* updateTx and updateStatusTx, first half: stamp the live version on the object.
ReadForUpdate(c) ==
  /\ InPhase(c, "read", UpdateOps)
  /\ LET live == m[tx[c].key]
     IN  \/ live = Absent /\ Return(c)
         \/ /\ live # Absent
            /\ tx' = [tx EXCEPT ![c].phase = "write", ![c].rv = live.rv]
  /\ UNCHANGED <<m, usedUID, usedRV>>

\* Fault: deleteTx leaves the UID precondition to delete.
ReadForDeleteFault(c) ==
  /\ InPhase(c, "read", DeleteOps)
  /\ LET live == m[tx[c].key]
     IN  \/ live = Absent /\ Return(c)
         \/ /\ live # Absent
            /\ tx' = [tx EXCEPT ![c].phase = "write", ![c].opts.rv = live.rv]
  /\ UNCHANGED <<m, usedUID, usedRV>>

\* deleteTx, first half: a UID precondition that no longer holds ends the loop.
ReadForDelete(c) ==
  /\ InPhase(c, "read", DeleteOps)
  /\ LET live == m[tx[c].key]
         opts == tx[c].opts
     IN  \/ live = Absent /\ Return(c)
         \/ live # Absent /\ opts.uid \notin {NoUID, live.uid} /\ Return(c)
         \/ /\ live # Absent
            /\ opts.uid \in {NoUID, live.uid}
            /\ tx' = [tx EXCEPT ![c].phase = "write", ![c].opts.rv = live.rv]
  /\ UNCHANGED <<m, usedUID, usedRV>>

\* Faults: one of the two checks is missing.
UIDUncheckedFault(live, call) == call.rv \notin {NoRV, live.rv}
VersionUncheckedFault(live, call) == call.uid \notin {NoUID, live.uid}

\* The UID and version checks a PUT makes against the live object.
UpdateConflict(live, call) ==
  \/ call.uid \notin {NoUID, live.uid}
  \/ call.rv \notin {NoRV, live.rv}

ApplyUpdate(call) ==
  LET k    == call.key
      live == m[k]
      new  == IF call.op \in MainOps THEN MainUpdated(k, live, call)
                                     ELSE StatusUpdated(live, call)
  IN  ValidUpdate(live, new) /\ Persist(k, live, new)

\* A call that found no key or was refused by validation.
Fail(c) == Return(c) /\ UNCHANGED <<m, usedRV>>

WriteUpdate(c) ==
  /\ InPhase(c, "write", UpdateOps)
  /\ LET live == m[tx[c].key]
     IN  \/ live = Absent /\ Fail(c)
         \/ /\ live # Absent
            /\ UpdateConflict(live, tx[c])
            /\ IF tx[c].op \in TxOps THEN Retry(c) ELSE Return(c)
            /\ UNCHANGED <<m, usedRV>>
         \/ live # Absent /\ ~UpdateConflict(live, tx[c]) /\ Fail(c)
         \/ live # Absent /\ ~UpdateConflict(live, tx[c]) /\ ApplyUpdate(tx[c]) /\ Return(c)
  /\ UNCHANGED usedUID

WriteDelete(c) ==
  /\ InPhase(c, "write", DeleteOps)
  /\ LET live == m[tx[c].key]
         opts == tx[c].opts
     IN  \/ live = Absent /\ Fail(c)
         \/ /\ live # Absent
            /\ ~PreconditionsHold(live, opts)
            /\ IF tx[c].op \in TxOps THEN Retry(c) ELSE Return(c)
            /\ UNCHANGED <<m, usedRV>>
         \/ live # Absent /\ PreconditionsHold(live, opts) /\ DeleteObject(tx[c].key, opts) /\ Return(c)
  /\ UNCHANGED usedUID

Step(c) == ReadForUpdate(c) \/ ReadForDelete(c) \/ WriteUpdate(c) \/ WriteDelete(c)

Next ==
  \/ \E k \in Keys : Create(k) \/ Delete(k) \/ Patch(k)
  \/ \E c \in Clients, k \in Keys : BeginUpdate(c, k) \/ BeginDelete(c, k)
  \/ \E c \in Clients : Step(c)

Spec == Init /\ [][Next]_vars

\* A call in progress is a running goroutine: the scheduler lets it go on.
FairSpec == Spec /\ \A c \in Clients : WF_vars(Step(c))

-----------------------------------------------------------------------------
(* Properties. *)

Live(k) == m[k] # Absent

\* A resource version stands for one content: whenever the live object has the
\* version a client read, it is exactly what the client read.  Every write path
\* (update, status, patch, delete marks, finalizer changes) has to take a fresh
\* version, and a recreated object may not get an old one back.
VersionIdentifiesContent ==
  \A c \in Clients : tx[c] # Idle =>
    \A k \in Keys : Live(k) /\ m[k].rv = tx[c].copy.rv =>
      k = tx[c].key /\ m[k] = tx[c].copy

\* A generation stands for one spec of one object, so a controller that reports
\* the generation it acted on reports the spec it acted on.
GenerationIdentifiesSpec ==
  \A c \in Clients : tx[c] # Idle =>
    LET k == tx[c].key
    IN  Live(k) /\ m[k].uid = tx[c].copy.uid /\ KindOf[k] \in GenerationKinds =>
          /\ tx[c].copy.gen <= m[k].gen
          /\ tx[c].copy.gen = m[k].gen => m[k].spec = tx[c].copy.spec

\* One UID is bound to one key for ever, in the map and in every copy read from
\* it, however often the key is deleted and created again.
UIDNamesOneKey ==
  /\ \A j, k \in Keys : Live(j) /\ Live(k) /\ m[j].uid = m[k].uid => j = k
  /\ \A c \in Clients, k \in Keys :
       tx[c] # Idle /\ Live(k) /\ m[k].uid = tx[c].copy.uid => k = tx[c].key

\* Nothing lingers: an object marked for deletion is still waiting for a
\* finalizer or for its grace period.  Both update endpoints and every repeated
\* delete must notice when the last of these goes.
TerminatingObjectWaits ==
  \A k \in Keys : Live(k) /\ m[k].deleting => m[k].fin # {} \/ m[k].grace > 0

\* Deletion is never taken back: as long as the object exists it stays marked,
\* its grace period only shrinks, its generation does not go back, and it gains
\* no finalizer but those of garbage collection.
DeletionIsFinal ==
  [][\A k \in Keys :
       Live(k) /\ m[k].deleting /\ Live(k)' /\ m'[k].uid = m[k].uid =>
         /\ m'[k].deleting
         /\ m'[k].grace <= m[k].grace
         /\ m'[k].gen >= m[k].gen
         /\ m'[k].fin \ m[k].fin \subseteq GCFinalizers]_vars

\* A call that names the UID it read leaves a successor under the same name alone.
SuccessorUntouched ==
  [][\A c \in Clients :
       /\ InPhase(c, "write", UpdateOps \cup DeleteOps)
       /\ tx'[c] # tx[c]
       /\ m[tx[c].key] # Absent
       /\ m[tx[c].key].uid # tx[c].copy.uid
       /\ (IF tx[c].op \in DeleteOps THEN tx[c].opts.uid ELSE tx[c].uid) # NoUID
       => m' = m]_vars

\* A plain update that names a version overwrites just what its client read: no
\* other client's write is lost.  (A transaction gives no such promise: it
\* stamps the live version on an old copy.)
NoLostUpdate ==
  [][\A c \in Clients :
       /\ InPhase(c, "write", {"update", "updateStatus"})
       /\ tx[c].rv # NoRV
       /\ tx'[c] # tx[c]
       /\ m' # m
       => m[tx[c].key] = tx[c].copy]_vars

\* The API model implements the lifecycle of ObjectLifecycle: its versions,
\* finalizers, grace periods and transactions never make an object return, lose
\* its deletion mark or change its UID.
Lifecycle == INSTANCE ObjectLifecycle WITH
  Gone   <- Absent,
  object <- [k \in Keys |-> IF m[k] = Absent THEN Absent
                            ELSE [uid |-> m[k].uid, terminating |-> m[k].deleting]],
  used   <- usedUID

LifecycleSpec == Lifecycle!Spec

InTx(c) == InPhase(c, "read", TxOps) \/ InPhase(c, "write", TxOps)

\* The caller's object names a UID that is no longer the one under its key.
Replaced(c) ==
  /\ tx[c] # Idle
  /\ tx[c].op \in UpdateOps
  /\ Live(tx[c].key)
  /\ tx[c].uid \notin {NoUID, m[tx[c].key].uid}

\* A transaction ends: some attempt is not overtaken by another writer.  A
\* deleteTx ends even if its object is replaced, since it compares the UID
\* itself; the others are promised to end only while the object is not replaced.
TxReturns ==
  \A c \in Clients : InTx(c) ~> (tx[c] = Idle \/ Replaced(c))

\* What "retries resource-version conflicts" says of the update transactions: a
\* call comes back, with an error if its object was replaced.  It does not: the
\* UID mismatch of the replaced object is a Conflict too and is retried for ever.
UpdateTxReturns ==
  \A c \in Clients : InTx(c) ~> tx[c] = Idle
=============================================================================
