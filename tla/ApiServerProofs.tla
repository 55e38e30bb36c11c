--------------------------- MODULE ApiServerProofs ---------------------------
(***************************************************************************)
(* Proofs about ApiServer, for any sets of clients, keys, UIDs, versions,  *)
(* specs, statuses and finalizers.                                         *)
(*                                                                         *)
(* A step of the model is described twice, by what it does to the map      *)
(* (MapStep) and by what it does to the calls in progress (TxStep).  The   *)
(* two lemmas that derive these from Next are the only place where the     *)
(* actions are opened; every invariant is proved from them.                *)
(***************************************************************************)
EXTENDS ApiServer, TLAPS

\* One legal change of an object: what every write path has in common.
Revises(k, old, new) ==
  /\ new.uid = old.uid
  /\ old.gen <= new.gen
  /\ KindOf[k] \in GenerationKinds /\ new.gen = old.gen => new.spec = old.spec
  /\ new.deleting => new.fin # {} \/ new.grace > 0
  /\ old.deleting => /\ new.deleting
                     /\ new.grace <= old.grace
                     /\ new.fin \ old.fin \subseteq GCFinalizers

Removed(k) ==
  /\ m[k] # Absent
  /\ m' = [m EXCEPT ![k] = Absent]
  /\ usedRV' = usedRV

Rewritten(k) ==
  /\ m[k] # Absent
  /\ \E new \in Objects :
       /\ Revises(k, m[k], new)
       /\ new.rv \in FreshRVs
       /\ m' = [m EXCEPT ![k] = new]
       /\ usedRV' = usedRV \cup {new.rv}

Quiet == UNCHANGED <<m, usedRV>>

Created(k) ==
  /\ m[k] = Absent
  /\ \E new \in Objects :
       /\ new.uid \in FreshUIDs
       /\ new.rv \in FreshRVs
       /\ ~new.deleting
       /\ m' = [m EXCEPT ![k] = new]
       /\ usedRV' = usedRV \cup {new.rv}
       /\ usedUID' = usedUID \cup {new.uid}

MapStep ==
  \/ Quiet /\ usedUID' = usedUID
  \/ Quiet /\ \E uid \in FreshUIDs : usedUID' = usedUID \cup {uid}
  \/ \E k \in Keys : Created(k)
  \/ \E k \in Keys : (Removed(k) \/ Rewritten(k)) /\ usedUID' = usedUID

\* A call keeps its copy and key until it returns, and a new one has read the map.
TxStep ==
  \A c \in Clients :
    \/ tx'[c] = tx[c]
    \/ tx'[c] = Idle
    \/ /\ tx[c] # Idle
       /\ tx'[c].key = tx[c].key
       /\ tx'[c].copy = tx[c].copy
       /\ m' = m
    \/ /\ \E k \in Keys : m[k] # Absent /\ tx'[c].key = k /\ tx'[c].copy = m[k]
       /\ m' = m

TxTypeOK == tx \in [Clients -> UpdateCalls \cup DeleteCalls \cup {Idle}]

-----------------------------------------------------------------------------
(* What the write paths do to an object. *)

\* The fields an update request must have for the write pipelines.
Requests(r) == r.spec \in Specs /\ r.status \in Statuses /\ r.fin \subseteq Finalizers

\* A main-endpoint update that does not remove the object revises it.
LEMMA MainRevises ==
  ASSUME NEW k \in Keys, NEW old \in Objects, NEW req, Requests(req),
         ValidUpdate(old, MainUpdated(k, old, req)),
         ~ShouldDeleteDuringUpdate(MainUpdated(k, old, req), old)
  PROVE  /\ MainUpdated(k, old, req) \in Objects
         /\ Revises(k, old, MainUpdated(k, old, req))
<1> DEFINE gen == IF KindOf[k] \in GenerationKinds /\ req.spec # old.spec
                  THEN old.gen + 1 ELSE old.gen
           new == [old EXCEPT !.spec = req.spec, !.fin = req.fin, !.gen = gen]
<1>1. MainUpdated(k, old, req) = new
  BY DEF MainUpdated
<1>2. /\ gen \in Nat /\ old.gen <= gen
      /\ KindOf[k] \in GenerationKinds /\ gen = old.gen => req.spec = old.spec
  BY DEF Objects
<1> HIDE DEF gen
<1>3. /\ new \in Objects
      /\ new.uid = old.uid /\ new.gen = gen /\ new.spec = req.spec /\ new.fin = req.fin
      /\ new.deleting = old.deleting /\ new.grace = old.grace
  BY <1>2 DEF Requests, Objects
<1> HIDE DEF new
<1>4. /\ old.deleting => new.fin \subseteq old.fin
      /\ ~(new.fin = {} /\ old.deleting /\ old.grace = 0)
  BY <1>1 DEF ValidUpdate, ShouldDeleteDuringUpdate
<1>5. old.grace \in Nat
  BY DEF Objects
<1> QED BY <1>1, <1>2, <1>3, <1>4, <1>5 DEF Revises

\* A status update that does not remove the object revises it.
LEMMA StatusRevises ==
  ASSUME NEW k \in Keys, NEW old \in Objects, NEW req, Requests(req),
         ValidUpdate(old, StatusUpdated(old, req)),
         ~ShouldDeleteDuringUpdate(StatusUpdated(old, req), old)
  PROVE  /\ StatusUpdated(old, req) \in Objects
         /\ Revises(k, old, StatusUpdated(old, req))
<1> DEFINE new == [old EXCEPT !.status = req.status, !.fin = req.fin]
<1>1. StatusUpdated(old, req) = new
  BY DEF StatusUpdated
<1>2. /\ new \in Objects
      /\ new.uid = old.uid /\ new.gen = old.gen /\ new.spec = old.spec /\ new.fin = req.fin
      /\ new.deleting = old.deleting /\ new.grace = old.grace
  BY DEF Requests, Objects
<1> HIDE DEF new
<1>3. /\ old.deleting => new.fin \subseteq old.fin
      /\ ~(new.fin = {} /\ old.deleting /\ old.grace = 0)
  BY <1>1 DEF ValidUpdate, ShouldDeleteDuringUpdate
<1>4. old.grace \in Nat /\ old.gen \in Nat
  BY DEF Objects
<1> QED BY <1>1, <1>2, <1>3, <1>4 DEF Revises

\* A delete ends with a period that is natural and, on an object already being
\* deleted, no longer than the one it has.
LEMMA GraceBound ==
  ASSUME NEW k \in Keys, NEW obj \in Objects, NEW opts \in DeleteOptions,
         NEW grace \in EffectiveGrace(k, obj, opts)
  PROVE  grace \in Nat /\ (obj.deleting => grace <= obj.grace)
<1>1. \A g \in RequestedGrace(opts) : g \in Nat
  <2>1. opts.grace \in GracePeriods \cup {NoGrace}
    BY DEF DeleteOptions
  <2>2. \A g \in {opts.grace} \ {NoGrace} : g \in Int
    BY <2>1, GraceAssumption
  <2>3. \A g \in Int : (IF g < 0 THEN 1 ELSE g) \in Nat
    OBVIOUS
  <2> QED BY <2>2, <2>3 DEF RequestedGrace
<1>2. obj.grace \in Nat /\ obj.deleting \in BOOLEAN
  BY DEF Objects
<1>3. CASE obj.deleting /\ obj.grace = 0
  BY <1>2, <1>3 DEF EffectiveGrace
<1>4. CASE obj.deleting /\ obj.grace # 0
  BY <1>1, <1>2, <1>4 DEF EffectiveGrace
<1>5. CASE ~obj.deleting /\ KindOf[k] = "Pod"
  BY <1>1, <1>2, <1>5, GraceAssumption DEF EffectiveGrace
<1>6. CASE ~obj.deleting /\ KindOf[k] # "Pod"
  BY <1>2, <1>6 DEF EffectiveGrace
<1> QED BY <1>2, <1>3, <1>4, <1>5, <1>6

\* Garbage collection adds none but its own finalizers.
LEMMA DeletionFinalizersType ==
  ASSUME NEW fin \in SUBSET Finalizers, NEW policy
  PROVE  /\ DeletionFinalizers(fin, policy) \subseteq Finalizers
         /\ DeletionFinalizers(fin, policy) \ fin \subseteq GCFinalizers
  BY DEF DeletionFinalizers, Finalizers, GCFinalizers

\* Marking an object for deletion revises it, unless it should go at once.
LEMMA MarkRevises ==
  ASSUME NEW k \in Keys, NEW old \in Objects, NEW grace \in Nat, NEW fin \in SUBSET Finalizers,
         ~(fin = {} /\ grace = 0),
         old.deleting => grace <= old.grace,
         fin \ old.fin \subseteq GCFinalizers
  PROVE  /\ MarkedDeleting(old, fin, grace) \in Objects
         /\ Revises(k, old, MarkedDeleting(old, fin, grace))
<1> DEFINE gen == IF ~old.deleting /\ old.gen > 0 THEN old.gen + 1 ELSE old.gen
           new == [old EXCEPT !.fin = fin, !.grace = grace, !.deleting = TRUE, !.gen = gen]
<1>1. MarkedDeleting(old, fin, grace) = new
  BY DEF MarkedDeleting
<1>2. gen \in Nat /\ old.gen <= gen
  BY DEF Objects
<1> HIDE DEF gen
<1>3. /\ new \in Objects
      /\ new.uid = old.uid /\ new.gen = gen /\ new.spec = old.spec /\ new.fin = fin
      /\ new.deleting /\ new.grace = grace
  BY <1>2 DEF Objects
<1> HIDE DEF new
<1> QED BY <1>1, <1>2, <1>3 DEF Revises

-----------------------------------------------------------------------------
(* From the write paths to MapStep. *)

\* Storing a revision of the live object rewrites it under a fresh version, or
\* changes nothing.
LEMMA StoreStep ==
  ASSUME TypeOK, NEW k \in Keys, m[k] # Absent, NEW new \in Objects,
         Revises(k, m[k], new), Store(k, m[k], new)
  PROVE  Quiet \/ Rewritten(k)
<1>1. CASE UNCHANGED <<m, usedRV>>
  BY <1>1 DEF Quiet
<1>2. CASE \E rv \in FreshRVs :
             /\ m' = [m EXCEPT ![k] = [new EXCEPT !.rv = rv]]
             /\ usedRV' = usedRV \cup {rv}
  <2>1. PICK rv \in FreshRVs :
             /\ m' = [m EXCEPT ![k] = [new EXCEPT !.rv = rv]]
             /\ usedRV' = usedRV \cup {rv}
    BY <1>2
  <2> DEFINE new2 == [new EXCEPT !.rv = rv]
  <2>2. new2 \in Objects /\ new2.rv = rv
    BY <2>1 DEF Objects, FreshRVs
  <2>3. Revises(k, m[k], new2)
    BY DEF Revises, Objects
  <2> HIDE DEF new2
  <2>4. m' = [m EXCEPT ![k] = new2]
    BY <2>1 DEF new2
  <2> QED BY <2>1, <2>2, <2>3, <2>4 DEF Rewritten
<1> QED BY <1>1, <1>2 DEF Store

\* delete removes, rewrites or leaves the live object.
LEMMA DeleteStep ==
  ASSUME TypeOK, NEW k \in Keys, m[k] # Absent, NEW opts \in DeleteOptions,
         DeleteObject(k, opts)
  PROVE  Quiet \/ Removed(k) \/ Rewritten(k)
<1>1. m[k] \in Objects
  BY DEF TypeOK
<1>2. CASE UNCHANGED <<m, usedRV>>
  BY <1>2 DEF Quiet
<1>3. CASE \E grace \in EffectiveGrace(k, m[k], opts) :
             LET fin == DeletionFinalizers(m[k].fin, opts.policy)
             IN  IF fin = {} /\ grace = 0
                 THEN Remove(k)
                 ELSE Store(k, m[k], MarkedDeleting(m[k], fin, grace))
  <2> DEFINE fin == DeletionFinalizers(m[k].fin, opts.policy)
  <2>1. PICK grace \in EffectiveGrace(k, m[k], opts) :
             IF fin = {} /\ grace = 0
             THEN Remove(k)
             ELSE Store(k, m[k], MarkedDeleting(m[k], fin, grace))
    BY <1>3
  <2>2. grace \in Nat /\ (m[k].deleting => grace <= m[k].grace)
    BY <1>1, GraceBound
  <2>3. m[k].fin \in SUBSET Finalizers
    BY <1>1 DEF Objects
  <2>4. fin \in SUBSET Finalizers /\ fin \ m[k].fin \subseteq GCFinalizers
    BY <2>3, DeletionFinalizersType
  <2> HIDE DEF fin
  <2>5. CASE fin = {} /\ grace = 0
    BY <2>1, <2>5 DEF Remove, Removed
  <2>6. CASE ~(fin = {} /\ grace = 0)
    <3>1. /\ MarkedDeleting(m[k], fin, grace) \in Objects
          /\ Revises(k, m[k], MarkedDeleting(m[k], fin, grace))
      BY <1>1, <2>2, <2>4, <2>6, MarkRevises
    <3>2. Store(k, m[k], MarkedDeleting(m[k], fin, grace))
      BY <2>1, <2>6
    <3> QED BY <3>1, <3>2, StoreStep
  <2> QED BY <2>5, <2>6
<1> QED BY <1>2, <1>3 DEF DeleteObject

\* Both update endpoints remove, rewrite or leave the live object.
LEMMA UpdateStep ==
  ASSUME TypeOK, NEW k \in Keys, m[k] # Absent, NEW req, Requests(req), NEW new,
         new = MainUpdated(k, m[k], req) \/ new = StatusUpdated(m[k], req),
         ValidUpdate(m[k], new), Persist(k, m[k], new)
  PROVE  Quiet \/ Removed(k) \/ Rewritten(k)
<1>1. m[k] \in Objects
  BY DEF TypeOK
<1>2. CASE ShouldDeleteDuringUpdate(new, m[k])
  BY <1>2 DEF Persist, Remove, Removed
<1>3. CASE ~ShouldDeleteDuringUpdate(new, m[k])
  <2>1. new \in Objects /\ Revises(k, m[k], new)
    BY <1>1, <1>3, MainRevises, StatusRevises
  <2>2. Store(k, m[k], new)
    BY <1>3 DEF Persist
  <2> QED BY <2>1, <2>2, StoreStep
<1> QED BY <1>2, <1>3

\* create leaves the map or binds an absent key to a new object.
LEMMA CreateStep ==
  ASSUME TypeOK, NEW k \in Keys, Create(k)
  PROVE  MapStep
<1>1. PICK uid \in FreshUIDs, spec \in Specs, fin \in SUBSET UserFinalizers :
       /\ usedUID' = usedUID \cup {uid}
       /\ \/ UNCHANGED <<m, usedRV>>
          \/ /\ m[k] = Absent
             /\ \E rv \in FreshRVs :
                  /\ usedRV' = usedRV \cup {rv}
                  /\ m' = [m EXCEPT ![k] =
                       [uid |-> uid, rv |-> rv, spec |-> spec, status |-> CreatedStatus,
                        gen |-> IF KindOf[k] \in GenerationKinds THEN 1 ELSE 0,
                        fin |-> fin \cup {f \in {PVCFinalizer} : KindOf[k] = "PersistentVolumeClaim"},
                        deleting |-> FALSE, grace |-> 0]]
  BY DEF Create
<1>2. CASE UNCHANGED <<m, usedRV>>
  BY <1>1, <1>2 DEF MapStep, Quiet
<1>3. CASE ~UNCHANGED <<m, usedRV>>
  <2> DEFINE fins == fin \cup {f \in {PVCFinalizer} : KindOf[k] = "PersistentVolumeClaim"}
             gen == IF KindOf[k] \in GenerationKinds THEN 1 ELSE 0
             new(rv) == [uid |-> uid, rv |-> rv, spec |-> spec, status |-> CreatedStatus,
                         gen |-> gen, fin |-> fins, deleting |-> FALSE, grace |-> 0]
  <2>1. PICK rv \in FreshRVs :
          usedRV' = usedRV \cup {rv} /\ m' = [m EXCEPT ![k] = new(rv)]
    BY <1>1, <1>3
  <2>2. fins \subseteq Finalizers /\ gen \in Nat
    BY DEF Finalizers
  <2> HIDE DEF fins, gen
  <2>3. /\ new(rv) \in Objects
        /\ new(rv).uid = uid /\ new(rv).rv = rv /\ ~new(rv).deleting
    BY <1>1, <2>1, <2>2, StatusAssumption DEF Objects, FreshUIDs, FreshRVs
  <2> HIDE DEF new
  <2>4. m[k] = Absent
    BY <1>1, <1>3
  <2>5. Created(k)
    BY <1>1, <2>1, <2>3, <2>4 DEF Created
  <2> QED BY <2>5 DEF MapStep
<1> QED BY <1>2, <1>3

\* The options delete is called with in the absence of preconditions are options.
LEMMA PlainDeleteStep ==
  ASSUME TypeOK, NEW k \in Keys, Delete(k)
  PROVE  MapStep
<1>1. m[k] # Absent /\ usedUID' = usedUID
  BY DEF Delete
<1>2. PICK grace \in GracePeriods \cup {NoGrace}, policy \in Policies :
        DeleteObject(k, [uid |-> NoUID, rv |-> NoRV, grace |-> grace, policy |-> policy])
  BY DEF Delete
<1>3. [uid |-> NoUID, rv |-> NoRV, grace |-> grace, policy |-> policy] \in DeleteOptions
  BY DEF DeleteOptions
<1>4. Quiet \/ Removed(k) \/ Rewritten(k)
  BY <1>1, <1>2, <1>3, DeleteStep
<1> QED BY <1>1, <1>4 DEF MapStep

\* A write changes a finalizer list within the finalizers.
LEMMA EditedFinalizersType ==
  ASSUME NEW fin \in SUBSET Finalizers
  PROVE  EditedFinalizers(fin) \subseteq SUBSET Finalizers
  BY DEF EditedFinalizers, Finalizers

LEMMA PatchStep ==
  ASSUME TypeOK, NEW k \in Keys, Patch(k)
  PROVE  MapStep
<1>1. m[k] # Absent /\ usedUID' = usedUID
  BY DEF Patch
<1>2. PICK spec \in Specs, status \in Statuses, fin \in EditedFinalizers(m[k].fin) :
       LET req == [spec |-> spec, status |-> status, fin |-> fin]
           new == MainUpdated(k, m[k], req)
           newStatus == StatusUpdated(m[k], req)
       IN  \/ ValidUpdate(m[k], new) /\ Persist(k, m[k], new)
           \/ /\ KindOf[k] \in StatusKinds
              /\ ValidUpdate(m[k], newStatus)
              /\ Persist(k, m[k], newStatus)
  BY DEF Patch
<1> DEFINE req == [spec |-> spec, status |-> status, fin |-> fin]
<1>3. m[k].fin \in SUBSET Finalizers
  BY <1>1 DEF TypeOK, Objects
<1>4. Requests(req)
  BY <1>2, <1>3, EditedFinalizersType DEF Requests
<1> HIDE DEF req
<1>5. PICK new : /\ new = MainUpdated(k, m[k], req) \/ new = StatusUpdated(m[k], req)
                 /\ ValidUpdate(m[k], new)
                 /\ Persist(k, m[k], new)
  BY <1>2 DEF req
<1>6. Quiet \/ Removed(k) \/ Rewritten(k)
  BY <1>1, <1>4, <1>5, UpdateStep
<1> QED BY <1>1, <1>6 DEF MapStep

\* A call in progress is an update or a delete, as its operation says.
LEMMA CallType ==
  ASSUME TxTypeOK, NEW c \in Clients, tx[c] # Idle
  PROVE  /\ tx[c].key \in Keys /\ tx[c].copy \in Objects
         /\ tx[c].op \in UpdateOps => tx[c] \in UpdateCalls /\ Requests(tx[c])
         /\ tx[c].op \in DeleteOps => tx[c] \in DeleteCalls /\ tx[c].opts \in DeleteOptions
  BY DEF TxTypeOK, UpdateCalls, DeleteCalls, Requests,
         UpdateOps, MainOps, StatusOps, DeleteOps

LEMMA WriteUpdateStep ==
  ASSUME TypeOK, NEW c \in Clients, WriteUpdate(c)
  PROVE  MapStep
<1> DEFINE call == tx[c]
           k == call.key
<1>1. tx[c] # Idle /\ call.op \in UpdateOps
  BY DEF WriteUpdate, InPhase
<1>2. k \in Keys /\ Requests(call)
  BY <1>1, CallType DEF TypeOK, TxTypeOK
<1>3. usedUID' = usedUID
  BY DEF WriteUpdate
<1>4. CASE UNCHANGED <<m, usedRV>>
  BY <1>3, <1>4 DEF MapStep, Quiet
<1>5. CASE m[k] # Absent /\ ApplyUpdate(call)
  <2> DEFINE new == IF call.op \in MainOps THEN MainUpdated(k, m[k], call)
                                           ELSE StatusUpdated(m[k], call)
  <2>1. ValidUpdate(m[k], new) /\ Persist(k, m[k], new)
    BY <1>5 DEF ApplyUpdate
  <2>2. new = MainUpdated(k, m[k], call) \/ new = StatusUpdated(m[k], call)
    OBVIOUS
  <2> HIDE DEF new, call
  <2>3. Quiet \/ Removed(k) \/ Rewritten(k)
    BY <1>2, <1>5, <2>1, <2>2, UpdateStep
  <2> QED BY <1>2, <1>3, <2>3 DEF MapStep
<1> QED BY <1>4, <1>5 DEF WriteUpdate, Fail

LEMMA WriteDeleteStep ==
  ASSUME TypeOK, NEW c \in Clients, WriteDelete(c)
  PROVE  MapStep
<1> DEFINE k == tx[c].key
           opts == tx[c].opts
<1>1. tx[c] # Idle /\ tx[c].op \in DeleteOps
  BY DEF WriteDelete, InPhase
<1>2. k \in Keys /\ opts \in DeleteOptions
  BY <1>1, CallType DEF TypeOK, TxTypeOK
<1>3. usedUID' = usedUID
  BY DEF WriteDelete
<1>4. CASE UNCHANGED <<m, usedRV>>
  BY <1>3, <1>4 DEF MapStep, Quiet
<1>5. CASE m[k] # Absent /\ DeleteObject(k, opts)
  <2>1. Quiet \/ Removed(k) \/ Rewritten(k)
    BY <1>2, <1>5, DeleteStep
  <2> QED BY <1>2, <1>3, <2>1 DEF MapStep
<1> QED BY <1>4, <1>5 DEF WriteDelete, Fail

\* Every step changes at most one key of the map, in one of three ways.
LEMMA MapChanges ==
  ASSUME TypeOK, Next
  PROVE  MapStep
<1>1. ASSUME NEW k \in Keys, Create(k) PROVE MapStep
  BY <1>1, CreateStep
<1>2. ASSUME NEW k \in Keys, Delete(k) PROVE MapStep
  BY <1>2, PlainDeleteStep
<1>3. ASSUME NEW k \in Keys, Patch(k) PROVE MapStep
  BY <1>3, PatchStep
<1>4. ASSUME NEW c \in Clients, NEW k \in Keys, BeginUpdate(c, k) \/ BeginDelete(c, k)
      PROVE  MapStep
  BY <1>4 DEF BeginUpdate, BeginDelete, MapStep, Quiet
<1>5. ASSUME NEW c \in Clients, ReadForUpdate(c) \/ ReadForDelete(c) PROVE MapStep
  BY <1>5 DEF ReadForUpdate, ReadForDelete, MapStep, Quiet
<1>6. ASSUME NEW c \in Clients, WriteUpdate(c) PROVE MapStep
  BY <1>6, WriteUpdateStep
<1>7. ASSUME NEW c \in Clients, WriteDelete(c) PROVE MapStep
  BY <1>7, WriteDeleteStep
<1> QED BY <1>1, <1>2, <1>3, <1>4, <1>5, <1>6, <1>7 DEF Next, Step

-----------------------------------------------------------------------------
(* From the clients' steps to TxStep. *)

\* One client's call changes; the lemmas say how, for each kind of step.
OnlyCall(c, call) == tx' = [tx EXCEPT ![c] = call]

LEMMA BeginUpdateTx ==
  ASSUME TypeOK, NEW c \in Clients, NEW k \in Keys, BeginUpdate(c, k)
  PROVE  \E call \in UpdateCalls :
           /\ OnlyCall(c, call) /\ call.key = k /\ call.copy = m[k] /\ m[k] # Absent /\ m' = m
<1>1. m[k] # Absent /\ m' = m /\ m[k] \in Objects
  BY DEF BeginUpdate, TypeOK
<1>2. PICK op \in UpdateOps, uid \in {NoUID, m[k].uid}, rv \in {NoRV, m[k].rv},
        spec \in Specs, status \in Statuses, fin \in EditedFinalizers(m[k].fin) :
        /\ KindOf[k] \in IF op \in StatusOps THEN StatusKinds ELSE UpdateKinds
        /\ op \in TxOps => rv = NoRV
        /\ IF op \in StatusOps THEN spec = m[k].spec ELSE status = m[k].status
        /\ tx' = [tx EXCEPT ![c] =
             [phase |-> IF op \in TxOps THEN "read" ELSE "write", op |-> op, key |-> k,
              copy |-> m[k], uid |-> uid, rv |-> rv, spec |-> spec,
              status |-> status, fin |-> fin]]
  BY Zenon DEF BeginUpdate
<1> DEFINE phase == IF op \in TxOps THEN "read" ELSE "write"
           call == [phase |-> phase, op |-> op, key |-> k,
                    copy |-> m[k], uid |-> uid, rv |-> rv, spec |-> spec,
                    status |-> status, fin |-> fin]
<1>3. phase \in {"read", "write"}
  OBVIOUS
<1>4. m[k].fin \in SUBSET Finalizers /\ m[k].uid \in UIDs /\ m[k].rv \in RVs
  BY <1>1 DEF Objects
<1>5. fin \in SUBSET Finalizers
  BY <1>4, EditedFinalizersType
<1>6. OnlyCall(c, call)
  BY <1>2 DEF OnlyCall
<1> HIDE DEF phase
<1>7. call \in UpdateCalls /\ call.key = k /\ call.copy = m[k]
  BY <1>1, <1>3, <1>4, <1>5 DEF UpdateCalls
<1> QED BY <1>1, <1>6, <1>7

LEMMA BeginDeleteTx ==
  ASSUME TypeOK, NEW c \in Clients, NEW k \in Keys, BeginDelete(c, k)
  PROVE  \E call \in DeleteCalls :
           /\ OnlyCall(c, call) /\ call.key = k /\ call.copy = m[k] /\ m[k] # Absent /\ m' = m
<1>1. m[k] # Absent /\ m' = m /\ m[k] \in Objects
  BY DEF BeginDelete, TypeOK
<1>2. PICK op \in DeleteOps, uid \in {NoUID, m[k].uid}, rv \in {NoRV, m[k].rv},
        grace \in GracePeriods \cup {NoGrace}, policy \in Policies :
        OnlyCall(c, [phase |-> IF op \in TxOps THEN "read" ELSE "write", op |-> op, key |-> k,
                     copy |-> m[k],
                     opts |-> [uid |-> uid, rv |-> rv, grace |-> grace, policy |-> policy]])
  BY DEF BeginDelete, OnlyCall
<1> DEFINE phase == IF op \in TxOps THEN "read" ELSE "write"
           opts == [uid |-> uid, rv |-> rv, grace |-> grace, policy |-> policy]
           call == [phase |-> phase, op |-> op, key |-> k, copy |-> m[k], opts |-> opts]
<1>3. phase \in {"read", "write"}
  OBVIOUS
<1>4. m[k].uid \in UIDs /\ m[k].rv \in RVs
  BY <1>1 DEF Objects
<1>5. opts \in DeleteOptions
  BY <1>4 DEF DeleteOptions
<1>6. OnlyCall(c, call)
  BY <1>2
<1> HIDE DEF phase, opts
<1>7. call \in DeleteCalls /\ call.key = k /\ call.copy = m[k]
  BY <1>1, <1>3, <1>5 DEF DeleteCalls
<1> QED BY <1>1, <1>6, <1>7

\* Changing the phase and the version of an update call keeps it one.
LEMMA UpdateCallKept ==
  ASSUME NEW call \in UpdateCalls, NEW phase \in {"read", "write"}, NEW rv \in RVs \cup {NoRV}
  PROVE  LET new == [call EXCEPT !.phase = phase, !.rv = rv]
         IN  new \in UpdateCalls /\ new.key = call.key /\ new.copy = call.copy
  BY DEF UpdateCalls

LEMMA DeleteCallKept ==
  ASSUME NEW call \in DeleteCalls, NEW phase \in {"read", "write"}, NEW rv \in RVs \cup {NoRV}
  PROVE  LET new == [call EXCEPT !.phase = phase, !.opts.rv = rv]
         IN  new \in DeleteCalls /\ new.key = call.key /\ new.copy = call.copy
<1>1. [call.opts EXCEPT !.rv = rv] \in DeleteOptions
  BY DEF DeleteCalls, DeleteOptions
<1> QED BY <1>1 DEF DeleteCalls

Calls == UpdateCalls \cup DeleteCalls

\* A call that goes on keeps its key and its copy.
Continues(c) ==
  /\ tx[c] # Idle
  /\ \E call \in Calls :
       OnlyCall(c, call) /\ call.key = tx[c].key /\ call.copy = tx[c].copy

LEMMA RetryContinues ==
  ASSUME TypeOK, NEW c \in Clients, tx[c] # Idle, Retry(c)
  PROVE  Continues(c)
<1>1. tx[c] \in Calls
  BY DEF TypeOK, Calls
<1>2. CASE tx[c].op \in DeleteOps
  <2>1. tx[c] \in DeleteCalls
    BY <1>2, CallType DEF TypeOK, TxTypeOK
  <2> DEFINE new == [tx[c] EXCEPT !.phase = "read", !.opts.rv = NoRV]
  <2>2. OnlyCall(c, new)
    BY <1>2 DEF Retry, OnlyCall
  <2>3. new \in DeleteCalls /\ new.key = tx[c].key /\ new.copy = tx[c].copy
    BY <2>1, DeleteCallKept
  <2> QED BY <2>2, <2>3 DEF Continues, Calls
<1>3. CASE tx[c].op \notin DeleteOps
  <2>1. tx[c] \in UpdateCalls
    BY <1>1, <1>3 DEF Calls, DeleteCalls
  <2> DEFINE new == [tx[c] EXCEPT !.phase = "read", !.rv = NoRV]
  <2>2. OnlyCall(c, new)
    BY <1>3 DEF Retry, OnlyCall
  <2>3. new \in UpdateCalls /\ new.key = tx[c].key /\ new.copy = tx[c].copy
    BY <2>1, UpdateCallKept
  <2> QED BY <2>2, <2>3 DEF Continues, Calls
<1> QED BY <1>2, <1>3

LEMMA ReadForUpdateTx ==
  ASSUME TypeOK, NEW c \in Clients, ReadForUpdate(c)
  PROVE  m' = m /\ (Return(c) \/ Continues(c))
<1>1. tx[c] # Idle /\ tx[c].op \in UpdateOps /\ m' = m
  BY DEF ReadForUpdate, InPhase
<1>2. tx[c] \in UpdateCalls /\ tx[c].key \in Keys
  BY <1>1, CallType DEF TypeOK, TxTypeOK
<1> DEFINE live == m[tx[c].key]
<1>3. CASE live # Absent /\ tx' = [tx EXCEPT ![c].phase = "write", ![c].rv = live.rv]
  <2> DEFINE new == [tx[c] EXCEPT !.phase = "write", !.rv = live.rv]
  <2>1. live.rv \in RVs
    BY <1>2, <1>3 DEF TypeOK, Objects
  <2>2. OnlyCall(c, new)
    BY <1>3 DEF OnlyCall
  <2>3. new \in UpdateCalls /\ new.key = tx[c].key /\ new.copy = tx[c].copy
    BY <1>2, <2>1, UpdateCallKept
  <2> QED BY <1>1, <2>2, <2>3 DEF Continues, Calls
<1> QED BY <1>1, <1>3 DEF ReadForUpdate

LEMMA ReadForDeleteTx ==
  ASSUME TypeOK, NEW c \in Clients, ReadForDelete(c)
  PROVE  m' = m /\ (Return(c) \/ Continues(c))
<1>1. tx[c] # Idle /\ tx[c].op \in DeleteOps /\ m' = m
  BY DEF ReadForDelete, InPhase
<1>2. tx[c] \in DeleteCalls /\ tx[c].key \in Keys
  BY <1>1, CallType DEF TypeOK, TxTypeOK
<1> DEFINE live == m[tx[c].key]
<1>3. CASE live # Absent /\ tx' = [tx EXCEPT ![c].phase = "write", ![c].opts.rv = live.rv]
  <2> DEFINE new == [tx[c] EXCEPT !.phase = "write", !.opts.rv = live.rv]
  <2>1. live.rv \in RVs
    BY <1>2, <1>3 DEF TypeOK, Objects
  <2>2. OnlyCall(c, new)
    BY <1>3 DEF OnlyCall
  <2>3. new \in DeleteCalls /\ new.key = tx[c].key /\ new.copy = tx[c].copy
    BY <1>2, <2>1, DeleteCallKept
  <2> QED BY <1>1, <2>2, <2>3 DEF Continues, Calls
<1> QED BY <1>1, <1>3 DEF ReadForDelete

LEMMA WriteTx ==
  ASSUME TypeOK, NEW c \in Clients, WriteUpdate(c) \/ WriteDelete(c)
  PROVE  Return(c) \/ (Continues(c) /\ m' = m)
<1>1. tx[c] # Idle
  BY DEF WriteUpdate, WriteDelete, InPhase
<1>2. Return(c) \/ (Retry(c) /\ m' = m)
  BY DEF WriteUpdate, WriteDelete, Fail
<1> QED BY <1>1, <1>2, RetryContinues

\* One call at a time: the step of a client, seen from all clients.
LEMMA OneCall ==
  ASSUME TypeOK, NEW c \in Clients, NEW call \in Calls \cup {Idle}, OnlyCall(c, call)
  PROVE  /\ TxTypeOK'
         /\ tx'[c] = call
         /\ \A d \in Clients \ {c} : tx'[d] = tx[d]
  BY DEF TypeOK, TxTypeOK, OnlyCall, Calls

LEMMA TxChanges ==
  ASSUME TypeOK, Next
  PROVE  TxStep /\ TxTypeOK'
<1>1. CASE UNCHANGED tx
  BY <1>1 DEF TxStep, TypeOK, TxTypeOK
<1>2. ASSUME NEW c \in Clients, Return(c)
      PROVE  TxStep /\ TxTypeOK'
  <2>1. OnlyCall(c, Idle)
    BY <1>2 DEF Return, OnlyCall
  <2> QED BY <2>1, OneCall DEF TxStep
<1>3. ASSUME NEW c \in Clients, Continues(c), m' = m
      PROVE  TxStep /\ TxTypeOK'
  BY <1>3, OneCall DEF TxStep, Continues
<1>4. ASSUME NEW c \in Clients, NEW k \in Keys, BeginUpdate(c, k) \/ BeginDelete(c, k)
      PROVE  TxStep /\ TxTypeOK'
  <2>1. PICK call \in Calls :
          OnlyCall(c, call) /\ call.key = k /\ call.copy = m[k] /\ m[k] # Absent /\ m' = m
    BY <1>4, BeginUpdateTx, BeginDeleteTx DEF Calls
  <2> QED BY <2>1, OneCall DEF TxStep
<1>5. ASSUME NEW c \in Clients, Step(c)
      PROVE  TxStep /\ TxTypeOK'
  BY <1>2, <1>3, <1>5, ReadForUpdateTx, ReadForDeleteTx, WriteTx DEF Step
<1>6. ASSUME NEW k \in Keys, Create(k) \/ Delete(k) \/ Patch(k)
      PROVE  UNCHANGED tx
  BY <1>6 DEF Create, Delete, Patch
<1> QED BY <1>1, <1>4, <1>5, <1>6 DEF Next

-----------------------------------------------------------------------------
(* Type correctness. *)

LEMMA MapStepType ==
  ASSUME TypeOK, MapStep, TxTypeOK'
  PROVE  TypeOK'
<1>1. CASE Quiet
  BY <1>1 DEF TypeOK, TxTypeOK, MapStep, Quiet, FreshUIDs, Created, Removed, Rewritten, FreshRVs
<1>2. ASSUME NEW k \in Keys, Created(k) PROVE TypeOK'
  BY <1>2 DEF TypeOK, TxTypeOK, Created, FreshUIDs, FreshRVs
<1>3. ASSUME NEW k \in Keys, Removed(k), usedUID' = usedUID PROVE TypeOK'
  BY <1>3 DEF TypeOK, TxTypeOK, Removed
<1>4. ASSUME NEW k \in Keys, Rewritten(k), usedUID' = usedUID PROVE TypeOK'
  BY <1>4 DEF TypeOK, TxTypeOK, Rewritten, FreshRVs
<1> QED BY <1>1, <1>2, <1>3, <1>4 DEF MapStep

\* Every reachable state is well typed: the store holds whole objects and the
\* calls in progress hold whole copies.
THEOREM TypeCorrect == Spec => []TypeOK
<1>1. Init => TypeOK
  BY DEF Init, TypeOK
<1>2. TypeOK /\ [Next]_vars => TypeOK'
  <2>1. ASSUME TypeOK, Next PROVE TypeOK'
    BY <2>1, MapChanges, TxChanges, MapStepType
  <2>2. ASSUME TypeOK, UNCHANGED vars PROVE TypeOK'
    BY <2>2 DEF TypeOK, vars
  <2> QED BY <2>1, <2>2
<1> QED BY <1>1, <1>2, PTL DEF Spec

-----------------------------------------------------------------------------
(* Versions, UIDs and generations. *)

\* Whatever is stored, and whatever a client read, has an identity and a
\* version that were given out; and a version or a UID has one key.
Known ==
  /\ \A k \in Keys : m[k] # Absent => m[k].uid \in usedUID /\ m[k].rv \in usedRV
  /\ \A c \in Clients : tx[c] # Idle => tx[c].copy.uid \in usedUID /\ tx[c].copy.rv \in usedRV
  /\ \A j, k \in Keys : m[j] # Absent /\ m[k] # Absent /\ m[j].rv = m[k].rv => j = k

\* The invariant that is inductive: VersionIdentifiesContent and UIDNamesOneKey
\* are kept by a fresh version or UID only because all others are known.
Identity ==
  /\ TypeOK
  /\ Known
  /\ VersionIdentifiesContent
  /\ UIDNamesOneKey
  /\ GenerationIdentifiesSpec
  /\ TerminatingObjectWaits

\* How the map changes, key by key.
LEMMA PerKey ==
  ASSUME TypeOK, Known, MapStep
  PROVE  /\ usedUID \subseteq usedUID' /\ usedRV \subseteq usedRV'
         /\ \A k \in Keys : m'[k] # Absent =>
              \/ m'[k] = m[k]
              \/ /\ m[k] # Absent
                 /\ Revises(k, m[k], m'[k])
                 /\ m'[k].rv \in usedRV' \ usedRV
                 /\ \A j \in Keys \ {k} : m'[j] = m[j]
              \/ /\ m[k] = Absent
                 /\ m'[k].uid \in usedUID' \ usedUID
                 /\ m'[k].rv \in usedRV' \ usedRV
                 /\ ~m'[k].deleting
                 /\ \A j \in Keys \ {k} : m'[j] = m[j]
<1>1. CASE Quiet
  BY <1>1 DEF Quiet, MapStep, Created, Removed, Rewritten, FreshUIDs
<1>2. ASSUME NEW i \in Keys, Created(i)
      PROVE  /\ usedUID \subseteq usedUID' /\ usedRV \subseteq usedRV'
             /\ \A k \in Keys : m'[k] # m[k] =>
                  /\ m[k] = Absent
                  /\ m'[k].uid \in usedUID' \ usedUID
                  /\ m'[k].rv \in usedRV' \ usedRV
                  /\ ~m'[k].deleting
                  /\ \A j \in Keys \ {k} : m'[j] = m[j]
  BY <1>2 DEF Created, FreshUIDs, FreshRVs, TypeOK
<1>3. ASSUME NEW i \in Keys, Removed(i), usedUID' = usedUID
      PROVE  /\ usedUID \subseteq usedUID' /\ usedRV \subseteq usedRV'
             /\ \A k \in Keys : m'[k] # Absent => m'[k] = m[k]
  BY <1>3 DEF Removed, TypeOK
<1>4. ASSUME NEW i \in Keys, Rewritten(i), usedUID' = usedUID
      PROVE  /\ usedUID \subseteq usedUID' /\ usedRV \subseteq usedRV'
             /\ \A k \in Keys : m'[k] # m[k] =>
                  /\ m[k] # Absent
                  /\ Revises(k, m[k], m'[k])
                  /\ m'[k].rv \in usedRV' \ usedRV
                  /\ \A j \in Keys \ {k} : m'[j] = m[j]
  BY <1>4 DEF Rewritten, FreshRVs, TypeOK
<1> QED BY <1>1, <1>2, <1>3, <1>4 DEF MapStep

LEMMA KnownKept ==
  ASSUME TypeOK, Known, MapStep, TxStep, TypeOK'
  PROVE  Known'
<1>1. \A k \in Keys : m'[k] # Absent => m'[k].uid \in usedUID' /\ m'[k].rv \in usedRV'
  BY PerKey DEF Known, Revises
<1>2. \A c \in Clients : tx'[c] # Idle =>
        tx'[c].copy.uid \in usedUID' /\ tx'[c].copy.rv \in usedRV'
  BY PerKey DEF Known, TxStep
<1>3. \A j, k \in Keys : m'[j] # Absent /\ m'[k] # Absent /\ m'[j].rv = m'[k].rv => j = k
  BY PerKey DEF Known
<1> QED BY <1>1, <1>2, <1>3 DEF Known

LEMMA VersionsKept ==
  ASSUME Identity, MapStep, TxStep, TypeOK'
  PROVE  VersionIdentifiesContent'
<1> SUFFICES ASSUME NEW c \in Clients, tx'[c] # Idle,
                    NEW k \in Keys, m'[k] # Absent, m'[k].rv = tx'[c].copy.rv
             PROVE  k = tx'[c].key /\ m'[k] = tx'[c].copy
  BY DEF VersionIdentifiesContent, Live
<1> USE DEF Identity
<1>1. CASE \E j \in Keys : m[j] # Absent /\ tx'[c].key = j /\ tx'[c].copy = m[j] /\ m' = m
  BY <1>1 DEF Known
<1>2. CASE tx[c] # Idle /\ tx'[c].key = tx[c].key /\ tx'[c].copy = tx[c].copy
  <2>1. tx[c].copy.rv \in usedRV
    BY <1>2 DEF Known
  <2>2. m'[k] = m[k]
    BY <1>2, <2>1, PerKey
  <2> QED BY <1>2, <2>2 DEF VersionIdentifiesContent, Live
<1> QED BY <1>1, <1>2 DEF TxStep

LEMMA UIDsKept ==
  ASSUME Identity, MapStep, TxStep, TypeOK'
  PROVE  UIDNamesOneKey'
<1> USE DEF Identity
<1>1. ASSUME NEW j \in Keys, NEW k \in Keys,
             m'[j] # Absent, m'[k] # Absent, m'[j].uid = m'[k].uid
      PROVE  j = k
  BY <1>1, PerKey DEF Known, UIDNamesOneKey, Live, Revises
<1>2. ASSUME NEW c \in Clients, NEW k \in Keys,
             tx'[c] # Idle, m'[k] # Absent, m'[k].uid = tx'[c].copy.uid
      PROVE  k = tx'[c].key
  <2>1. CASE \E j \in Keys : m[j] # Absent /\ tx'[c].key = j /\ tx'[c].copy = m[j] /\ m' = m
    BY <1>2, <2>1 DEF UIDNamesOneKey, Live
  <2>2. CASE tx[c] # Idle /\ tx'[c].key = tx[c].key /\ tx'[c].copy = tx[c].copy
    <3>1. tx[c].copy.uid \in usedUID
      BY <2>2 DEF Known
    <3>2. m[k] # Absent /\ m[k].uid = m'[k].uid
      BY <1>2, <2>2, <3>1, PerKey DEF Revises
    <3> QED BY <1>2, <2>2, <3>2 DEF UIDNamesOneKey, Live
  <2> QED BY <1>2, <2>1, <2>2 DEF TxStep
<1> QED BY <1>1, <1>2 DEF UIDNamesOneKey, Live

LEMMA GenerationsKept ==
  ASSUME Identity, MapStep, TxStep, TypeOK'
  PROVE  GenerationIdentifiesSpec'
<1> SUFFICES ASSUME NEW c \in Clients, tx'[c] # Idle,
                    NEW k \in Keys, k = tx'[c].key,
                    m'[k] # Absent, m'[k].uid = tx'[c].copy.uid, KindOf[k] \in GenerationKinds
             PROVE  /\ tx'[c].copy.gen <= m'[k].gen
                    /\ tx'[c].copy.gen = m'[k].gen => m'[k].spec = tx'[c].copy.spec
  <2>1. \A d \in Clients : tx'[d] # Idle => tx'[d].key \in Keys
    BY DEF TypeOK, UpdateCalls, DeleteCalls
  <2> QED BY <2>1 DEF GenerationIdentifiesSpec, Live
<1> USE DEF Identity
<1>1. CASE \E j \in Keys : m[j] # Absent /\ tx'[c].key = j /\ tx'[c].copy = m[j] /\ m' = m
  <2>1. m[k] \in Objects
    BY <1>1 DEF TypeOK
  <2> QED BY <1>1, <2>1 DEF Objects
<1>2. CASE tx[c] # Idle /\ tx'[c].key = tx[c].key /\ tx'[c].copy = tx[c].copy
  <2>1. tx[c].copy.uid \in usedUID
    BY <1>2 DEF Known
  <2>2. m[k] # Absent /\ (m'[k] = m[k] \/ Revises(k, m[k], m'[k]))
    BY <1>2, <2>1, PerKey
  <2>3. m[k].uid = tx[c].copy.uid
    BY <1>2, <2>2 DEF Revises
  <2>4. /\ tx[c].copy.gen <= m[k].gen
        /\ tx[c].copy.gen = m[k].gen => m[k].spec = tx[c].copy.spec
    BY <1>2, <2>2, <2>3 DEF GenerationIdentifiesSpec, Live
  <2>5. m[k].gen \in Nat /\ m'[k].gen \in Nat /\ tx[c].copy.gen \in Nat
    <3>1. m[k] \in Objects /\ m'[k] \in Objects /\ tx[c].copy \in Objects
      BY <1>2, <2>2, CallType DEF TypeOK, TxTypeOK
    <3> QED BY <3>1 DEF Objects
  <2>6. CASE m'[k] = m[k]
    BY <1>2, <2>4, <2>6
  <2>7. CASE Revises(k, m[k], m'[k])
    BY <1>2, <2>4, <2>5, <2>7 DEF Revises
  <2> QED BY <2>2, <2>6, <2>7
<1> QED BY <1>1, <1>2 DEF TxStep

LEMMA WaitingKept ==
  ASSUME Identity, MapStep
  PROVE  TerminatingObjectWaits'
  BY PerKey DEF Identity, TerminatingObjectWaits, Live, Revises

\* The five facts are one inductive invariant.
LEMMA IdentityInvariant == Spec => []Identity
<1>1. Init => Identity
  BY DEF Init, Identity, TypeOK, Known, VersionIdentifiesContent, UIDNamesOneKey,
         GenerationIdentifiesSpec, TerminatingObjectWaits, Live
<1>2. Identity /\ [Next]_vars => Identity'
  <2>1. ASSUME Identity, Next PROVE Identity'
    <3>1. TypeOK /\ Known
      BY <2>1 DEF Identity
    <3>2. MapStep /\ TxStep /\ TypeOK'
      BY <2>1, <3>1, MapChanges, TxChanges, MapStepType
    <3>3. Known'
      BY <3>1, <3>2, KnownKept
    <3> QED BY <2>1, <3>2, <3>3, VersionsKept, UIDsKept, GenerationsKept, WaitingKept
            DEF Identity
  <2>2. ASSUME Identity, UNCHANGED vars PROVE Identity'
    BY <2>2 DEF vars, Identity, TypeOK, Known, VersionIdentifiesContent, UIDNamesOneKey,
                GenerationIdentifiesSpec, TerminatingObjectWaits, Live
  <2> QED BY <2>1, <2>2
<1> QED BY <1>1, <1>2, PTL DEF Spec

\* Optimistic concurrency is sound: a version a client read and that is still
\* live means the object is exactly what the client read.
THEOREM VersionsSound == Spec => []VersionIdentifiesContent
<1>1. Identity => VersionIdentifiesContent
  BY DEF Identity
<1> QED BY <1>1, IdentityInvariant, PTL

\* A UID never names an object under a second key.
THEOREM UIDsSound == Spec => []UIDNamesOneKey
<1>1. Identity => UIDNamesOneKey
  BY DEF Identity
<1> QED BY <1>1, IdentityInvariant, PTL

\* A generation reported for an object determines the spec that was acted on.
THEOREM GenerationsSound == Spec => []GenerationIdentifiesSpec
<1>1. Identity => GenerationIdentifiesSpec
  BY DEF Identity
<1> QED BY <1>1, IdentityInvariant, PTL

\* No object is left marked for deletion with nothing to wait for.
THEOREM DeletionCompletes == Spec => []TerminatingObjectWaits
<1>1. Identity => TerminatingObjectWaits
  BY DEF Identity
<1> QED BY <1>1, IdentityInvariant, PTL

-----------------------------------------------------------------------------
(* What a step may never do. *)

\* A deletion is never taken back and its conditions only relax.
THEOREM DeletionFinal == Spec => DeletionIsFinal
<1> DEFINE Final(k) ==
      m[k] # Absent /\ m[k].deleting /\ m'[k] # Absent /\ m'[k].uid = m[k].uid =>
         /\ m'[k].deleting
         /\ m'[k].grace <= m[k].grace
         /\ m'[k].gen >= m[k].gen
         /\ m'[k].fin \ m[k].fin \subseteq GCFinalizers
<1>1. ASSUME Identity, Identity', [Next]_vars, NEW k \in Keys
      PROVE  Final(k)
  <2>1. CASE m'[k] = m[k]
    <3>1. m[k] # Absent => m[k] \in Objects
      BY <1>1 DEF Identity, TypeOK
    <3> QED BY <2>1, <3>1 DEF Objects
  <2>2. CASE m'[k] # m[k] /\ m'[k] # Absent /\ m[k] # Absent
    <3>1. Next /\ TypeOK /\ Known
      BY <1>1, <2>2 DEF vars, Identity
    <3>2. MapStep
      BY <3>1, MapChanges
    <3>3. Revises(k, m[k], m'[k])
      BY <2>2, <3>1, <3>2, PerKey
    <3>4. m[k] \in Objects /\ m'[k] \in Objects
      BY <1>1, <2>2 DEF Identity, TypeOK
    <3> QED BY <3>3, <3>4 DEF Revises, Objects
  <2> QED BY <2>1, <2>2
<1>2. Identity /\ Identity' /\ [Next]_vars =>
        [\A k \in Keys :
           Live(k) /\ m[k].deleting /\ Live(k)' /\ m'[k].uid = m[k].uid =>
             /\ m'[k].deleting
             /\ m'[k].grace <= m[k].grace
             /\ m'[k].gen >= m[k].gen
             /\ m'[k].fin \ m[k].fin \subseteq GCFinalizers]_vars
  BY <1>1 DEF Live
<1> QED BY <1>2, IdentityInvariant, PTL DEF Spec, DeletionIsFinal

\* A call names the UID of its copy or none, and outside a transaction the
\* version of its copy or none.
CallsNameTheirCopy ==
  \A c \in Clients : tx[c] # Idle =>
    /\ tx[c].phase = "read" => tx[c].op \in TxOps
    /\ tx[c].op \in UpdateOps => tx[c].uid \in {NoUID, tx[c].copy.uid}
    /\ tx[c].op \in UpdateOps \ TxOps => tx[c].rv \in {NoRV, tx[c].copy.rv}
    /\ tx[c].op \in DeleteOps => tx[c].opts.uid \in {NoUID, tx[c].copy.uid}

\* The same for one call, to follow it through a step.
NamesCopy(call) ==
  /\ call.phase = "read" => call.op \in TxOps
  /\ call.op \in UpdateOps => call.uid \in {NoUID, call.copy.uid}
  /\ call.op \in UpdateOps \ TxOps => call.rv \in {NoRV, call.copy.rv}
  /\ call.op \in DeleteOps => call.opts.uid \in {NoUID, call.copy.uid}

LEMMA CallsKept ==
  ASSUME TypeOK, CallsNameTheirCopy, Next
  PROVE  CallsNameTheirCopy'
<1>0. ASSUME NEW c \in Clients, NEW call, OnlyCall(c, call), NamesCopy(call) \/ call = Idle
      PROVE  CallsNameTheirCopy'
  BY <1>0 DEF CallsNameTheirCopy, OnlyCall, NamesCopy, TypeOK
<1>1. CASE UNCHANGED tx
  BY <1>1 DEF CallsNameTheirCopy
<1>2. ASSUME NEW c \in Clients, Return(c) PROVE CallsNameTheirCopy'
  BY <1>0, <1>2 DEF Return, OnlyCall
<1>3. ASSUME NEW c \in Clients, NEW k \in Keys, BeginUpdate(c, k)
      PROVE  CallsNameTheirCopy'
  <2>1. PICK op \in UpdateOps, uid \in {NoUID, m[k].uid}, rv \in {NoRV, m[k].rv},
        spec \in Specs, status \in Statuses, fin \in EditedFinalizers(m[k].fin) :
        /\ KindOf[k] \in IF op \in StatusOps THEN StatusKinds ELSE UpdateKinds
        /\ op \in TxOps => rv = NoRV
        /\ IF op \in StatusOps THEN spec = m[k].spec ELSE status = m[k].status
        /\ tx' = [tx EXCEPT ![c] =
             [phase |-> IF op \in TxOps THEN "read" ELSE "write", op |-> op, key |-> k,
              copy |-> m[k], uid |-> uid, rv |-> rv, spec |-> spec,
              status |-> status, fin |-> fin]]
    BY <1>3, Zenon DEF BeginUpdate
  <2> DEFINE call == [phase |-> IF op \in TxOps THEN "read" ELSE "write", op |-> op, key |-> k,
                      copy |-> m[k], uid |-> uid, rv |-> rv, spec |-> spec,
                      status |-> status, fin |-> fin]
  <2>2. NamesCopy(call)
    BY <2>1 DEF NamesCopy, UpdateOps, MainOps, StatusOps, DeleteOps
  <2>3. OnlyCall(c, call)
    BY <2>1 DEF OnlyCall
  <2> QED BY <1>0, <2>2, <2>3
<1>4. ASSUME NEW c \in Clients, NEW k \in Keys, BeginDelete(c, k)
      PROVE  CallsNameTheirCopy'
  <2>1. PICK op \in DeleteOps, uid \in {NoUID, m[k].uid}, rv \in {NoRV, m[k].rv},
        grace \in GracePeriods \cup {NoGrace}, policy \in Policies :
        OnlyCall(c, [phase |-> IF op \in TxOps THEN "read" ELSE "write", op |-> op, key |-> k,
                     copy |-> m[k],
                     opts |-> [uid |-> uid, rv |-> rv, grace |-> grace, policy |-> policy]])
    BY <1>4 DEF BeginDelete, OnlyCall
  <2> DEFINE call == [phase |-> IF op \in TxOps THEN "read" ELSE "write", op |-> op, key |-> k,
                      copy |-> m[k],
                      opts |-> [uid |-> uid, rv |-> rv, grace |-> grace, policy |-> policy]]
  <2>2. NamesCopy(call)
    BY DEF NamesCopy, UpdateOps, MainOps, StatusOps, DeleteOps
  <2> QED BY <1>0, <2>1, <2>2
<1>5. ASSUME NEW c \in Clients, tx[c] # Idle, NamesCopy(tx[c]), tx[c].op \in TxOps,
             tx[c] \in Calls, NEW phase \in {"read", "write"}, NEW rv,
             \/ tx[c].op \in UpdateOps /\ OnlyCall(c, [tx[c] EXCEPT !.phase = phase, !.rv = rv])
             \/ tx[c].op \in DeleteOps /\ OnlyCall(c, [tx[c] EXCEPT !.phase = phase, !.opts.rv = rv])
      PROVE  CallsNameTheirCopy'
  <2>1. CASE tx[c].op \in UpdateOps /\ OnlyCall(c, [tx[c] EXCEPT !.phase = phase, !.rv = rv])
    <3> DEFINE new == [tx[c] EXCEPT !.phase = phase, !.rv = rv]
    <3>1. tx[c] \in UpdateCalls
      BY <1>5, <2>1 DEF Calls, DeleteCalls, UpdateOps, MainOps, StatusOps, DeleteOps
    <3>2. NamesCopy(new)
      BY <1>5, <2>1, <3>1 DEF NamesCopy, UpdateCalls, UpdateOps, MainOps, StatusOps, DeleteOps
    <3> QED BY <1>0, <2>1, <3>2
  <2>2. CASE tx[c].op \in DeleteOps /\ OnlyCall(c, [tx[c] EXCEPT !.phase = phase, !.opts.rv = rv])
    <3> DEFINE new == [tx[c] EXCEPT !.phase = phase, !.opts.rv = rv]
    <3>1. tx[c] \in DeleteCalls
      BY <1>5, <2>2 DEF Calls, UpdateCalls, UpdateOps, MainOps, StatusOps, DeleteOps
    <3>2. NamesCopy(new)
      BY <1>5, <2>2, <3>1 DEF NamesCopy, DeleteCalls, DeleteOptions, UpdateOps, MainOps, StatusOps, DeleteOps
    <3> QED BY <1>0, <2>2, <3>2
  <2> QED BY <1>5, <2>1, <2>2
<1>6. ASSUME NEW c \in Clients, tx[c] # Idle
      PROVE  NamesCopy(tx[c]) /\ tx[c] \in Calls
  BY <1>6 DEF CallsNameTheirCopy, NamesCopy, TypeOK, Calls
<1>7. ASSUME NEW c \in Clients, ReadForUpdate(c) \/ ReadForDelete(c)
      PROVE  CallsNameTheirCopy'
  <2>1. tx[c] # Idle /\ tx[c].op \in TxOps
    BY <1>6, <1>7 DEF ReadForUpdate, ReadForDelete, InPhase, NamesCopy
  <2>2. \/ Return(c)
        \/ \E rv : \/ tx[c].op \in UpdateOps /\ OnlyCall(c, [tx[c] EXCEPT !.phase = "write", !.rv = rv])
                   \/ tx[c].op \in DeleteOps /\ OnlyCall(c, [tx[c] EXCEPT !.phase = "write", !.opts.rv = rv])
    BY <1>7 DEF ReadForUpdate, ReadForDelete, OnlyCall, InPhase
  <2> QED BY <1>2, <1>5, <1>6, <2>1, <2>2
<1>8. ASSUME NEW c \in Clients, WriteUpdate(c) \/ WriteDelete(c)
      PROVE  CallsNameTheirCopy'
  <2>1. tx[c] # Idle /\ tx[c].op \in UpdateOps \cup DeleteOps
    BY <1>8 DEF WriteUpdate, WriteDelete, InPhase
  <2>2. Return(c) \/ (tx[c].op \in TxOps /\ Retry(c))
    BY <1>8 DEF WriteUpdate, WriteDelete, Fail
  <2>3. CASE tx[c].op \in TxOps /\ Retry(c)
    <3>1. \/ tx[c].op \in UpdateOps /\ OnlyCall(c, [tx[c] EXCEPT !.phase = "read", !.rv = NoRV])
          \/ tx[c].op \in DeleteOps /\ OnlyCall(c, [tx[c] EXCEPT !.phase = "read", !.opts.rv = NoRV])
      BY <2>1, <2>3 DEF Retry, OnlyCall
    <3> QED BY <1>5, <1>6, <2>1, <2>3, <3>1
  <2> QED BY <1>2, <2>2, <2>3
<1>9. ASSUME NEW k \in Keys, Create(k) \/ Delete(k) \/ Patch(k)
      PROVE  UNCHANGED tx
  BY <1>9 DEF Create, Delete, Patch
<1> QED BY <1>1, <1>3, <1>4, <1>7, <1>8, <1>9 DEF Next, Step

LEMMA CallsInvariant == Spec => []CallsNameTheirCopy
<1>1. Init => CallsNameTheirCopy
  BY DEF Init, CallsNameTheirCopy
<1>2. TypeOK /\ CallsNameTheirCopy /\ [Next]_vars => CallsNameTheirCopy'
  BY CallsKept DEF vars, CallsNameTheirCopy
<1> QED BY <1>1, <1>2, TypeCorrect, PTL DEF Spec

\* A call in its write phase is changed only by its own write.
LEMMA OwnWrite ==
  ASSUME TypeOK, [Next]_vars, NEW c \in Clients, tx[c] # Idle, tx[c].phase = "write", tx'[c] # tx[c]
  PROVE  WriteUpdate(c) \/ WriteDelete(c)
<1>1. Next
  BY DEF vars
<1>2. ASSUME NEW d \in Clients, d # c, Step(d)
      PROVE  FALSE
  <2>1. Return(d) \/ Continues(d)
    BY <1>2, ReadForUpdateTx, ReadForDeleteTx, WriteTx DEF Step
  <2> QED BY <1>2, <2>1 DEF Return, Continues, OnlyCall, TypeOK
<1>3. ASSUME NEW d \in Clients, NEW k \in Keys, BeginUpdate(d, k) \/ BeginDelete(d, k)
      PROVE  FALSE
  <2>1. tx[d] = Idle /\ \E call : OnlyCall(d, call)
    BY <1>3, BeginUpdateTx, BeginDeleteTx DEF BeginUpdate, BeginDelete
  <2> QED BY <2>1 DEF OnlyCall, TypeOK
<1>4. ASSUME NEW k \in Keys, Create(k) \/ Delete(k) \/ Patch(k)
      PROVE  FALSE
  BY <1>4 DEF Create, Delete, Patch
<1>5. Step(c)
  BY <1>1, <1>2, <1>3, <1>4 DEF Next
<1> QED BY <1>5 DEF Step, ReadForUpdate, ReadForDelete, InPhase

\* A plain update that names a version replaces exactly what its client read.
THEOREM LostUpdatesExcluded == Spec => NoLostUpdate
<1>1. ASSUME Identity, CallsNameTheirCopy, [Next]_vars, NEW c \in Clients,
             InPhase(c, "write", {"update", "updateStatus"}),
             tx[c].rv # NoRV, tx'[c] # tx[c], m' # m
      PROVE  m[tx[c].key] = tx[c].copy
  <2>1. /\ tx[c] # Idle /\ tx[c].phase = "write"
        /\ tx[c].op \in UpdateOps \ TxOps /\ tx[c].op \notin DeleteOps
    BY <1>1 DEF InPhase, UpdateOps, MainOps, StatusOps, TxOps, DeleteOps
  <2>2. TypeOK
    BY <1>1 DEF Identity
  <2>3. WriteUpdate(c)
    BY <1>1, <2>1, <2>2, OwnWrite DEF WriteDelete, InPhase
  <2>4. m[tx[c].key] # Absent /\ ~UpdateConflict(m[tx[c].key], tx[c])
    BY <1>1, <2>3 DEF WriteUpdate, Fail
  <2>5. m[tx[c].key].rv = tx[c].copy.rv
    BY <1>1, <2>1, <2>4 DEF UpdateConflict, CallsNameTheirCopy
  <2>6. tx[c].key \in Keys
    BY <2>1, <2>2, CallType DEF TypeOK, TxTypeOK
  <2> QED BY <1>1, <2>1, <2>4, <2>5, <2>6 DEF Identity, VersionIdentifiesContent, Live
<1>2. Identity /\ CallsNameTheirCopy /\ [Next]_vars =>
       [\A c \in Clients :
         /\ InPhase(c, "write", {"update", "updateStatus"})
         /\ tx[c].rv # NoRV
         /\ tx'[c] # tx[c]
         /\ m' # m
         => m[tx[c].key] = tx[c].copy]_vars
  BY <1>1
<1> QED BY <1>2, IdentityInvariant, CallsInvariant, PTL DEF Spec, NoLostUpdate

\* A call that names the UID it read never touches a successor of its object.
THEOREM SuccessorsSafe == Spec => SuccessorUntouched
<1>1. ASSUME TypeOK, CallsNameTheirCopy, [Next]_vars, NEW c \in Clients,
             InPhase(c, "write", UpdateOps \cup DeleteOps),
             tx'[c] # tx[c],
             m[tx[c].key] # Absent,
             m[tx[c].key].uid # tx[c].copy.uid,
             (IF tx[c].op \in DeleteOps THEN tx[c].opts.uid ELSE tx[c].uid) # NoUID
      PROVE  m' = m
  <2>1. tx[c] # Idle /\ tx[c].phase = "write"
    BY <1>1 DEF InPhase
  <2>2. CASE WriteUpdate(c)
    <3>1. tx[c].op \in UpdateOps /\ tx[c].op \notin DeleteOps
      BY <2>2 DEF WriteUpdate, InPhase, UpdateOps, MainOps, StatusOps, DeleteOps
    <3>2. UpdateConflict(m[tx[c].key], tx[c])
      BY <1>1, <2>1, <3>1 DEF UpdateConflict, CallsNameTheirCopy
    <3> QED BY <1>1, <2>2, <3>2 DEF WriteUpdate, Fail
  <2>3. CASE WriteDelete(c)
    <3>1. tx[c].op \in DeleteOps
      BY <2>3 DEF WriteDelete, InPhase
    <3>2. ~PreconditionsHold(m[tx[c].key], tx[c].opts)
      BY <1>1, <2>1, <3>1 DEF PreconditionsHold, CallsNameTheirCopy
    <3> QED BY <1>1, <2>3, <3>2 DEF WriteDelete, Fail
  <2> QED BY <1>1, <2>1, <2>2, <2>3, OwnWrite
<1>2. TypeOK /\ CallsNameTheirCopy /\ [Next]_vars =>
        [\A c \in Clients :
           /\ InPhase(c, "write", UpdateOps \cup DeleteOps)
           /\ tx'[c] # tx[c]
           /\ m[tx[c].key] # Absent
           /\ m[tx[c].key].uid # tx[c].copy.uid
           /\ (IF tx[c].op \in DeleteOps THEN tx[c].opts.uid ELSE tx[c].uid) # NoUID
           => m' = m]_vars
  BY <1>1
<1> QED BY <1>2, TypeCorrect, CallsInvariant, PTL DEF Spec, SuccessorUntouched

-----------------------------------------------------------------------------
(* The API model implements ObjectLifecycle. *)

\* The object of the lifecycle that a stored object stands for.
Abstract(obj) ==
  IF obj = Absent THEN Absent ELSE [uid |-> obj.uid, terminating |-> obj.deleting]

objects == [k \in Keys |-> IF m[k] = Absent THEN Absent
                           ELSE [uid |-> m[k].uid, terminating |-> m[k].deleting]]

LEMMA AbstractMap ==
  objects = [k \in Keys |-> Abstract(m[k])] /\ objects' = [k \in Keys |-> Abstract(m'[k])]
  BY DEF objects, Abstract

LEMMA LifecycleStep ==
  ASSUME TypeOK, MapStep
  PROVE  Lifecycle!Next \/ (objects' = objects /\ usedUID' = usedUID)
<1>1. CASE Quiet /\ usedUID' = usedUID
  BY <1>1 DEF Quiet, objects
<1>2. CASE Quiet /\ \E uid \in FreshUIDs : usedUID' = usedUID \cup {uid}
  <2>1. Lifecycle!Waste
    BY <1>2 DEF Quiet, FreshUIDs, Lifecycle!Waste, Lifecycle!Spend
  <2> QED BY <2>1 DEF Lifecycle!Next
<1>3. ASSUME NEW k \in Keys, Created(k)
      PROVE  Lifecycle!Next
  <2>1. PICK new \in Objects :
          /\ new.uid \in FreshUIDs
          /\ ~new.deleting
          /\ m' = [m EXCEPT ![k] = new]
          /\ usedUID' = usedUID \cup {new.uid}
    BY <1>3 DEF Created
  <2>2. m[k] = Absent /\ new # Absent /\ new.deleting \in BOOLEAN
    BY <1>3, TokenAssumption DEF Created, Objects
  <2>3. Abstract(new) = [uid |-> new.uid, terminating |-> FALSE]
    BY <2>1, <2>2 DEF Abstract
  <2>4. objects[k] = Absent /\ objects' = [objects EXCEPT ![k] = [uid |-> new.uid, terminating |-> FALSE]]
    BY <2>1, <2>2, <2>3, AbstractMap DEF TypeOK, Abstract
  <2>5. Lifecycle!Spend(new.uid) /\ new.uid \in UIDs
    BY <2>1 DEF FreshUIDs, Lifecycle!Spend
  <2>6. Lifecycle!Appear(k)
    BY <2>4, <2>5 DEF Lifecycle!Appear, objects
  <2> QED BY <2>6 DEF Lifecycle!Next
<1>4. ASSUME NEW k \in Keys, Removed(k), usedUID' = usedUID
      PROVE  Lifecycle!Next
  <2>1. objects[k] # Absent /\ objects' = [objects EXCEPT ![k] = Absent]
    <3>1. m[k] # Absent /\ m' = [m EXCEPT ![k] = Absent]
      BY <1>4 DEF Removed
    <3>2. objects' = [objects EXCEPT ![k] = Absent]
      BY <3>1, AbstractMap DEF TypeOK, Abstract
    <3>3. objects[k] \in LifecycleObjects
      BY <3>1 DEF objects, LifecycleObjects, TypeOK, Objects
    <3> QED BY <3>2, <3>3, TokenAssumption
  <2>2. Lifecycle!Leave(k)
    BY <1>4, <2>1 DEF Lifecycle!Leave, objects
  <2> QED BY <2>2 DEF Lifecycle!Next
<1>5. ASSUME NEW k \in Keys, Rewritten(k), usedUID' = usedUID
      PROVE  Lifecycle!Next \/ objects' = objects
  <2>1. PICK new \in Objects : Revises(k, m[k], new) /\ m' = [m EXCEPT ![k] = new]
    BY <1>5 DEF Rewritten
  <2>2. m[k] # Absent /\ m[k] \in Objects /\ new # Absent
    BY <1>5, <2>1, TokenAssumption DEF Rewritten, TypeOK
  <2>3. objects' = [objects EXCEPT ![k] = Abstract(new)]
    BY <2>1, AbstractMap DEF TypeOK
  <2>4. objects[k] = [uid |-> m[k].uid, terminating |-> m[k].deleting]
    BY <2>2 DEF objects
  <2>5. Abstract(new) = [uid |-> m[k].uid, terminating |-> new.deleting]
    BY <2>1, <2>2 DEF Abstract, Revises
  <2>6. CASE new.deleting = TRUE
    <3>0. objects[k] # Absent
      BY <2>2, <2>4, TokenAssumption DEF LifecycleObjects, Objects
    <3>1. Lifecycle!Terminate(k)
      BY <1>5, <2>2, <3>0, <2>3, <2>4, <2>5, <2>6 DEF Lifecycle!Terminate, objects
    <3> QED BY <3>1 DEF Lifecycle!Next
  <2>7. CASE new.deleting = FALSE
    <3>1. m[k].deleting = FALSE
      BY <2>1, <2>2, <2>7 DEF Revises, Objects
    <3>2. objects' = objects
      BY <2>3, <2>4, <2>5, <2>7, <3>1 DEF objects
    <3> QED BY <3>2
  <2> QED BY <2>1, <2>6, <2>7 DEF Objects
<1> QED BY <1>1, <1>2, <1>3, <1>4, <1>5 DEF MapStep

\* Every behaviour of the API model, seen without versions and finalizers, is a
\* behaviour of the object lifecycle that the controllers rely on.
THEOREM ImplementsLifecycle == Spec => LifecycleSpec
<1>1. Init => Lifecycle!Init
  BY DEF Init, Lifecycle!Init
<1>2. TypeOK /\ [Next]_vars => [Lifecycle!Next]_Lifecycle!vars
  <2>1. ASSUME TypeOK, Next PROVE [Lifecycle!Next]_Lifecycle!vars
    <3>1. MapStep
      BY <2>1, MapChanges
    <3> QED BY <2>1, <3>1, LifecycleStep DEF Lifecycle!vars, objects
  <2>2. ASSUME UNCHANGED vars PROVE UNCHANGED Lifecycle!vars
    BY <2>2 DEF vars, Lifecycle!vars
  <2> QED BY <2>1, <2>2
<1> QED BY <1>1, <1>2, TypeCorrect, PTL DEF Spec, LifecycleSpec, Lifecycle!Spec
=============================================================================
