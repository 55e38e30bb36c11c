-------------------------- MODULE ReplicaSetProofs --------------------------
(***************************************************************************)
(* Proofs about ReplicaSetController, for any number of syncs, pod names,  *)
(* set sizes and any burst.                                                *)
(*                                                                         *)
(* As in ApiServerProofs, a step is described by what it does to the set   *)
(* (SetStep), to each pod (PodStep) and to each sync (SyncStep); the       *)
(* invariants are proved from these descriptions.                          *)
(***************************************************************************)
EXTENDS ReplicaSetController, FiniteSetTheorems, TLAPS

\* The slow start in the middle of a batch: the calls before the batch all
\* succeeded, the batch is at most one larger than their number, and the calls
\* made and still to be made add up to what the sync may create.
Counting(s) ==
  LET answered == s.batch - s.todo
      before   == s.successes + s.failed - answered
  IN  /\ s.todo >= 1
      /\ s.todo <= s.batch
      /\ s.batch <= s.remaining
      /\ before >= 0
      /\ before + s.remaining = Allowance(s)
      /\ s.batch <= before + 1
      /\ s.failed <= answered

\* What holds of a sync by itself.
SyncOK(s) ==
  /\ s \in Syncs
  /\ IsFiniteSet(s.seen)
  /\ s.phase # "idle" => s.copy # Absent
  /\ s.phase = "list" => s.successes = 0 /\ s.failed = 0
  /\ s.phase = "create" => Counting(s)
  /\ s.phase = "delete" => s.victims \subseteq s.seen
  /\ s.phase \in {"status", "get"} => s.status.observed = s.copy.gen
  /\ s.phase = "status" => s.current # Absent

\* The set is written with a fresh version, replaced by one with a fresh UID, or
\* removed; a change of the spec comes with a new generation.
SetStep ==
  \/ rs' = rs
  \/ rs' = Absent
  \/ /\ rs # Absent
     /\ rs' \in ReplicaSets
     /\ rs'.uid = rs.uid
     /\ rs'.rv \in FreeRVs
     /\ rs.gen <= rs'.gen
     /\ rs'.gen = rs.gen => rs'.replicas = rs.replicas
     /\ rs'.deleting => rs'.held
  \/ /\ rs = Absent
     /\ rs' \in ReplicaSets
     /\ rs'.uid \in FreeRSUIDs
     /\ rs'.rv \in FreeRVs
     /\ ~rs'.deleting

\* A pod keeps its UID and its owner as long as it is there.
PodStep(p) ==
  \/ pods'[p] = pods[p]
  \/ pods'[p] = Absent
  \/ /\ pods[p] # Absent
     /\ pods'[p] \in Pods
     /\ pods'[p].uid = pods[p].uid
     /\ pods'[p].owner = pods[p].owner
  \/ pods'[p] \in Pods /\ pods'[p].uid \in FreePodUIDs

\* A sync keeps its copy and its list of pods until it is done with them, and
\* takes new ones from what is stored.
Follows(s, t) ==
  /\ SyncOK(t)
  /\ t.copy \in {Absent, s.copy, rs}
  /\ t.current \in {Absent, s.copy, s.current, rs}
  /\ \/ t.seen = {}
     \/ t.copy = s.copy /\ t.seen = s.seen
     \/ t.copy = s.copy /\ t.seen = ActivePods(s.copy.uid) /\ pods' = pods

SyncStep(w) == sync'[w] = sync[w] \/ Follows(sync[w], sync'[w])

\* Types, without those that follow from SyncOK.
StoreTypes ==
  /\ rs \in ReplicaSets \cup {Absent}
  /\ pods \in [PodNames -> Pods \cup {Absent}]
  /\ left \in 0..MaxDisturbances

SyncsOK ==
  /\ sync = [w \in Workers |-> sync[w]]
  /\ \A w \in Workers : SyncOK(sync[w])

\* A listed pod that still has its name and UID belongs to the set the sync works for.
ListedOwned ==
  \A w \in Workers : \A s \in sync[w].seen :
    pods[s.name] # Absent /\ pods[s.name].uid = s.uid =>
      pods[s.name].owner = sync[w].copy.uid

\* A copy with the version of the stored set is the stored set.
VersionsIdentify ==
  \A w \in Workers : \A c \in {sync[w].copy, sync[w].current} \ {Absent} :
    rs # Absent /\ c.rv = rs.rv => c = rs

\* A copy's generation is not ahead of the live one, and stands for its spec.
GenerationsIdentify ==
  \A w \in Workers :
    LET c == sync[w].copy
    IN  c # Absent /\ rs # Absent /\ c.uid = rs.uid =>
          c.gen <= rs.gen /\ (c.gen = rs.gen => c.replicas = rs.replicas)

\* A set that is being deleted waits for a finalizer.
DeletionWaits == rs # Absent /\ rs.deleting => rs.held

Inv ==
  /\ StoreTypes
  /\ SyncsOK
  /\ ListedOwned
  /\ VersionsIdentify
  /\ GenerationsIdentify
  /\ DeletionWaits

-----------------------------------------------------------------------------
(* Types and counts. *)

LEMMA NoSyncOK == SyncOK(NoSync) /\ NoSync.seen = {} /\ NoSync.copy = Absent /\ NoSync.current = Absent
<1>1. NoSync \in Syncs
  BY DEF NoSync, Syncs, Phases, NewStatus, Statuses, Failures
<1>2. IsFiniteSet({})
  BY FS_EmptySet
<1> QED BY <1>1, <1>2 DEF NoSync, SyncOK

\* The list of active pods is finite, and its entries name pods that are there.
LEMMA ActivePodsType ==
  ASSUME StoreTypes, NEW uid
  PROVE  /\ ActivePods(uid) \subseteq SeenPods
         /\ IsFiniteSet(ActivePods(uid))
         /\ \A s \in ActivePods(uid) : pods[s.name].owner = uid
<1> DEFINE Names == {q \in Owned(uid) : pods[q].phase # "terminating"}
           entry(p) == [name |-> p, uid |-> pods[p].uid, ready |-> pods[p].phase = "ready"]
<1>1. Names \subseteq PodNames /\ \A p \in Names : pods[p] \in Pods /\ pods[p].owner = uid
  BY DEF Owned, Stored, StoreTypes
<1>2. IsFiniteSet(Names)
  BY <1>1, NameAssumption, FS_Subset
<1>3. ActivePods(uid) = {entry(p) : p \in Names}
  BY DEF ActivePods
<1>4. IsFiniteSet({entry(p) : p \in Names})
  <2> DEFINE f == [p \in Names |-> entry(p)]
             T == {entry(p) : p \in Names}
  <2>1. f \in Surjection(Names, T)
    BY DEF Surjection
  <2> HIDE DEF f, T, Names
  <2>2. IsFiniteSet(T)
    BY <1>2, <2>1, FS_Surjection
  <2> QED BY <2>2 DEF T
<1>5. \A p \in Names : entry(p) \in SeenPods /\ pods[entry(p).name].owner = uid
  BY <1>1 DEF SeenPods, Pods
<1> HIDE DEF Names, entry
<1> QED BY <1>3, <1>4, <1>5

LEMMA AtMostType ==
  ASSUME NEW a \in Nat, NEW b \in Nat
  PROVE  AtMost(a, b) \in Nat /\ AtMost(a, b) <= a /\ AtMost(a, b) <= b
  BY DEF AtMost

\* A list of pods that is finite and whose pods are counted in numbers.
LEMMA Counts ==
  ASSUME NEW S, IsFiniteSet(S)
  PROVE  Cardinality(S) \in Nat /\ Cardinality({s \in S : s.ready}) \in Nat
<1>1. IsFiniteSet({s \in S : s.ready})
  BY FS_Subset
<1> QED BY <1>1, FS_CardinalityType

\* calculateStatus yields a status.
LEMMA StatusType ==
  ASSUME NEW copy \in ReplicaSets, NEW active, IsFiniteSet(active), NEW err \in BOOLEAN
  PROVE  CalculateStatus(copy, active, err) \in Statuses
<1>1. /\ Cardinality(active) \in Nat
      /\ Cardinality({s \in active : s.ready}) \in Nat
  BY Counts
<1>2. copy.status.observed \in Nat /\ copy.status.failure \in Failures
  BY DEF ReplicaSets, Statuses
<1>3. FailureReason(copy, active) \in Failures
  BY DEF FailureReason, Failures
<1>4. (IF ~err THEN "none"
       ELSE IF copy.status.failure = "none" THEN FailureReason(copy, active)
       ELSE copy.status.failure) \in Failures
  BY <1>2, <1>3 DEF Failures
<1> QED BY <1>1, <1>2, <1>4 DEF CalculateStatus, Statuses

\* A sync that is through with its pods writes a status for its copy, or is done.
LEMMA ToStatusOK ==
  ASSUME NEW s \in Syncs, s.copy # Absent, IsFiniteSet(s.seen), NEW err \in BOOLEAN
  PROVE  LET t == ToStatus(s, err)
         IN  /\ SyncOK(t)
             /\ t.seen = {}
             /\ t.copy \in {Absent, s.copy}
             /\ t.current \in {Absent, s.copy}
<1> DEFINE status == CalculateStatus(s.copy, s.seen, err)
           t == [NoSync EXCEPT !.phase = "status", !.copy = s.copy, !.current = s.copy,
                               !.status = [status EXCEPT !.observed = s.copy.gen]]
<1>1. s.copy \in ReplicaSets
  BY DEF Syncs
<1>2. status \in Statuses
  BY <1>1, StatusType
<1>3. ToStatus(s, err) = IF StatusCurrent(s.copy, status) THEN NoSync ELSE t
  BY DEF ToStatus
<1>4. SyncOK(t) /\ t.seen = {} /\ t.copy = s.copy /\ t.current = s.copy
  <2> HIDE DEF status
  <2>1. [status EXCEPT !.observed = s.copy.gen] \in Statuses
    BY <1>1, <1>2 DEF ReplicaSets, Statuses
  <2>2. [status EXCEPT !.observed = s.copy.gen].observed = s.copy.gen
    BY <1>2 DEF Statuses
  <2>3. /\ t.phase = "status" /\ t.seen = {} /\ t.copy = s.copy /\ t.current = s.copy
        /\ t.status = [status EXCEPT !.observed = s.copy.gen]
    BY DEF NoSync
  <2>4. t \in Syncs
    BY <1>1, <2>1, NoSyncOK DEF SyncOK, Syncs, Phases
  <2>5. IsFiniteSet({})
    BY FS_EmptySet
  <2> QED BY <2>2, <2>3, <2>4, <2>5 DEF SyncOK
<1> HIDE DEF t, status
<1> QED BY <1>3, <1>4, NoSyncOK

-----------------------------------------------------------------------------
(* The slow start. *)

\* What a sync keeps while it is creating pods.
Kept(s, t) ==
  /\ SyncOK(t)
  /\ \/ t.seen = {} /\ t.copy \in {Absent, s.copy} /\ t.current \in {Absent, s.copy}
     \/ t.seen = s.seen /\ t.copy = s.copy /\ t.current = s.current

LEMMA ToStatusKept ==
  ASSUME NEW s \in Syncs, s.copy # Absent, IsFiniteSet(s.seen), NEW err \in BOOLEAN
  PROVE  Kept(s, ToStatus(s, err))
  BY ToStatusOK DEF Kept

\* The first batch of a sync that may create n pods.
LEMMA FirstBatchKept ==
  ASSUME NEW s \in Syncs, s.copy # Absent, IsFiniteSet(s.seen), NEW n \in Nat, n >= 1,
         n = Allowance(s), s.successes = 0, s.failed = 0
  PROVE  Kept(s, FirstBatch(s, n))
<1> DEFINE size == AtMost(n, SlowStartInitialBatchSize)
           t == [s EXCEPT !.phase = "create", !.remaining = n, !.batch = size, !.todo = size]
<1>1. size = 1
  BY DEF AtMost, SlowStartInitialBatchSize
<1> HIDE DEF size
<1>2. /\ t \in Syncs
      /\ t.phase = "create" /\ t.remaining = n /\ t.batch = 1 /\ t.todo = 1
      /\ t.successes = 0 /\ t.failed = 0 /\ t.seen = s.seen /\ t.copy = s.copy
      /\ t.current = s.current
  BY <1>1 DEF Syncs, Phases
<1> HIDE DEF t
<1>3. Allowance(t) = n
  BY <1>2 DEF Allowance
<1>4. Counting(t)
  BY <1>2, <1>3 DEF Counting
<1>5. FirstBatch(s, n) = t
  BY DEF FirstBatch, t, size
<1> QED BY <1>2, <1>4, <1>5 DEF Kept, SyncOK

\* A batch that is complete: all its calls are answered.
Complete(s) ==
  LET before == s.successes + s.failed - s.batch
  IN  /\ s.todo = 0
      /\ s.batch >= 1
      /\ s.batch <= s.remaining
      /\ before >= 0
      /\ before + s.remaining = Allowance(s)
      /\ s.batch <= before + 1

LEMMA NextBatchKept ==
  ASSUME NEW s \in Syncs, s.phase = "create", s.copy # Absent, IsFiniteSet(s.seen), Complete(s)
  PROVE  Kept(s, NextBatch(s))
<1> DEFINE remaining == s.remaining - s.batch
           size == AtMost(2 * s.batch, remaining)
           t == [s EXCEPT !.remaining = remaining, !.batch = size, !.todo = size]
<1>1. /\ s.remaining \in Nat /\ s.batch \in Nat /\ s.successes \in Nat /\ s.failed \in Nat
  BY DEF Syncs
<1>2. /\ remaining \in Nat /\ size \in Nat
      /\ size <= 2 * s.batch /\ size <= remaining
  BY <1>1 DEF Complete, AtMost
<1> HIDE DEF size, remaining
<1>3. CASE s.failed > 0
  BY <1>3, ToStatusKept DEF NextBatch
<1>4. CASE ~(s.failed > 0) /\ size = 0
  BY <1>4, ToStatusKept DEF NextBatch, size, remaining
<1>5. CASE ~(s.failed > 0) /\ size # 0
  <2>1. NextBatch(s) = t
    BY <1>5 DEF NextBatch, size, remaining
  <2>2. /\ t \in Syncs
        /\ t.phase = "create" /\ t.remaining = remaining /\ t.batch = size /\ t.todo = size
        /\ t.successes = s.successes /\ t.failed = s.failed
        /\ t.seen = s.seen /\ t.copy = s.copy /\ t.current = s.current
    BY <1>2 DEF Syncs
  <2> HIDE DEF t
  <2>3. Allowance(t) = Allowance(s)
    BY <2>2 DEF Allowance
  <2>4. s.failed = 0
    BY <1>1, <1>5
  <2>5. Allowance(s) = s.successes - s.batch + s.remaining
    BY <1>1, <2>4 DEF Complete
  <2>6. Counting(t)
    <3> DEFINE A == Allowance(s)
    <3>1. remaining = s.remaining - s.batch
      BY DEF remaining
    <3>2. s.batch <= s.successes - s.batch + 1
      BY <1>1, <2>4 DEF Complete
    <3>3. t.todo >= 1 /\ t.todo <= t.batch /\ t.batch <= t.remaining
      BY <1>2, <1>5, <2>2
    <3>4. t.batch - t.todo = 0
      BY <1>2, <2>2
    <3>5. t.successes + t.failed - (t.batch - t.todo) = s.successes
      BY <1>1, <2>2, <2>4, <3>4
    <3>6. s.successes + remaining = Allowance(s)
      BY <1>1, <2>5, <3>1
    <3>7. size <= s.successes + 1
      BY <1>1, <1>2, <3>2
    <3> QED BY <1>1, <2>2, <2>3, <2>4, <3>3, <3>4, <3>5, <3>6, <3>7 DEF Counting
  <2> QED BY <2>1, <2>2, <2>6 DEF Kept, SyncOK
<1> QED BY <1>3, <1>4, <1>5

\* An answered call keeps the count.
LEMMA CallDoneKept ==
  ASSUME NEW s, SyncOK(s), s.phase = "create", NEW ok \in BOOLEAN
  PROVE  Kept(s, CallDone(s, ok))
<1> DEFINE good == IF ok THEN 1 ELSE 0
           bad  == IF ok THEN 0 ELSE 1
           done == [s EXCEPT !.todo = @ - 1, !.successes = @ + good, !.failed = @ + bad]
<1>1. /\ s \in Syncs /\ s.copy # Absent /\ IsFiniteSet(s.seen) /\ Counting(s)
      /\ s.remaining \in Nat /\ s.batch \in Nat /\ s.todo \in Nat
      /\ s.successes \in Nat /\ s.failed \in Nat
  BY DEF SyncOK, Syncs
<1>2. good \in Nat /\ bad \in Nat /\ good + bad = 1 /\ bad <= 1
  OBVIOUS
<1>3. CallDone(s, ok) = IF done.todo > 0 THEN done ELSE NextBatch(done)
  BY DEF CallDone
<1> HIDE DEF good, bad
<1>4. s.todo >= 1
  BY <1>1 DEF Counting
<1>5. /\ done \in Syncs
      /\ done.phase = "create" /\ done.remaining = s.remaining /\ done.batch = s.batch
      /\ done.todo = s.todo - 1 /\ done.successes = s.successes + good
      /\ done.failed = s.failed + bad
      /\ done.seen = s.seen /\ done.copy = s.copy /\ done.current = s.current
  <2>1. s.todo - 1 \in Nat /\ s.successes + good \in Nat /\ s.failed + bad \in Nat
    BY <1>1, <1>2, <1>4
  <2> QED BY <1>1, <2>1 DEF Syncs
<1> HIDE DEF done
<1>6. Allowance(done) = Allowance(s)
  BY <1>5 DEF Allowance
<1>7. done.successes + done.failed - (done.batch - done.todo)
        = s.successes + s.failed - (s.batch - s.todo)
  BY <1>1, <1>2, <1>5
<1>8. CASE s.todo - 1 > 0
  <2>1. Counting(done)
    <3>1. done.todo >= 1 /\ done.todo <= done.batch /\ done.batch <= done.remaining
      BY <1>1, <1>5, <1>8 DEF Counting
    <3>2. done.failed <= done.batch - done.todo
      BY <1>1, <1>2, <1>5 DEF Counting
    <3> QED BY <1>1, <1>5, <1>6, <1>7, <3>1, <3>2 DEF Counting
  <2> QED BY <1>1, <1>3, <1>5, <1>8, <2>1 DEF Kept, SyncOK
<1>9. CASE ~(s.todo - 1 > 0)
  <2>1. s.todo = 1
    BY <1>1, <1>4, <1>9
  <2>2. Complete(done)
    <3>1. done.todo = 0 /\ done.batch >= 1 /\ done.batch <= done.remaining
      BY <1>1, <1>5, <2>1 DEF Counting
    <3>2. done.successes + done.failed - done.batch
            = s.successes + s.failed - (s.batch - s.todo)
      BY <1>1, <1>2, <1>5, <2>1
    <3> QED BY <1>1, <1>5, <1>6, <3>1, <3>2 DEF Counting, Complete
  <2>3. Kept(done, NextBatch(done))
    BY <1>1, <1>5, <2>2, NextBatchKept
  <2> QED BY <1>3, <1>5, <1>9, <2>3 DEF Kept
<1> QED BY <1>8, <1>9

\* An answered delete leaves one victim fewer.
LEMMA VictimDoneKept ==
  ASSUME NEW s, SyncOK(s), s.phase = "delete", NEW v, NEW failed \in BOOLEAN
  PROVE  Kept(s, VictimDone(s, v, failed))
<1> DEFINE done == [s EXCEPT !.victims = @ \ {v}, !.err = @ \/ failed]
<1>1. s \in Syncs /\ s.copy # Absent /\ IsFiniteSet(s.seen) /\ s.victims \subseteq s.seen
  BY DEF SyncOK
<1>2. (s.err \/ failed) \in BOOLEAN /\ s.victims \ {v} \in SUBSET SeenPods
  BY <1>1 DEF Syncs
<1>3. VictimDone(s, v, failed) = IF done.victims # {} THEN done ELSE ToStatus(done, done.err)
  BY DEF VictimDone
<1>4. /\ done \in Syncs
      /\ done.phase = "delete" /\ done.seen = s.seen /\ done.copy = s.copy
      /\ done.current = s.current /\ done.victims \subseteq s.seen /\ done.err \in BOOLEAN
  BY <1>1, <1>2 DEF Syncs
<1> HIDE DEF done
<1>5. Kept(done, ToStatus(done, done.err))
  BY <1>1, <1>4, ToStatusKept
<1> QED BY <1>1, <1>3, <1>4, <1>5 DEF Kept, SyncOK

-----------------------------------------------------------------------------
(* What each step of a sync does to it. *)

Others(w) == \A v \in Workers \ {w} : sync'[v] = sync[v]

\* Only the sync of w moves, and it follows from what it was.
Moves(w) ==
  /\ sync' = [v \in Workers |-> sync'[v]]
  /\ Others(w)
  /\ Follows(sync[w], sync'[w])

LEMMA KeptFollows ==
  ASSUME SyncsOK, NEW w \in Workers, NEW t, Kept(sync[w], t), sync' = [sync EXCEPT ![w] = t]
  PROVE  Moves(w)
<1>1. sync'[w] = t /\ Others(w) /\ sync' = [v \in Workers |-> sync'[v]]
  BY DEF SyncsOK, Others
<1>2. Follows(sync[w], t)
  BY DEF Kept, Follows
<1> QED BY <1>1, <1>2 DEF Moves

LEMMA FinishMoves ==
  ASSUME SyncsOK, NEW w \in Workers, sync' = [sync EXCEPT ![w] = NoSync]
  PROVE  Moves(w)
<1>1. Kept(sync[w], NoSync)
  BY NoSyncOK DEF Kept
<1> QED BY <1>1, KeptFollows

LEMMA ReadMoves ==
  ASSUME StoreTypes, SyncsOK, NEW w \in Workers, ReadReplicaSet(w)
  PROVE  Moves(w)
<1> DEFINE t == [NoSync EXCEPT !.phase = "list", !.copy = rs]
<1>1. rs \in ReplicaSets /\ rs # Absent /\ sync' = [sync EXCEPT ![w] = t]
  BY DEF ReadReplicaSet, StoreTypes
<1>2. t \in Syncs
  BY <1>1, NoSyncOK DEF SyncOK, Syncs, Phases
<1>3. /\ t.phase = "list" /\ t.copy = rs /\ t.seen = {} /\ t.current = Absent
      /\ t.successes = 0 /\ t.failed = 0
  BY DEF NoSync
<1> HIDE DEF t
<1>4. Follows(sync[w], t)
  BY <1>1, <1>2, <1>3, FS_EmptySet DEF Follows, SyncOK
<1>5. sync'[w] = t /\ Others(w) /\ sync' = [v \in Workers |-> sync'[v]]
  BY <1>1 DEF SyncsOK, Others
<1> QED BY <1>4, <1>5 DEF Moves

LEMMA ListMoves ==
  ASSUME StoreTypes, SyncsOK, NEW w \in Workers, ListPods(w)
  PROVE  Moves(w)
<1> DEFINE copy   == sync[w].copy
           active == ActivePods(copy.uid)
           s      == [sync[w] EXCEPT !.seen = active]
           diff   == Cardinality(active) - copy.replicas
<1>1. /\ sync[w] \in Syncs /\ copy # Absent /\ copy \in ReplicaSets /\ sync[w].phase = "list"
      /\ sync[w].successes = 0 /\ sync[w].failed = 0 /\ pods' = pods
  BY DEF ListPods, Worker, SyncsOK, SyncOK, Syncs
<1>2. active \subseteq SeenPods /\ IsFiniteSet(active) /\ Cardinality(active) \in Nat
  BY ActivePodsType, FS_CardinalityType
<1>3. copy.replicas \in Nat
  BY <1>1, SizeAssumption DEF ReplicaSets
<1>4. \/ sync' = [sync EXCEPT ![w] = ToStatus(s, FALSE)]
      \/ /\ diff < 0
         /\ sync' = [sync EXCEPT ![w] = FirstBatch(s, AtMost(-diff, Burst))]
      \/ \E V \in PodsToDelete(active, AtMost(diff, Burst)) :
           sync' = [sync EXCEPT ![w] = [s EXCEPT !.phase = "delete", !.victims = V]]
  BY DEF ListPods
<1> HIDE DEF active
<1>5. /\ s \in Syncs /\ s.copy = copy /\ s.seen = active /\ s.current = sync[w].current
      /\ s.phase = "list" /\ s.successes = 0 /\ s.failed = 0
  BY <1>1, <1>2 DEF Syncs
<1> HIDE DEF s
<1>6. ASSUME NEW t, Kept(s, t), sync' = [sync EXCEPT ![w] = t]
      PROVE  Moves(w)
  <2>1. sync'[w] = t /\ Others(w) /\ sync' = [v \in Workers |-> sync'[v]]
    BY <1>6 DEF SyncsOK, Others
  <2>2. Follows(sync[w], t)
    <3>1. CASE t.seen = {} /\ t.copy \in {Absent, s.copy} /\ t.current \in {Absent, s.copy}
      BY <1>5, <1>6, <3>1 DEF Kept, Follows
    <3>2. CASE t.seen = s.seen /\ t.copy = s.copy /\ t.current = s.current
      BY <1>1, <1>5, <1>6, <3>2 DEF Kept, Follows, active
    <3> QED BY <1>6, <3>1, <3>2 DEF Kept
  <2> QED BY <2>1, <2>2 DEF Moves
<1>7. Kept(s, ToStatus(s, FALSE))
  BY <1>1, <1>2, <1>5, ToStatusKept
<1>8. ASSUME diff < 0
      PROVE  Kept(s, FirstBatch(s, AtMost(-diff, Burst)))
  <2>1. AtMost(-diff, Burst) \in Nat /\ AtMost(-diff, Burst) >= 1
    BY <1>2, <1>3, <1>8, BurstAssumption DEF AtMost
  <2>2. AtMost(-diff, Burst) = Allowance(s)
    <3>1. -diff = copy.replicas - Cardinality(active)
      BY <1>2, <1>3
    <3> QED BY <1>5, <3>1 DEF Allowance
  <2> QED BY <1>1, <1>2, <1>5, <2>1, <2>2, FirstBatchKept
<1>9. ASSUME NEW V \in PodsToDelete(active, AtMost(diff, Burst))
      PROVE  Kept(s, [s EXCEPT !.phase = "delete", !.victims = V])
  <2> DEFINE t == [s EXCEPT !.phase = "delete", !.victims = V]
  <2>1. V \subseteq active
    BY <1>9 DEF PodsToDelete
  <2>2. /\ t \in Syncs /\ t.phase = "delete" /\ t.victims = V /\ t.seen = active
        /\ t.copy = copy /\ t.current = s.current
    BY <1>2, <1>5, <2>1 DEF Syncs, Phases
  <2> HIDE DEF t
  <2>3. Kept(s, t)
    BY <1>1, <1>2, <1>5, <2>1, <2>2 DEF Kept, SyncOK
  <2> QED BY <2>3 DEF t
<1> HIDE DEF diff
<1> QED BY <1>4, <1>6, <1>7, <1>8, <1>9

LEMMA CreateMoves ==
  ASSUME SyncsOK, NEW w \in Workers, CreatePod(w)
  PROVE  Moves(w)
<1>1. SyncOK(sync[w]) /\ sync[w].phase = "create"
  BY DEF CreatePod, Worker, SyncsOK
<1>2. PICK ok \in BOOLEAN : sync' = [sync EXCEPT ![w] = CallDone(sync[w], ok)]
  BY DEF CreatePod
<1> QED BY <1>1, <1>2, CallDoneKept, KeptFollows

LEMMA DeleteMoves ==
  ASSUME SyncsOK, NEW w \in Workers, DeletePod(w)
  PROVE  Moves(w)
<1>1. SyncOK(sync[w]) /\ sync[w].phase = "delete"
  BY DEF DeletePod, Worker, SyncsOK
<1>2. PICK v \in sync[w].victims, failed \in BOOLEAN :
        sync' = [sync EXCEPT ![w] = VictimDone(sync[w], v, failed)]
  BY DEF DeletePod
<1> QED BY <1>1, <1>2, VictimDoneKept, KeptFollows

LEMMA WriteMoves ==
  ASSUME SyncsOK, NEW w \in Workers, WriteStatus(w)
  PROVE  Moves(w)
<1>1. SyncOK(sync[w]) /\ sync[w].phase = "status"
  BY DEF WriteStatus, Worker, SyncsOK
<1>2. \/ sync' = [sync EXCEPT ![w] = NoSync]
      \/ sync' = [sync EXCEPT ![w] = StatusFailed(sync[w])]
  BY DEF WriteStatus, Finish
<1> DEFINE t == [sync[w] EXCEPT !.phase = "get"]
<1>3. Kept(sync[w], t)
  <2>1. /\ t \in Syncs /\ t.phase = "get" /\ t.seen = sync[w].seen /\ t.copy = sync[w].copy
        /\ t.current = sync[w].current /\ t.status = sync[w].status
    BY <1>1 DEF SyncOK, Syncs, Phases
  <2> HIDE DEF t
  <2> QED BY <1>1, <2>1 DEF Kept, SyncOK
<1>4. StatusFailed(sync[w]) \in {NoSync, t}
  BY DEF StatusFailed
<1> HIDE DEF t
<1> QED BY <1>2, <1>3, <1>4, KeptFollows, FinishMoves

LEMMA RefetchMoves ==
  ASSUME StoreTypes, SyncsOK, NEW w \in Workers, Refetch(w)
  PROVE  Moves(w)
<1>1. SyncOK(sync[w]) /\ sync[w].phase = "get" /\ sync[w].copy # Absent
  BY DEF Refetch, Worker, SyncsOK, SyncOK
<1> DEFINE t == [sync[w] EXCEPT !.phase = "status", !.current = rs, !.attempt = @ + 1]
<1>2. \/ sync' = [sync EXCEPT ![w] = NoSync]
      \/ rs # Absent /\ sync' = [sync EXCEPT ![w] = t]
  BY DEF Refetch, NextAttempt
<1>3. CASE rs # Absent /\ sync' = [sync EXCEPT ![w] = t]
  <2>1. sync[w].attempt + 1 \in Nat /\ rs \in ReplicaSets
    BY <1>1, <1>3 DEF SyncOK, Syncs, StoreTypes
  <2>2. /\ t \in Syncs /\ t.phase = "status" /\ t.seen = sync[w].seen /\ t.copy = sync[w].copy
        /\ t.current = rs /\ t.status = sync[w].status
    BY <1>1, <2>1 DEF SyncOK, Syncs, Phases
  <2>3. sync'[w] = t /\ Others(w) /\ sync' = [v \in Workers |-> sync'[v]]
    BY <1>3 DEF SyncsOK, Others
  <2> HIDE DEF t
  <2>4. Follows(sync[w], t)
    BY <1>1, <1>3, <2>2 DEF Follows, SyncOK
  <2> QED BY <2>3, <2>4 DEF Moves
<1> QED BY <1>2, <1>3, FinishMoves

\* A step moves one sync or none.
LEMMA SyncChanges ==
  ASSUME StoreTypes, SyncsOK, Next
  PROVE  sync' = sync \/ \E w \in Workers : Moves(w)
<1>1. CASE Environment
  BY <1>1 DEF Environment, CreateReplicaSet, Scale, SetFinalizer, DeleteReplicaSet,
              CreateOtherPod, RemoveAnyPod, PodBecomesReady, PodStops
<1>2. ASSUME NEW w \in Workers, ReadReplicaSet(w) \/ Step(w)
      PROVE  Moves(w)
  BY <1>2, ReadMoves, ListMoves, CreateMoves, DeleteMoves, WriteMoves, RefetchMoves DEF Step
<1> QED BY <1>1, <1>2 DEF Next

-----------------------------------------------------------------------------
(* What a step does to the set. *)

LEMMA StoreSetStep ==
  ASSUME rs \in ReplicaSets, rs # Absent, DeletionWaits, NEW new \in ReplicaSets,
         StoreReplicaSet(new), new.uid = rs.uid, rs.gen <= new.gen,
         new.gen = rs.gen => new.replicas = rs.replicas, new.deleting => new.held
  PROVE  SetStep
<1>1. CASE new = rs
  BY <1>1 DEF StoreReplicaSet, SetStep
<1>2. CASE new # rs
  <2>1. FreeRVs # {} /\ rs' = [new EXCEPT !.rv = CHOOSE rv \in FreeRVs : TRUE]
    BY <1>2 DEF StoreReplicaSet
  <2>2. PICK rv \in FreeRVs : rs' = [new EXCEPT !.rv = rv]
    BY <2>1
  <2>3. rv \in RVs
    BY <2>2 DEF FreeRVs
  <2>4. /\ rs' \in ReplicaSets /\ rs'.rv = rv /\ rs'.uid = new.uid /\ rs'.gen = new.gen
        /\ rs'.replicas = new.replicas /\ rs'.deleting = new.deleting /\ rs'.held = new.held
    BY <2>2, <2>3 DEF ReplicaSets
  <2> QED BY <2>2, <2>4 DEF SetStep
<1> QED BY <1>1, <1>2

LEMMA PersistSetStep ==
  ASSUME rs \in ReplicaSets, rs # Absent, DeletionWaits, NEW new \in ReplicaSets,
         PersistReplicaSet(new), new.uid = rs.uid, rs.gen <= new.gen,
         new.gen = rs.gen => new.replicas = rs.replicas
  PROVE  SetStep
<1>1. CASE new.deleting /\ ~new.held
  BY <1>1 DEF PersistReplicaSet, SetStep
<1>2. CASE ~(new.deleting /\ ~new.held)
  BY <1>2, StoreSetStep DEF PersistReplicaSet, ReplicaSets
<1> QED BY <1>1, <1>2

LEMMA WriteSetStep ==
  ASSUME StoreTypes, SyncsOK, DeletionWaits, NEW w \in Workers, WriteStatus(w)
  PROVE  SetStep
<1>1. CASE rs' = rs
  BY <1>1 DEF SetStep
<1>2. CASE rs' # rs
  <2> DEFINE new == [rs EXCEPT !.status = sync[w].status, !.held = sync[w].current.held]
  <2>1. rs # Absent /\ PersistReplicaSet(new) /\ sync[w].phase = "status"
    BY <1>2 DEF WriteStatus, Worker
  <2>2. sync[w].status \in Statuses /\ sync[w].current \in ReplicaSets
    BY <2>1 DEF SyncsOK, SyncOK, Syncs
  <2>3. rs \in ReplicaSets /\ rs.gen \in Nat
    BY <2>1 DEF StoreTypes, ReplicaSets
  <2>4. new \in ReplicaSets /\ new.uid = rs.uid /\ new.gen = rs.gen /\ new.replicas = rs.replicas
    BY <2>2, <2>3 DEF ReplicaSets
  <2> HIDE DEF new
  <2> QED BY <2>1, <2>3, <2>4, PersistSetStep
<1> QED BY <1>1, <1>2

LEMMA UserSetStep ==
  ASSUME StoreTypes, DeletionWaits,
         CreateReplicaSet \/ Scale \/ SetFinalizer \/ DeleteReplicaSet
  PROVE  SetStep
<1>0. rs # Absent => rs \in ReplicaSets /\ rs.gen \in Nat /\ rs.gen + 1 \in Nat /\ rs.held \in BOOLEAN
  BY DEF StoreTypes, ReplicaSets
<1>1. CASE CreateReplicaSet
  <2>1. PICK n \in Sizes, uid \in FreeRSUIDs, rv \in FreeRVs :
          rs' = [uid |-> uid, rv |-> rv, gen |-> 1, replicas |-> n, held |-> FALSE,
                 deleting |-> FALSE, status |-> NewStatus]
    BY <1>1 DEF CreateReplicaSet
  <2>2. uid \in RSUIDs /\ rv \in RVs /\ NewStatus \in Statuses
    BY DEF FreeRSUIDs, FreeRVs, NewStatus, Statuses, Failures
  <2>3. rs = Absent
    BY <1>1 DEF CreateReplicaSet
  <2> QED BY <2>1, <2>2, <2>3 DEF SetStep, ReplicaSets
<1>2. CASE Scale
  <2>1. PICK n \in Sizes : StoreReplicaSet([rs EXCEPT !.replicas = n, !.gen = @ + 1])
    BY <1>2 DEF Scale
  <2> DEFINE new == [rs EXCEPT !.replicas = n, !.gen = @ + 1]
  <2>2. rs # Absent /\ rs \in ReplicaSets
    BY <1>0, <1>2 DEF Scale
  <2>3. /\ new \in ReplicaSets /\ new.uid = rs.uid /\ new.gen = rs.gen + 1
        /\ new.deleting = rs.deleting /\ new.held = rs.held
    BY <1>0, <2>2 DEF ReplicaSets
  <2>4. StoreReplicaSet(new)
    BY <2>1
  <2> HIDE DEF new
  <2> QED BY <1>0, <2>2, <2>3, <2>4, StoreSetStep DEF DeletionWaits
<1>3. CASE SetFinalizer
  <2> DEFINE new == [rs EXCEPT !.held = ~@]
  <2>1. rs # Absent /\ rs \in ReplicaSets /\ PersistReplicaSet(new)
    BY <1>0, <1>3 DEF SetFinalizer
  <2>2. new \in ReplicaSets /\ new.uid = rs.uid /\ new.gen = rs.gen /\ new.replicas = rs.replicas
    BY <1>0, <2>1 DEF ReplicaSets
  <2> HIDE DEF new
  <2> QED BY <1>0, <2>1, <2>2, PersistSetStep
<1>4. CASE DeleteReplicaSet
  <2>1. PICK foreground \in BOOLEAN :
          PersistReplicaSet([rs EXCEPT !.held = @ \/ foreground, !.deleting = TRUE, !.gen = @ + 1])
    BY <1>4 DEF DeleteReplicaSet
  <2> DEFINE new == [rs EXCEPT !.held = @ \/ foreground, !.deleting = TRUE, !.gen = @ + 1]
  <2>2. rs # Absent /\ rs \in ReplicaSets /\ PersistReplicaSet(new)
    BY <1>0, <1>4, <2>1 DEF DeleteReplicaSet
  <2>3. new \in ReplicaSets /\ new.uid = rs.uid /\ new.gen = rs.gen + 1
    BY <1>0, <2>2 DEF ReplicaSets
  <2> HIDE DEF new
  <2> QED BY <1>0, <2>2, <2>3, PersistSetStep
<1> QED BY <1>1, <1>2, <1>3, <1>4

LEMMA SetChanges ==
  ASSUME StoreTypes, SyncsOK, DeletionWaits, Next
  PROVE  SetStep
<1>1. ASSUME NEW w \in Workers, ReadReplicaSet(w) \/ Step(w)
      PROVE  SetStep
  <2>1. CASE WriteStatus(w)
    BY <2>1, WriteSetStep
  <2>2. CASE rs' = rs
    BY <2>2 DEF SetStep
  <2> QED BY <1>1, <2>1, <2>2 DEF Step, ReadReplicaSet, ListPods, CreatePod, DeletePod, Refetch
<1>2. CASE Environment
  <2>1. CASE CreateReplicaSet \/ Scale \/ SetFinalizer \/ DeleteReplicaSet
    BY <2>1, UserSetStep
  <2>2. CASE rs' = rs
    BY <2>2 DEF SetStep
  <2> QED BY <1>2, <2>1, <2>2
         DEF Environment, CreateOtherPod, RemoveAnyPod, PodBecomesReady, PodStops
<1> QED BY <1>1, <1>2 DEF Next

-----------------------------------------------------------------------------
(* What a step does to the pods. *)

PodsStep ==
  /\ pods' \in [PodNames -> Pods \cup {Absent}]
  /\ \A p \in PodNames : PodStep(p)

LEMMA SamePods == ASSUME StoreTypes, pods' = pods PROVE PodsStep
  BY DEF StoreTypes, PodsStep, PodStep

\* One pod changes its phase, leaves, or appears.
LEMMA OnePod ==
  ASSUME StoreTypes, NEW p \in PodNames, NEW pod \in Pods \cup {Absent},
         pods' = [pods EXCEPT ![p] = pod],
         \/ pod = Absent
         \/ pods[p] # Absent /\ pod.uid = pods[p].uid /\ pod.owner = pods[p].owner
         \/ pod \in Pods /\ pod.uid \in FreePodUIDs
  PROVE  PodsStep
<1>1. pods'[p] = pod /\ \A q \in PodNames \ {p} : pods'[q] = pods[q]
  BY DEF StoreTypes
<1>2. pods' \in [PodNames -> Pods \cup {Absent}]
  BY DEF StoreTypes
<1>3. PodStep(p)
  BY <1>1 DEF PodStep
<1> QED BY <1>1, <1>2, <1>3 DEF PodsStep, PodStep

\* A change of a pod's phase.
LEMMA PhaseStep ==
  ASSUME StoreTypes, NEW p \in PodNames, pods[p] # Absent,
         NEW phase \in {"pending", "ready", "terminating"}, pods' = [pods EXCEPT ![p].phase = phase]
  PROVE  PodsStep
<1> DEFINE pod == [pods[p] EXCEPT !.phase = phase]
<1>1. pods[p] \in Pods
  BY DEF StoreTypes
<1>2. pod \in Pods /\ pod.uid = pods[p].uid /\ pod.owner = pods[p].owner
  BY <1>1 DEF Pods
<1>3. pods' = [pods EXCEPT ![p] = pod]
  OBVIOUS
<1> HIDE DEF pod
<1> QED BY <1>2, <1>3, OnePod

LEMMA RemoveStep ==
  ASSUME StoreTypes, NEW p \in PodNames, pods[p] # Absent, RemovePod(p)
  PROVE  PodsStep
<1>1. CASE pods' = [pods EXCEPT ![p].phase = "terminating"]
  BY <1>1, PhaseStep
<1>2. CASE pods' = [pods EXCEPT ![p] = Absent]
  BY <1>2, OnePod
<1> QED BY <1>1, <1>2 DEF RemovePod

LEMMA AppearStep ==
  ASSUME StoreTypes, NEW p \in PodNames, FreePodUIDs # {}, NEW owner \in RSUIDs \cup {NoOwner},
         pods' = [pods EXCEPT ![p] =
           [uid |-> CHOOSE uid \in FreePodUIDs : TRUE, owner |-> owner, phase |-> "pending"]]
  PROVE  PodsStep
<1>1. PICK uid \in FreePodUIDs :
        pods' = [pods EXCEPT ![p] = [uid |-> uid, owner |-> owner, phase |-> "pending"]]
  OBVIOUS
<1>2. [uid |-> uid, owner |-> owner, phase |-> "pending"] \in Pods
  BY DEF FreePodUIDs, Pods
<1> QED BY <1>1, <1>2, OnePod

LEMMA PodChanges ==
  ASSUME StoreTypes, SyncsOK, Next
  PROVE  PodsStep
<1>1. ASSUME NEW w \in Workers, CreatePod(w) PROVE PodsStep
  <2>1. CASE pods' = pods
    BY <2>1, SamePods
  <2>2. CASE pods' # pods
    <3>1. FreePodUIDs # {} /\ \E p \in PodNames \ Stored :
             pods' = [pods EXCEPT ![p] =
               [uid |-> CHOOSE uid \in FreePodUIDs : TRUE,
                owner |-> sync[w].copy.uid, phase |-> "pending"]]
      BY <1>1, <2>2 DEF CreatePod
    <3>2. sync[w].copy.uid \in RSUIDs \cup {NoOwner}
      BY <1>1 DEF CreatePod, Worker, SyncsOK, SyncOK, Syncs, ReplicaSets
    <3> QED BY <3>1, <3>2, AppearStep
  <2> QED BY <2>1, <2>2
<1>2. ASSUME NEW w \in Workers, DeletePod(w) PROVE PodsStep
  <2>1. CASE pods' = pods
    BY <2>1, SamePods
  <2>2. CASE pods' # pods
    <3>1. PICK v \in sync[w].victims : pods[v.name] # Absent /\ RemovePod(v.name)
      BY <1>2, <2>2 DEF DeletePod
    <3>2. v.name \in PodNames
      BY DEF SyncsOK, SyncOK, Syncs, SeenPods
    <3> QED BY <3>1, <3>2, RemoveStep
  <2> QED BY <2>1, <2>2
<1>3. ASSUME NEW w \in Workers, ReadReplicaSet(w) \/ Step(w) PROVE PodsStep
  <2>1. CASE pods' = pods
    BY <2>1, SamePods
  <2> QED BY <1>1, <1>2, <1>3, <2>1 DEF Step, ReadReplicaSet, ListPods, WriteStatus, Refetch
<1>4. CASE Environment
  <2>1. CASE CreateOtherPod
    BY <2>1, AppearStep DEF CreateOtherPod
  <2>2. CASE RemoveAnyPod
    BY <2>2, RemoveStep DEF RemoveAnyPod, Stored
  <2>3. ASSUME NEW p \in PodNames, PodBecomesReady(p) PROVE PodsStep
    BY <2>3, PhaseStep DEF PodBecomesReady
  <2>4. ASSUME NEW p \in PodNames, PodStops(p) PROVE PodsStep
    BY <2>4, OnePod DEF PodStops
  <2>5. CASE pods' = pods
    BY <2>5, SamePods
  <2> QED BY <1>4, <2>1, <2>2, <2>3, <2>4, <2>5
         DEF Environment, CreateReplicaSet, Scale, SetFinalizer, DeleteReplicaSet
<1> QED BY <1>3, <1>4 DEF Next

LEMMA LeftType ==
  ASSUME StoreTypes, Next
  PROVE  left' \in 0..MaxDisturbances
<1>1. ASSUME left' = left \/ Disturb PROVE left' \in 0..MaxDisturbances
  BY <1>1, BoundAssumption DEF Disturb, StoreTypes
<1>2. left' = left \/ Disturb
  BY DEF Next, Step, ReadReplicaSet, ListPods, CreatePod, DeletePod, WriteStatus, Refetch,
         Environment, CreateReplicaSet, Scale, SetFinalizer, DeleteReplicaSet,
         CreateOtherPod, RemoveAnyPod, PodBecomesReady, PodStops
<1> QED BY <1>1, <1>2

-----------------------------------------------------------------------------
(* The invariant. *)

LEMMA InvInit == Init => Inv
<1> SUFFICES ASSUME Init PROVE Inv
  OBVIOUS
<1>1. StoreTypes
  BY BoundAssumption DEF Init, StoreTypes
<1>2. \A w \in Workers : sync[w] = NoSync
  BY DEF Init
<1>3. SyncsOK
  BY <1>2, NoSyncOK DEF Init, SyncsOK
<1> QED BY <1>1, <1>2, <1>3, NoSyncOK
       DEF Inv, Init, ListedOwned, VersionsIdentify, GenerationsIdentify, DeletionWaits

LEMMA StoreTypesKept ==
  ASSUME Inv, Next
  PROVE  StoreTypes'
<1>1. rs' \in ReplicaSets \cup {Absent}
  BY SetChanges DEF Inv, SetStep, StoreTypes
<1> QED BY <1>1, PodChanges, LeftType DEF Inv, StoreTypes, PodsStep

LEMMA SyncStepped ==
  ASSUME Inv, Next, NEW w \in Workers
  PROVE  SyncStep(w)
  BY SyncChanges DEF Inv, SyncStep, Moves, Others

LEMMA SyncsKept ==
  ASSUME Inv, Next
  PROVE  SyncsOK'
<1>1. sync' = [v \in Workers |-> sync'[v]]
  BY SyncChanges DEF Inv, SyncsOK, Moves
<1>2. \A w \in Workers : SyncOK(sync'[w])
  BY SyncStepped DEF SyncStep, Follows, Inv, SyncsOK
<1> QED BY <1>1, <1>2 DEF SyncsOK, SyncOK, Counting, Allowance

\* No UID that appears is on any sync's list.
LEMMA ListedKept ==
  ASSUME Inv, Next
  PROVE  ListedOwned'
<1> SUFFICES ASSUME NEW w \in Workers, NEW s \in sync'[w].seen,
                    pods'[s.name] # Absent, pods'[s.name].uid = s.uid
             PROVE  pods'[s.name].owner = sync'[w].copy.uid
  BY DEF ListedOwned
<1>1. CASE s \in sync[w].seen /\ sync'[w].copy = sync[w].copy
  <2>1. s.name \in PodNames
    BY <1>1 DEF Inv, SyncsOK, SyncOK, Syncs, SeenPods
  <2>2. s.uid \notin FreePodUIDs
    BY <1>1 DEF FreePodUIDs
  <2>3. /\ pods[s.name] # Absent /\ pods'[s.name].uid = pods[s.name].uid
        /\ pods'[s.name].owner = pods[s.name].owner
    BY <2>1, <2>2, PodChanges DEF Inv, PodsStep, PodStep
  <2> QED BY <1>1, <2>3 DEF Inv, ListedOwned
<1>2. CASE s \in ActivePods(sync[w].copy.uid) /\ sync'[w].copy = sync[w].copy /\ pods' = pods
  BY <1>2, ActivePodsType DEF Inv
<1> QED BY <1>1, <1>2, SyncStepped DEF SyncStep, Follows

\* A sync's copies are among those whose versions and UIDs are not free.
LEMMA InCopies ==
  ASSUME NEW w \in Workers, NEW c \in {rs, sync[w].copy, sync[w].current} \ {Absent}
  PROVE  c.rv \notin FreeRVs /\ c.uid \notin FreeRSUIDs
<1>1. c \in Copies
  BY DEF Copies
<1> HIDE DEF Copies
<1> QED BY <1>1 DEF FreeRVs, FreeRSUIDs

LEMMA VersionsKept ==
  ASSUME Inv, Next
  PROVE  VersionsIdentify'
<1> SUFFICES ASSUME NEW w \in Workers, NEW c \in {sync'[w].copy, sync'[w].current} \ {Absent},
                    rs' # Absent, c.rv = rs'.rv
             PROVE  c = rs'
  BY DEF VersionsIdentify
<1>1. c \in {sync[w].copy, sync[w].current, rs}
  BY SyncStepped DEF SyncStep, Follows
<1>2. c.rv \notin FreeRVs
  BY <1>1, InCopies
<1>3. rs' = rs
  BY <1>2, SetChanges DEF Inv, SetStep
<1> QED BY <1>1, <1>3 DEF Inv, VersionsIdentify

LEMMA GenerationsKept ==
  ASSUME Inv, Next
  PROVE  GenerationsIdentify'
<1> SUFFICES ASSUME NEW w \in Workers, sync'[w].copy # Absent, rs' # Absent,
                    sync'[w].copy.uid = rs'.uid
             PROVE  /\ sync'[w].copy.gen <= rs'.gen
                    /\ sync'[w].copy.gen = rs'.gen => sync'[w].copy.replicas = rs'.replicas
  BY DEF GenerationsIdentify
<1> DEFINE c == sync'[w].copy
<1>1. c \in {sync[w].copy, rs}
  BY SyncStepped DEF SyncStep, Follows
<1>2. c.uid \notin FreeRSUIDs
  BY <1>1, InCopies
<1>3. /\ rs # Absent /\ rs'.uid = rs.uid /\ rs.gen <= rs'.gen
      /\ rs'.gen = rs.gen => rs'.replicas = rs.replicas
  <2>1. rs' = rs => rs \in ReplicaSets /\ rs.gen \in Nat
    BY DEF Inv, StoreTypes, ReplicaSets
  <2> QED BY <1>2, <2>1, SetChanges DEF Inv, SetStep
<1>4. c \in ReplicaSets /\ rs \in ReplicaSets /\ rs' \in ReplicaSets
  BY <1>1, <1>3, StoreTypesKept DEF Inv, StoreTypes, SyncsOK, SyncOK, Syncs
<1>5. c.gen \in Nat /\ rs.gen \in Nat /\ rs'.gen \in Nat
  BY <1>4 DEF ReplicaSets
<1>6. c.gen <= rs.gen /\ (c.gen = rs.gen => c.replicas = rs.replicas)
  BY <1>1, <1>3, <1>5 DEF Inv, GenerationsIdentify
<1> HIDE DEF c
<1>7. c.gen <= rs'.gen /\ (c.gen = rs'.gen => c.replicas = rs'.replicas)
  BY <1>3, <1>5, <1>6
<1> QED BY <1>7 DEF c

LEMMA WaitingKept ==
  ASSUME Inv, Next
  PROVE  DeletionWaits'
  BY SetChanges DEF Inv, SetStep, DeletionWaits

LEMMA InvKept == Inv /\ [Next]_vars => Inv'
<1> SUFFICES ASSUME Inv, [Next]_vars PROVE Inv'
  OBVIOUS
<1>1. CASE Next
  BY <1>1, StoreTypesKept, SyncsKept, ListedKept, VersionsKept, GenerationsKept, WaitingKept
     DEF Inv
<1>2. CASE UNCHANGED vars
  BY <1>2 DEF vars, Inv, StoreTypes, SyncsOK, SyncOK, Counting, Allowance, ListedOwned,
              VersionsIdentify, GenerationsIdentify, DeletionWaits
<1> QED BY <1>1, <1>2

LEMMA Invariant == Spec => []Inv
  BY InvInit, InvKept, PTL DEF Spec

-----------------------------------------------------------------------------
(* The invariants of the controller. *)

\* The variables keep their types.
THEOREM TypeCorrect == Spec => []TypeOK
<1>1. ASSUME Inv PROVE TypeOK
  <2>1. \A w \in Workers : sync[w] \in Syncs
    BY <1>1 DEF Inv, SyncsOK, SyncOK
  <2>2. sync \in [Workers -> Syncs]
    BY <1>1, <2>1 DEF Inv, SyncsOK
  <2> QED BY <1>1, <2>2 DEF Inv, StoreTypes, TypeOK
<1> QED BY <1>1, Invariant, PTL

\* However many calls of a batch fail, slowStartBatch limits the failures to the
\* successes so far and one, and never makes more calls than are needed.
THEOREM SlowStart == Spec => []SlowStartLimitsFailures
<1>1. ASSUME Inv, NEW w \in Workers, Worker(w, "create")
      PROVE  /\ sync[w].failed + sync[w].todo <= sync[w].successes + 1
             /\ sync[w].successes + sync[w].failed + sync[w].todo <= Allowance(sync[w])
  <2>1. Counting(sync[w])
    BY <1>1 DEF Inv, SyncsOK, SyncOK, Worker
  <2>2. /\ sync[w].failed \in Nat /\ sync[w].successes \in Nat /\ sync[w].todo \in Nat
        /\ sync[w].batch \in Nat /\ sync[w].remaining \in Nat
    BY <1>1 DEF Inv, SyncsOK, SyncOK, Syncs
  <2> QED BY <2>1, <2>2 DEF Counting
<1>2. Inv => SlowStartLimitsFailures
  BY <1>1 DEF SlowStartLimitsFailures
<1> QED BY <1>2, Invariant, PTL

-----------------------------------------------------------------------------
(* What a step may never do. *)

\* Only its own steps move a sync.
LEMMA OwnStep ==
  ASSUME Inv, [Next]_vars, NEW w \in Workers, sync'[w] # sync[w]
  PROVE  ReadReplicaSet(w) \/ Step(w)
<1>1. PICK v \in Workers : ReadReplicaSet(v) \/ Step(v)
  BY DEF vars, Next, Environment, CreateReplicaSet, Scale, SetFinalizer, DeleteReplicaSet,
         CreateOtherPod, RemoveAnyPod, PodBecomesReady, PodStops
<1>2. Moves(v)
  BY <1>1, ReadMoves, ListMoves, CreateMoves, DeleteMoves, WriteMoves, RefetchMoves
     DEF Step, Inv
<1>3. v = w
  BY <1>2 DEF Moves, Others
<1> QED BY <1>1, <1>3

\* A sync of the controller deletes only pods that it listed for its own set.
THEOREM DeletesListed == Spec => OnlyListedPodsDeleted
<1>1. ASSUME Inv, [Next]_vars, NEW w \in Workers, NEW p \in PodNames,
             Worker(w, "delete"), sync'[w] # sync[w], pods'[p] # pods[p]
      PROVE  /\ pods[p].owner = sync[w].copy.uid
             /\ \E s \in sync[w].seen : s.name = p /\ s.uid = pods[p].uid
  <2>1. DeletePod(w)
    BY <1>1, OwnStep
       DEF Worker, Step, ReadReplicaSet, ListPods, CreatePod, WriteStatus, Refetch
  <2>2. PICK v \in sync[w].victims :
          /\ pods[v.name] # Absent
          /\ pods[v.name].uid = v.uid
          /\ RemovePod(v.name)
    BY <1>1, <2>1 DEF DeletePod
  <2>3. v.name = p
    BY <1>1, <2>2 DEF RemovePod, Inv, StoreTypes
  <2>4. v \in sync[w].seen
    BY <1>1 DEF Worker, Inv, SyncsOK, SyncOK
  <2> QED BY <1>1, <2>2, <2>3, <2>4 DEF Inv, ListedOwned
<1>2. Inv /\ [Next]_vars =>
       [\A w \in Workers, p \in PodNames :
          /\ Worker(w, "delete")
          /\ sync'[w] # sync[w]
          /\ pods'[p] # pods[p]
          => /\ pods[p].owner = sync[w].copy.uid
             /\ \E s \in sync[w].seen : s.name = p /\ s.uid = pods[p].uid]_vars
  BY <1>1
<1> QED BY <1>2, Invariant, PTL DEF Spec, OnlyListedPodsDeleted

\* The write of a status that changes the set is a WriteStatus that the API accepts.
LEMMA AcceptedWrite ==
  ASSUME Inv, [Next]_vars, NEW w \in Workers, WritesStatus(w)
  PROVE  LET new == [rs EXCEPT !.status = sync[w].status, !.held = sync[w].current.held]
         IN  /\ ~StatusConflict(sync[w].current)
             /\ PersistReplicaSet(new)
             /\ rs \in ReplicaSets
             /\ sync[w].status \in Statuses
             /\ sync[w].current \in ReplicaSets
<1>1. sync[w].phase = "status" /\ rs # Absent /\ rs' # rs /\ SyncOK(sync[w])
  BY DEF WritesStatus, Worker, Inv, SyncsOK
<1>2. sync'[w] # sync[w]
  BY <1>1 DEF WritesStatus, NoSync
<1>3. WriteStatus(w)
  BY <1>1, <1>2, OwnStep
     DEF Worker, Step, ReadReplicaSet, ListPods, CreatePod, DeletePod, Refetch
<1>4. sync[w].current \in ReplicaSets /\ sync[w].status \in Statuses
  BY <1>1 DEF SyncOK, Syncs
<1> QED BY <1>1, <1>3, <1>4 DEF WriteStatus, Inv, StoreTypes

\* What such a write stores.
LEMMA StoredStatus ==
  ASSUME Inv, [Next]_vars, NEW w \in Workers, WritesStatus(w), rs' # Absent
  PROVE  rs'.gen = rs.gen /\ rs'.replicas = rs.replicas /\ rs'.held = sync[w].current.held
<1> DEFINE new == [rs EXCEPT !.status = sync[w].status, !.held = sync[w].current.held]
<1>1. PersistReplicaSet(new) /\ rs \in ReplicaSets
  BY AcceptedWrite
<1>2. new.gen = rs.gen /\ new.replicas = rs.replicas /\ new.held = sync[w].current.held
  BY <1>1 DEF ReplicaSets
<1>3. new \in ReplicaSets
  BY AcceptedWrite DEF ReplicaSets
<1> HIDE DEF new
<1>4. rs' = new \/ \E rv \in RVs : rs' = [new EXCEPT !.rv = rv]
  <2>1. StoreReplicaSet(new)
    BY <1>1 DEF PersistReplicaSet
  <2>2. CASE new = rs
    BY <2>1, <2>2 DEF StoreReplicaSet
  <2>3. CASE new # rs
    <3>1. FreeRVs # {} /\ rs' = [new EXCEPT !.rv = CHOOSE rv \in FreeRVs : TRUE]
      BY <2>1, <2>3 DEF StoreReplicaSet
    <3> QED BY <3>1 DEF FreeRVs
  <2> QED BY <2>2, <2>3
<1> QED BY <1>2, <1>3, <1>4 DEF ReplicaSets

\* A status that names the live generation comes from a sync that acted on the
\* live spec, whichever copy updateReplicaSetStatus sent it with.
THEOREM GenerationHonest == Spec => ObservedSpecWasActedOn
<1>1. ASSUME Inv, [Next]_vars, NEW w \in Workers, WritesStatus(w), rs' # Absent,
             sync[w].copy.uid = rs.uid, sync[w].status.observed = rs.gen
      PROVE  sync[w].copy.replicas = rs.replicas
  <2>1. rs # Absent /\ sync[w].copy # Absent /\ sync[w].status.observed = sync[w].copy.gen
    BY <1>1 DEF WritesStatus, Worker, Inv, SyncsOK, SyncOK
  <2> QED BY <1>1, <2>1 DEF Inv, GenerationsIdentify
<1>2. Inv /\ [Next]_vars =>
       [\A w \in Workers :
          /\ WritesStatus(w)
          /\ rs' # Absent
          /\ sync[w].copy.uid = rs.uid
          /\ sync[w].status.observed = rs.gen
          => sync[w].copy.replicas = rs.replicas]_vars
  BY <1>1
<1> QED BY <1>2, Invariant, PTL DEF Spec, ObservedSpecWasActedOn

\* With the API's own status update, which refuses a stale version, a status write
\* neither removes the set nor changes its finalizers.
THEOREM StatusSparesTheRest ==
  ASSUME ~RetryingClient
  PROVE  Spec => StatusWriteSparesTheRest
<1>1. ASSUME Inv, [Next]_vars, NEW w \in Workers, WritesStatus(w)
      PROVE  rs' # Absent /\ rs'.held = rs.held
  <2>1. sync[w].current = rs /\ rs # Absent /\ rs \in ReplicaSets
    <3>1. sync[w].current.rv = rs.rv /\ rs \in ReplicaSets
      BY <1>1, AcceptedWrite DEF StatusConflict
    <3>2. sync[w].current # Absent /\ rs # Absent
      BY <1>1 DEF WritesStatus, Worker, Inv, SyncsOK, SyncOK
    <3> QED BY <1>1, <3>1, <3>2 DEF Inv, VersionsIdentify
  <2>2. rs' # Absent
    <3>1. PersistReplicaSet([rs EXCEPT !.status = sync[w].status, !.held = rs.held])
      BY <1>1, <2>1, AcceptedWrite
    <3> DEFINE new == [rs EXCEPT !.status = sync[w].status, !.held = rs.held]
    <3>2. /\ new.deleting => new.held
          /\ new \in ReplicaSets
      BY <1>1, <2>1, AcceptedWrite DEF Inv, DeletionWaits, ReplicaSets
    <3> HIDE DEF new
    <3>3. StoreReplicaSet(new)
      BY <3>1, <3>2 DEF PersistReplicaSet, new
    <3>4. FreeRVs # {} /\ rs' = [new EXCEPT !.rv = CHOOSE rv \in FreeRVs : TRUE]
      BY <1>1, <3>3 DEF StoreReplicaSet, WritesStatus
    <3>5. rs' \in ReplicaSets
      BY <3>2, <3>4 DEF FreeRVs, ReplicaSets
    <3> QED BY <3>5, TokenAssumption
  <2> QED BY <1>1, <2>1, <2>2, StoredStatus
<1>2. Inv /\ [Next]_vars =>
       [\A w \in Workers : WritesStatus(w) => rs' # Absent /\ rs'.held = rs.held]_vars
  BY <1>1
<1> QED BY <1>2, Invariant, PTL DEF Spec, StatusWriteSparesTheRest

-----------------------------------------------------------------------------
(* One sync at a time never overshoots. *)

\* The stronger count: each running pod was listed, or this sync created it.
RunningCounted ==
  \A w \in Workers : Worker(w, "create") =>
    Cardinality(Running(sync[w].copy.uid)) <= Cardinality(sync[w].seen) + sync[w].successes

LEMMA RunningFinite ==
  ASSUME NEW uid
  PROVE  /\ IsFiniteSet(Running(uid)) /\ Cardinality(Running(uid)) \in Nat
         /\ IsFiniteSet(Running(uid)') /\ Cardinality(Running(uid)') \in Nat
<1>1. Running(uid) \subseteq PodNames /\ Running(uid)' \subseteq PodNames
  BY DEF Running
<1>2. IsFiniteSet(Running(uid)) /\ IsFiniteSet(Running(uid)')
  BY <1>1, NameAssumption, FS_Subset
<1> QED BY <1>2, FS_CardinalityType

\* The list has one entry per running pod.
LEMMA RunningListed ==
  ASSUME NEW uid
  PROVE  Cardinality(ActivePods(uid)) = Cardinality(Running(uid))
<1> DEFINE entry(p) == [name |-> p, uid |-> pods[p].uid, ready |-> pods[p].phase = "ready"]
           R == Running(uid)
           T == {entry(p) : p \in R}
           f == [p \in R |-> entry(p)]
<1>1. R = {q \in Owned(uid) : pods[q].phase # "terminating"}
  BY DEF Running, Owned, Stored
<1>2. ActivePods(uid) = T
  BY <1>1 DEF ActivePods
<1>3. \A p, q \in R : entry(p) = entry(q) => p = q
  OBVIOUS
<1> HIDE DEF entry
<1>4. f \in Bijection(R, T)
  BY <1>3 DEF Bijection, Injection, Surjection, IsInjective
<1>5. IsFiniteSet(R)
  BY RunningFinite
<1> HIDE DEF R, T, f
<1>6. Cardinality(T) = Cardinality(R)
  <2>1. ExistsBijection(R, T)
    BY <1>4 DEF ExistsBijection
  <2> QED BY <1>5, <2>1, FS_Bijection
<1> QED BY <1>2, <1>6 DEF R

\* The steps of a sync that create no pod.
CreatesNothing(w) ==
  ReadReplicaSet(w) \/ ListPods(w) \/ DeletePod(w) \/ WriteStatus(w) \/ Refetch(w)

\* What users and the kubelet do to the pods; no sync moves.
LEMMA EnvironmentSteps ==
  ASSUME Environment
  PROVE  /\ sync' = sync
         /\ \/ pods' = pods \/ CreateOtherPod \/ RemoveAnyPod
            \/ \E p \in PodNames : PodBecomesReady(p) \/ PodStops(p)
<1>1. CASE CreateReplicaSet \/ Scale \/ SetFinalizer \/ DeleteReplicaSet
  BY <1>1 DEF CreateReplicaSet, Scale, SetFinalizer, DeleteReplicaSet
<1>2. CASE CreateOtherPod \/ RemoveAnyPod
  BY <1>2 DEF CreateOtherPod, RemoveAnyPod
<1>3. ASSUME NEW p \in PodNames, PodBecomesReady(p) \/ PodStops(p)
      PROVE  sync' = sync
  BY <1>3 DEF PodBecomesReady, PodStops
<1> QED BY <1>1, <1>2, <1>3 DEF Environment

\* A step of a sync that creates nothing moves pods only when it deletes one.
LEMMA CreatesNothingPods ==
  ASSUME NEW w \in Workers, CreatesNothing(w)
  PROVE  pods' = pods \/ DeletePod(w)
  BY DEF CreatesNothing, ReadReplicaSet, ListPods, WriteStatus, Refetch

\* No step but the creation of a pod adds to the pods that a set has running.
LEMMA RunningShrinks ==
  ASSUME StoreTypes, SyncsOK, NEW u \in RSUIDs,
         Environment \/ \E w \in Workers : CreatesNothing(w)
  PROVE  Running(u)' \subseteq Running(u)
<1>1. CASE pods' = pods
  BY <1>1 DEF Running
<1>2. ASSUME NEW p \in PodNames, pods[p] # Absent, RemovePod(p)
      PROVE  Running(u)' \subseteq Running(u)
  <2>1. \A q \in PodNames \ {p} : pods'[q] = pods[q]
    BY <1>2 DEF RemovePod, StoreTypes
  <2>2. pods'[p] = Absent \/ pods'[p].phase = "terminating"
    BY <1>2 DEF RemovePod, StoreTypes, Pods
  <2> QED BY <2>1, <2>2 DEF Running
<1>3. ASSUME NEW w \in Workers, DeletePod(w), pods' # pods
      PROVE  Running(u)' \subseteq Running(u)
  <2>1. PICK v \in sync[w].victims : pods[v.name] # Absent /\ RemovePod(v.name)
    BY <1>3 DEF DeletePod
  <2>2. v.name \in PodNames
    BY DEF SyncsOK, SyncOK, Syncs, SeenPods
  <2> QED BY <1>2, <2>1, <2>2
<1>4. CASE CreateOtherPod
  <2>1. PICK p \in PodNames, fresh \in PodUIDs :
          pods' = [pods EXCEPT ![p] = [uid |-> fresh, owner |-> NoOwner, phase |-> "pending"]]
    BY <1>4 DEF CreateOtherPod, FreePodUIDs
  <2>2. pods'[p].owner # u /\ \A q \in PodNames \ {p} : pods'[q] = pods[q]
    BY <2>1, TokenAssumption DEF StoreTypes
  <2> QED BY <2>2 DEF Running
<1>5. CASE RemoveAnyPod
  BY <1>2, <1>5 DEF RemoveAnyPod, Stored
<1>6. ASSUME NEW p \in PodNames, PodBecomesReady(p)
      PROVE  Running(u)' \subseteq Running(u)
  <2>1. pods[p] \in Pods /\ pods[p].phase = "pending"
    BY <1>6 DEF PodBecomesReady, StoreTypes
  <2>2. pods'[p].owner = pods[p].owner /\ \A q \in PodNames \ {p} : pods'[q] = pods[q]
    BY <1>6, <2>1 DEF PodBecomesReady, StoreTypes, Pods
  <2>3. pods[p] # Absent
    BY <1>6 DEF PodBecomesReady
  <2> QED BY <2>1, <2>2, <2>3 DEF Running
<1>7. ASSUME NEW p \in PodNames, PodStops(p)
      PROVE  Running(u)' \subseteq Running(u)
  <2>1. pods'[p] = Absent /\ \A q \in PodNames \ {p} : pods'[q] = pods[q]
    BY <1>7 DEF PodStops, StoreTypes
  <2> QED BY <2>1 DEF Running
<1>8. CASE Environment
  BY <1>1, <1>4, <1>5, <1>6, <1>7, <1>8, EnvironmentSteps
<1>9. ASSUME NEW w \in Workers, CreatesNothing(w)
      PROVE  Running(u)' \subseteq Running(u)
  BY <1>1, <1>3, <1>9, CreatesNothingPods
<1> QED BY <1>8, <1>9

\* A create call adds one pod when it counts as a success, and none otherwise.
LEMMA CreateAddsOne ==
  ASSUME StoreTypes, NEW w \in Workers, CreatePod(w), NEW uid
  PROVE  \E ok \in BOOLEAN :
           /\ sync' = [sync EXCEPT ![w] = CallDone(sync[w], ok)]
           /\ Cardinality(Running(uid)') <= Cardinality(Running(uid)) + (IF ok THEN 1 ELSE 0)
<1>0. IsFiniteSet(Running(uid)) /\ Cardinality(Running(uid)) \in Nat
  BY RunningFinite
<1>1. CASE pods' = pods
  <2>1. PICK ok \in BOOLEAN : sync' = [sync EXCEPT ![w] = CallDone(sync[w], ok)]
    BY DEF CreatePod
  <2>2. Running(uid)' = Running(uid)
    BY <1>1 DEF Running
  <2>3. Cardinality(Running(uid)') <= Cardinality(Running(uid)) + (IF ok THEN 1 ELSE 0)
    BY <1>0, <2>2
  <2> QED BY <2>1, <2>3
<1>2. CASE pods' # pods
  <2>1. sync' = [sync EXCEPT ![w] = CallDone(sync[w], TRUE)]
    BY <1>2 DEF CreatePod
  <2>2. PICK p \in PodNames : \A q \in PodNames \ {p} : pods'[q] = pods[q]
    BY <1>2 DEF CreatePod, StoreTypes
  <2> DEFINE R == Running(uid)
             more == R \cup {p}
  <2>3. Running(uid)' \subseteq more
    BY <2>2 DEF Running
  <2> HIDE DEF R
  <2>4. IsFiniteSet(more) /\ Cardinality(more) = IF p \in R THEN Cardinality(R) ELSE Cardinality(R) + 1
    BY <1>0, FS_AddElement DEF R
  <2>5. Cardinality(R) \in Nat
    BY <1>0 DEF R
  <2> HIDE DEF more
  <2>6. Cardinality(Running(uid)') <= Cardinality(more)
    BY <2>3, <2>4, FS_Subset
  <2>7. Cardinality(Running(uid)') \in Nat
    BY <2>3, <2>4, FS_Subset, FS_CardinalityType
  <2>8. Cardinality(Running(uid)') <= Cardinality(Running(uid)) + 1
    BY <2>4, <2>5, <2>6, <2>7 DEF R
  <2> QED BY <2>1, <2>8
<1> QED BY <1>1, <1>2

LEMMA ToStatusCreatesNothing ==
  ASSUME NEW s, NEW err
  PROVE  ToStatus(s, err).phase # "create"
  BY DEF ToStatus, NoSync

\* A sync that goes on creating keeps its list, and has counted the answer.
LEMMA CallDoneCounts ==
  ASSUME NEW s \in Syncs, NEW ok \in BOOLEAN, CallDone(s, ok).phase = "create"
  PROVE  /\ CallDone(s, ok).seen = s.seen
         /\ CallDone(s, ok).copy = s.copy
         /\ CallDone(s, ok).successes = s.successes + (IF ok THEN 1 ELSE 0)
         /\ CallDone(s, ok).failed = s.failed + (IF ok THEN 0 ELSE 1)
<1> DEFINE good == IF ok THEN 1 ELSE 0
           bad  == IF ok THEN 0 ELSE 1
           done == [s EXCEPT !.todo = @ - 1, !.successes = @ + good, !.failed = @ + bad]
<1>1. CallDone(s, ok) = IF done.todo > 0 THEN done ELSE NextBatch(done)
  BY DEF CallDone
<1> HIDE DEF good, bad
<1>2. /\ done.seen = s.seen /\ done.copy = s.copy
      /\ done.successes = s.successes + good /\ done.failed = s.failed + bad
  BY DEF Syncs
<1>3. DOMAIN done = DOMAIN s
  OBVIOUS
<1>4. {"seen", "copy", "successes", "failed"} \subseteq DOMAIN s
  BY DEF Syncs
<1> HIDE DEF done
<1>5. CASE CallDone(s, ok) = done
  BY <1>2, <1>5 DEF good, bad
<1>6. CASE CallDone(s, ok) = NextBatch(done)
  <2> DEFINE rest  == done.remaining - done.batch
             size == AtMost(2 * done.batch, rest)
             t    == [done EXCEPT !.remaining = rest, !.batch = size, !.todo = size]
  <2>1. \/ NextBatch(done) = ToStatus(done, TRUE)
        \/ NextBatch(done) = ToStatus(done, FALSE)
        \/ NextBatch(done) = t
    BY DEF NextBatch
  <2>3. NextBatch(done) = t
    BY <1>6, <2>1, ToStatusCreatesNothing
  <2>2. /\ NextBatch(done).seen = done.seen /\ NextBatch(done).copy = done.copy
        /\ NextBatch(done).successes = done.successes /\ NextBatch(done).failed = done.failed
    BY <1>3, <1>4, <2>3
  <2> QED BY <1>2, <1>6, <2>2 DEF good, bad
<1> QED BY <1>1, <1>5, <1>6

LEMMA VictimDoneCreatesNothing ==
  ASSUME NEW s \in Syncs, s.phase = "delete", NEW v, NEW failed
  PROVE  VictimDone(s, v, failed).phase # "create"
<1> DEFINE done == [s EXCEPT !.victims = @ \ {v}, !.err = @ \/ failed]
<1>1. VictimDone(s, v, failed) = IF done.victims # {} THEN done ELSE ToStatus(done, done.err)
  BY DEF VictimDone
<1>2. done.phase = "delete"
  BY DEF Syncs
<1> HIDE DEF done
<1> QED BY <1>1, <1>2, ToStatusCreatesNothing

\* A sync starts to create with a list that is up to date.
StartsFresh(w) ==
  sync'[w].phase = "create" =>
    /\ pods' = pods
    /\ sync'[w].seen = ActivePods(sync'[w].copy.uid)
    /\ sync'[w].successes = 0

LEMMA StartsNothing ==
  ASSUME SyncsOK, NEW w \in Workers, NEW t, sync' = [sync EXCEPT ![w] = t], t.phase # "create"
  PROVE  StartsFresh(w)
<1>1. sync'[w] = t
  BY DEF SyncsOK
<1> QED BY <1>1 DEF StartsFresh

LEMMA ReadStarts ==
  ASSUME SyncsOK, NEW w \in Workers, ReadReplicaSet(w)
  PROVE  StartsFresh(w)
<1>1. [NoSync EXCEPT !.phase = "list", !.copy = rs].phase # "create"
  BY DEF NoSync
<1> QED BY <1>1, StartsNothing DEF ReadReplicaSet

LEMMA ListStarts ==
  ASSUME SyncsOK, NEW w \in Workers, ListPods(w)
  PROVE  StartsFresh(w)
<1> DEFINE copy   == sync[w].copy
           active == ActivePods(copy.uid)
           s      == [sync[w] EXCEPT !.seen = active]
           diff   == Cardinality(active) - copy.replicas
           n      == AtMost(-diff, Burst)
           size   == AtMost(n, SlowStartInitialBatchSize)
           first  == [s EXCEPT !.phase = "create", !.remaining = n, !.batch = size, !.todo = size]
<1>1. sync[w] \in Syncs /\ sync[w].successes = 0 /\ pods' = pods
  BY DEF ListPods, Worker, SyncsOK, SyncOK
<1>2. \/ sync' = [sync EXCEPT ![w] = ToStatus(s, FALSE)]
      \/ sync' = [sync EXCEPT ![w] = FirstBatch(s, AtMost(-diff, Burst))]
      \/ \E V \in PodsToDelete(active, AtMost(diff, Burst)) :
           sync' = [sync EXCEPT ![w] = [s EXCEPT !.phase = "delete", !.victims = V]]
  BY DEF ListPods
<1>3. FirstBatch(s, n) = first
  BY DEF FirstBatch
<1>4. first.seen = active /\ first.copy = copy /\ first.successes = 0
  BY <1>1 DEF Syncs
<1>5. \A V : [s EXCEPT !.phase = "delete", !.victims = V].phase # "create"
  BY <1>1 DEF Syncs
<1> HIDE DEF first, s, diff, active
<1>6. CASE sync' = [sync EXCEPT ![w] = first]
  <2>1. sync'[w] = first
    BY <1>6 DEF SyncsOK
  <2> QED BY <1>1, <1>4, <2>1 DEF StartsFresh, active
<1>7. CASE sync' = [sync EXCEPT ![w] = ToStatus(s, FALSE)]
  BY <1>7, StartsNothing, ToStatusCreatesNothing
<1>8. ASSUME NEW V, sync' = [sync EXCEPT ![w] = [s EXCEPT !.phase = "delete", !.victims = V]]
      PROVE  StartsFresh(w)
  <2> DEFINE t == [s EXCEPT !.phase = "delete", !.victims = V]
  <2>1. t.phase # "create" /\ sync' = [sync EXCEPT ![w] = t]
    BY <1>5, <1>8
  <2> HIDE DEF t
  <2> QED BY <2>1, StartsNothing
<1>9. CASE sync' = [sync EXCEPT ![w] = FirstBatch(s, AtMost(-diff, Burst))]
  BY <1>3, <1>6, <1>9 DEF n
<1> QED BY <1>2, <1>7, <1>8, <1>9

LEMMA DeleteStarts ==
  ASSUME SyncsOK, NEW w \in Workers, DeletePod(w)
  PROVE  StartsFresh(w)
<1>1. sync[w] \in Syncs /\ sync[w].phase = "delete"
  BY DEF DeletePod, Worker, SyncsOK, SyncOK
<1>2. PICK v \in sync[w].victims, failed \in BOOLEAN :
        sync' = [sync EXCEPT ![w] = VictimDone(sync[w], v, failed)]
  BY DEF DeletePod
<1>3. VictimDone(sync[w], v, failed).phase # "create"
  BY <1>1, VictimDoneCreatesNothing
<1> QED BY <1>2, <1>3, StartsNothing

LEMMA StatusStarts ==
  ASSUME SyncsOK, NEW w \in Workers, WriteStatus(w) \/ Refetch(w)
  PROVE  StartsFresh(w)
<1> DEFINE get == [sync[w] EXCEPT !.phase = "get"]
           again == [sync[w] EXCEPT !.phase = "status", !.current = rs, !.attempt = @ + 1]
<1>1. \/ sync' = [sync EXCEPT ![w] = NoSync]
      \/ sync' = [sync EXCEPT ![w] = get]
      \/ sync' = [sync EXCEPT ![w] = again]
  <2>1. CASE WriteStatus(w)
    BY <2>1 DEF WriteStatus, Finish, StatusFailed
  <2>2. CASE Refetch(w)
    BY <2>2 DEF Refetch, NextAttempt
  <2> QED BY <2>1, <2>2
<1>2. sync[w] \in Syncs
  BY DEF SyncsOK, SyncOK
<1>3. get.phase # "create" /\ again.phase # "create" /\ NoSync.phase # "create"
  BY <1>2 DEF Syncs, NoSync
<1> HIDE DEF get, again
<1> QED BY <1>1, <1>3, StartsNothing

LEMMA RunningCountedKept ==
  ASSUME Inv, RunningCounted, [Next]_vars, \A v, w \in Workers : v = w
  PROVE  RunningCounted'
<1> SUFFICES ASSUME NEW w \in Workers, Worker(w, "create")', NEW uid, uid = sync'[w].copy.uid
             PROVE  Cardinality(Running(uid)') <= Cardinality(sync'[w].seen) + sync'[w].successes
  BY DEF RunningCounted, Running
<1>1. CASE UNCHANGED vars
  BY <1>1 DEF vars, RunningCounted, Running, Worker
<1>2. CASE Next
  <2>1. SyncOK(sync[w]) /\ SyncsOK'
    BY <1>2, SyncsKept DEF Inv, SyncsOK
  <2>2. /\ sync[w] \in Syncs /\ sync'[w] \in Syncs /\ sync'[w].phase = "create"
        /\ sync'[w].copy \in ReplicaSets /\ uid \in RSUIDs
    <3>1. SyncOK(sync'[w])
      BY <2>1, SyncsKept, <1>2, SyncStepped DEF SyncStep, Follows
    <3> QED BY <2>1, <3>1 DEF SyncOK, Worker, Syncs, ReplicaSets
  <2>3. /\ sync[w].successes \in Nat /\ IsFiniteSet(sync[w].seen)
        /\ Cardinality(sync[w].seen) \in Nat
    BY <2>1, FS_CardinalityType DEF SyncOK, Syncs
  <2>4. /\ IsFiniteSet(Running(uid)) /\ Cardinality(Running(uid)) \in Nat
    BY RunningFinite
  <2>5. ASSUME Environment \/ CreatesNothing(w)
        PROVE  Cardinality(Running(uid)') <= Cardinality(Running(uid))
    <3>1. Running(uid)' \subseteq Running(uid)
      BY <2>2, <2>5, RunningShrinks DEF Inv
    <3> QED BY <2>4, <3>1, FS_Subset
  <2>6. CASE CreatePod(w)
    <3>1. sync[w].phase = "create"
      BY <2>6 DEF CreatePod, Worker
    <3>2. PICK ok \in BOOLEAN :
            /\ sync' = [sync EXCEPT ![w] = CallDone(sync[w], ok)]
            /\ Cardinality(Running(uid)') <= Cardinality(Running(uid)) + (IF ok THEN 1 ELSE 0)
      BY <2>6, CreateAddsOne DEF Inv
    <3>3. sync'[w] = CallDone(sync[w], ok)
      BY <3>2 DEF Inv, SyncsOK
    <3>4. /\ sync'[w].seen = sync[w].seen /\ sync'[w].copy = sync[w].copy
          /\ sync'[w].successes = sync[w].successes + (IF ok THEN 1 ELSE 0)
      BY <2>2, <3>3, CallDoneCounts
    <3>5. Cardinality(Running(uid)) <= Cardinality(sync[w].seen) + sync[w].successes
      BY <3>1, <3>4 DEF RunningCounted, Worker
    <3> DEFINE c1 == Cardinality(Running(uid)')
               c0 == Cardinality(Running(uid))
    <3>6. c1 <= c0 + (IF ok THEN 1 ELSE 0) /\ c0 <= Cardinality(sync[w].seen) + sync[w].successes
      BY <3>2, <3>5
    <3>7. c0 \in Nat /\ c1 \in Nat
      BY RunningFinite
    <3> HIDE DEF c0, c1
    <3>8. c1 <= Cardinality(sync[w].seen) + (sync[w].successes + (IF ok THEN 1 ELSE 0))
      BY <2>3, <3>6, <3>7
    <3> QED BY <3>4, <3>8 DEF c1
  <2>7. CASE CreatesNothing(w)
    <3>1. pods' = pods /\ sync'[w].seen = ActivePods(uid) /\ sync'[w].successes = 0
      BY <2>2, <2>7, ReadStarts, ListStarts, DeleteStarts, StatusStarts
         DEF CreatesNothing, StartsFresh, Inv
    <3> QED BY <2>4, <2>5, <2>7, <3>1, RunningListed
  <2>8. CASE Environment
    <3>1. sync' = sync
      BY <2>8, EnvironmentSteps
    <3>2. Cardinality(Running(uid)) <= Cardinality(sync[w].seen) + sync[w].successes
      BY <2>2, <3>1 DEF RunningCounted, Worker
    <3>3. /\ Cardinality(Running(uid)') <= Cardinality(Running(uid))
          /\ Cardinality(Running(uid)') \in Nat
      BY <2>5, <2>8, RunningFinite
    <3>4. Cardinality(Running(uid)') <= Cardinality(sync[w].seen) + sync[w].successes
      BY <2>3, <2>4, <3>2, <3>3
    <3> QED BY <3>1, <3>4
  <2>9. Environment \/ CreatePod(w) \/ CreatesNothing(w)
    BY <1>2 DEF Next, Step, CreatesNothing
  <2> QED BY <2>6, <2>7, <2>8, <2>9
<1> QED BY <1>1, <1>2

\* One sync at a time never has more pods running than it found and may add,
\* however the set, its pods and their names change while it creates.
THEOREM NoOvershooting ==
  ASSUME \A v, w \in Workers : v = w
  PROVE  Spec => []NoOvershoot
<1>1. Init => RunningCounted
  BY DEF Init, RunningCounted, Worker, NoSync
<1>2. Inv /\ RunningCounted /\ [Next]_vars => RunningCounted'
  BY RunningCountedKept
<1>3. ASSUME Inv, RunningCounted, NEW w \in Workers, Worker(w, "create")
      PROVE  Cardinality(Running(sync[w].copy.uid))
               <= Cardinality(sync[w].seen) + Allowance(sync[w])
  <2>1. SyncOK(sync[w]) /\ Counting(sync[w])
    BY <1>3 DEF Inv, SyncsOK, SyncOK, Worker
  <2>2. /\ sync[w].copy \in ReplicaSets /\ sync[w].copy.replicas \in Nat
        /\ sync[w].successes \in Nat /\ sync[w].failed \in Nat /\ sync[w].batch \in Nat
        /\ sync[w].todo \in Nat /\ sync[w].remaining \in Nat
    BY <1>3, <2>1, SizeAssumption DEF SyncOK, Syncs, Worker, ReplicaSets
  <2>3. Cardinality(sync[w].seen) \in Nat
    BY <2>1, FS_CardinalityType DEF SyncOK
  <2>4. Allowance(sync[w]) \in Int
    BY <2>2, <2>3, BurstAssumption DEF Allowance, AtMost
  <2>5. sync[w].successes <= Allowance(sync[w])
    BY <2>1, <2>2, <2>4 DEF Counting
  <2>6. Cardinality(Running(sync[w].copy.uid)) \in Nat
    BY RunningFinite
  <2>7. Cardinality(Running(sync[w].copy.uid)) <= Cardinality(sync[w].seen) + sync[w].successes
    BY <1>3 DEF RunningCounted
  <2> QED BY <2>2, <2>3, <2>4, <2>5, <2>6, <2>7
<1>4. Inv /\ RunningCounted => NoOvershoot
  BY <1>3 DEF NoOvershoot
<1> QED BY <1>1, <1>2, <1>4, Invariant, PTL DEF Spec

-----------------------------------------------------------------------------
(* Several syncs of one set. *)

LEMMA ToComeFinite ==
  ASSUME NEW uid
  PROVE  /\ IsFiniteSet(CreatesToCome(uid)) /\ Cardinality(CreatesToCome(uid)) \in Nat
         /\ IsFiniteSet(CreatesToCome(uid)') /\ Cardinality(CreatesToCome(uid)') \in Nat
<1>1. IsFiniteSet(Workers \X (1..Burst))
  <2>1. IsFiniteSet(1..Burst)
    BY BurstAssumption, FS_Interval
  <2> QED BY <2>1, WorkerAssumption, FS_Product
<1>2. CreatesToCome(uid) \subseteq Workers \X (1..Burst) /\ CreatesToCome(uid)' \subseteq Workers \X (1..Burst)
  BY DEF CreatesToCome
<1>3. IsFiniteSet(CreatesToCome(uid)) /\ IsFiniteSet(CreatesToCome(uid)')
  BY <1>1, <1>2, FS_Subset
<1> QED BY <1>3, FS_CardinalityType

\* A sync has calls to make while it creates, no more of them than are missing from
\* its list, and no more than a burst.
LEMMA CallsBounded ==
  ASSUME NEW s, SyncOK(s), s.phase = "create"
  PROVE  /\ CallsLeft(s) \in Nat
         /\ CallsLeft(s) >= 1
         /\ CallsLeft(s) <= Burst
         /\ s.copy \in ReplicaSets
         /\ s.copy.replicas \in Nat
         /\ CallsLeft(s) <= s.copy.replicas - Cardinality(s.seen)
         /\ Cardinality(s.seen) \in Nat
<1>1. /\ s.copy \in ReplicaSets /\ s.copy.replicas \in Nat
      /\ s.successes \in Nat /\ s.failed \in Nat /\ s.batch \in Nat
      /\ s.todo \in Nat /\ s.remaining \in Nat
  BY SizeAssumption DEF SyncOK, Syncs, ReplicaSets
<1>2. Cardinality(s.seen) \in Nat
  BY FS_CardinalityType DEF SyncOK
<1>3. /\ Allowance(s) \in Int /\ Allowance(s) <= Burst
      /\ Allowance(s) <= s.copy.replicas - Cardinality(s.seen)
  BY <1>1, <1>2, BurstAssumption DEF Allowance, AtMost
<1>4. CallsLeft(s) \in Int /\ CallsLeft(s) >= 1 /\ CallsLeft(s) <= Allowance(s)
  BY <1>1, <1>3 DEF SyncOK, Counting, CallsLeft
<1> QED BY <1>1, <1>2, <1>3, <1>4, BurstAssumption

\* The entries of a sync that does not step stay, and one that does not create has none.
LEMMA ToComeElsewhere ==
  ASSUME SyncsOK, NEW w \in Workers, Others(w), NEW uid,
         sync'[w].phase # "create" \/ sync'[w].copy.uid # uid
  PROVE  CreatesToCome(uid)' \subseteq {c \in CreatesToCome(uid) : c[1] # w}
  BY DEF CreatesToCome, Others, Worker

\* A create call makes one entry fewer for its set, whatever the answer.
LEMMA CallMade ==
  ASSUME SyncsOK, NEW w \in Workers, CreatePod(w)
  PROVE  /\ <<w, CallsLeft(sync[w])>> \in CreatesToCome(sync[w].copy.uid)
         /\ \A uid : CreatesToCome(uid)' \subseteq CreatesToCome(uid) \ {<<w, CallsLeft(sync[w])>>}
<1> DEFINE u == sync[w].copy.uid
           n == CallsLeft(sync[w])
<1>1. sync[w].phase = "create" /\ SyncOK(sync[w]) /\ sync[w] \in Syncs
  BY DEF CreatePod, Worker, SyncsOK, SyncOK
<1>2. n \in Nat /\ n >= 1 /\ n <= Burst
  BY <1>1, CallsBounded
<1>3. <<w, n>> \in CreatesToCome(u)
  BY <1>1, <1>2, BurstAssumption DEF CreatesToCome, Worker
<1>4. PICK ok \in BOOLEAN : sync' = [sync EXCEPT ![w] = CallDone(sync[w], ok)]
  BY DEF CreatePod
<1>5. sync'[w] = CallDone(sync[w], ok) /\ Others(w)
  BY <1>4 DEF SyncsOK, Others
<1>6. CASE sync'[w].phase # "create"
  <2>1. \A uid : CreatesToCome(uid)' \subseteq {c \in CreatesToCome(uid) : c[1] # w}
    BY <1>5, <1>6, ToComeElsewhere
  <2>2. \A uid : CreatesToCome(uid)' \subseteq CreatesToCome(uid) \ {<<w, n>>}
    <3> HIDE DEF n
    <3> SUFFICES ASSUME NEW uid, NEW c \in CreatesToCome(uid)'
                 PROVE  c \in CreatesToCome(uid) \ {<<w, n>>}
      OBVIOUS
    <3>1. c \in CreatesToCome(uid) /\ c[1] # w
      BY <2>1
    <3>2. c # <<w, n>>
      BY <3>1
    <3> QED BY <3>1, <3>2
  <2> QED BY <1>3, <2>2
<1>7. CASE sync'[w].phase = "create"
  <2>1. /\ sync'[w].seen = sync[w].seen /\ sync'[w].copy = sync[w].copy
        /\ sync'[w].successes = sync[w].successes + (IF ok THEN 1 ELSE 0)
        /\ sync'[w].failed = sync[w].failed + (IF ok THEN 0 ELSE 1)
    BY <1>1, <1>5, <1>7, CallDoneCounts
  <2>2. Allowance(sync'[w]) = Allowance(sync[w])
    BY <2>1 DEF Allowance
  <2>3. sync[w].successes \in Nat /\ sync[w].failed \in Nat
    BY <1>1 DEF Syncs
  <2>4. sync'[w].successes + sync'[w].failed = sync[w].successes + sync[w].failed + 1
    BY <2>1, <2>3
  <2>5. Allowance(sync[w]) \in Int
    <3>1. Cardinality(sync[w].seen) \in Nat /\ sync[w].copy.replicas \in Nat
      BY <1>1, CallsBounded
    <3> QED BY <3>1, BurstAssumption DEF Allowance, AtMost
  <2>6. CallsLeft(sync'[w]) = n - 1
    BY <2>2, <2>3, <2>4, <2>5 DEF CallsLeft
  <2> HIDE DEF n
  <2>7. \A v \in Workers \ {w} : sync'[v] = sync[v]
    BY <1>5 DEF Others
  <2>8. ASSUME NEW uid, NEW c \in CreatesToCome(uid)'
        PROVE  c \in CreatesToCome(uid) \ {<<w, n>>}
    <3>1. /\ c \in Workers \X (1..Burst) /\ c[1] \in Workers /\ c[2] \in Int
          /\ sync'[c[1]].phase = "create" /\ sync'[c[1]].copy.uid = uid
          /\ c[2] <= CallsLeft(sync'[c[1]])
      BY <2>8, BurstAssumption DEF CreatesToCome, Worker
    <3>2. CASE c[1] = w
      <4>1. c[2] <= n - 1 /\ uid = u
        BY <2>1, <2>6, <3>1, <3>2
      <4>2. c[2] <= n /\ c # <<w, n>>
        BY <1>2, <3>1, <4>1
      <4> QED BY <1>1, <3>1, <3>2, <4>1, <4>2 DEF CreatesToCome, Worker, n
    <3>3. CASE c[1] # w
      BY <2>7, <3>1, <3>3 DEF CreatesToCome, Worker
    <3> QED BY <3>2, <3>3
  <2>9. \A uid : CreatesToCome(uid)' \subseteq CreatesToCome(uid) \ {<<w, n>>}
    BY <2>8
  <2> QED BY <1>3, <2>9 DEF n
<1> QED BY <1>3, <1>6, <1>7

\* A create call starts a pod of its own set only.
LEMMA CreateElsewhere ==
  ASSUME StoreTypes, NEW w \in Workers, CreatePod(w), NEW uid, uid # sync[w].copy.uid
  PROVE  Running(uid)' \subseteq Running(uid)
<1>1. CASE pods' = pods
  BY <1>1 DEF Running
<1>2. CASE pods' # pods
  <2>1. PICK p \in PodNames, fresh \in PodUIDs :
          pods' = [pods EXCEPT ![p] =
            [uid |-> fresh, owner |-> sync[w].copy.uid, phase |-> "pending"]]
    BY <1>2 DEF CreatePod, FreePodUIDs
  <2>2. pods'[p].owner # uid /\ \A q \in PodNames \ {p} : pods'[q] = pods[q]
    BY <2>1 DEF StoreTypes
  <2> QED BY <2>2 DEF Running
<1> QED BY <1>1, <1>2

\* What a set has running and is to get is no more than before.
NoMore(uid) ==
  Cardinality(Running(uid)') + Cardinality(CreatesToCome(uid)')
    <= Cardinality(Running(uid)) + Cardinality(CreatesToCome(uid))

LEMMA BothShrink ==
  ASSUME NEW uid, Running(uid)' \subseteq Running(uid),
         CreatesToCome(uid)' \subseteq CreatesToCome(uid)
  PROVE  NoMore(uid)
<1>1. /\ Cardinality(Running(uid)') <= Cardinality(Running(uid))
      /\ Cardinality(CreatesToCome(uid)') <= Cardinality(CreatesToCome(uid))
  BY RunningFinite, ToComeFinite, FS_Subset
<1>2. /\ Cardinality(Running(uid)) \in Nat /\ Cardinality(Running(uid)') \in Nat
      /\ Cardinality(CreatesToCome(uid)) \in Nat /\ Cardinality(CreatesToCome(uid)') \in Nat
  BY RunningFinite, ToComeFinite
<1> QED BY <1>1, <1>2 DEF NoMore

\* A call that creates a pod pays for it with the entry it had.
LEMMA CreateNoMore ==
  ASSUME StoreTypes, SyncsOK, NEW w \in Workers, CreatePod(w), NEW uid
  PROVE  NoMore(uid)
<1>1. CASE uid # sync[w].copy.uid
  BY <1>1, CreateElsewhere, CallMade, BothShrink
<1>2. CASE uid = sync[w].copy.uid
  <2> DEFINE T == CreatesToCome(uid)
             c == <<w, CallsLeft(sync[w])>>
  <2>1. c \in T /\ T' \subseteq T \ {c}
    <3>1. /\ <<w, CallsLeft(sync[w])>> \in CreatesToCome(sync[w].copy.uid)
          /\ CreatesToCome(uid)' \subseteq CreatesToCome(uid) \ {<<w, CallsLeft(sync[w])>>}
      BY CallMade
    <3> QED BY <1>2, <3>1
  <2>2. IsFiniteSet(T) /\ Cardinality(T) \in Nat /\ IsFiniteSet(T') /\ Cardinality(T') \in Nat
    BY ToComeFinite
  <2>3. IsFiniteSet(Running(uid)) /\ Cardinality(Running(uid)) \in Nat
        /\ Cardinality(Running(uid)') \in Nat
    BY RunningFinite
  <2>4. Cardinality(Running(uid)') <= Cardinality(Running(uid)) + 1
    BY <2>3, CreateAddsOne
  <2>5. Cardinality(T') <= Cardinality(T) - 1
    <3> HIDE DEF c
    <3> DEFINE U == CreatesToCome(uid)
               V == CreatesToCome(uid)'
    <3>1. c \in U /\ V \subseteq U \ {c} /\ IsFiniteSet(U)
      BY <2>1, <2>2
    <3> HIDE DEF U, V
    <3>2. Cardinality(U \ {c}) = Cardinality(U) - 1 /\ IsFiniteSet(U \ {c})
      BY <3>1, FS_RemoveElement
    <3>3. Cardinality(V) <= Cardinality(U \ {c})
      BY <3>1, <3>2, FS_Subset
    <3> QED BY <3>2, <3>3 DEF U, V
  <2> QED BY <2>2, <2>3, <2>4, <2>5 DEF NoMore
<1> QED BY <1>1, <1>2

\* n is the largest size a set is ever given.
Largest(n) == n \in Sizes /\ \A m \in Sizes : m <= n

\* A sync that has listed what runs and may add to it leaves room for a burst of each
\* of the other syncs.
LEMMA ListedInBounds ==
  ASSUME StoreTypes, SyncsOK, SyncsOK', NEW w \in Workers, StartsFresh(w),
         sync'[w].phase = "create", NEW n, Largest(n),
         NEW uid, uid = sync'[w].copy.uid
  PROVE  Cardinality(Running(uid)') + Cardinality(CreatesToCome(uid)')
           <= n + (Cardinality(Workers) - 1) * AtMost(n, Burst)
<1> DEFINE s      == sync'[w]
           rest   == Workers \ {w}
           burst  == 1..AtMost(n, Burst)
           others == rest \X burst
           own    == {w} \X (1..CallsLeft(s))
           T      == CreatesToCome(uid)'
<1>1. \A v \in Workers : SyncOK(sync'[v])
  BY DEF SyncsOK
<1>2. n \in Nat /\ AtMost(n, Burst) \in Nat
  BY SizeAssumption, BurstAssumption, AtMostType DEF Largest
<1>3. \A v \in Workers : sync'[v].phase = "create" => CallsLeft(sync'[v]) <= AtMost(n, Burst)
  <2> SUFFICES ASSUME NEW v \in Workers, sync'[v].phase = "create"
               PROVE  CallsLeft(sync'[v]) <= AtMost(n, Burst)
    OBVIOUS
  <2>1. /\ CallsLeft(sync'[v]) \in Nat /\ CallsLeft(sync'[v]) <= Burst
        /\ sync'[v].copy \in ReplicaSets /\ sync'[v].copy.replicas \in Nat
        /\ CallsLeft(sync'[v]) <= sync'[v].copy.replicas - Cardinality(sync'[v].seen)
        /\ Cardinality(sync'[v].seen) \in Nat
    BY <1>1, CallsBounded
  <2>2. sync'[v].copy.replicas <= n
    BY <2>1 DEF ReplicaSets, Largest
  <2> QED BY <1>2, <2>1, <2>2, BurstAssumption DEF AtMost
<1>4. /\ CallsLeft(s) \in Nat /\ Cardinality(s.seen) \in Nat
      /\ CallsLeft(s) <= n - Cardinality(s.seen)
  <2>1. /\ CallsLeft(s) \in Nat
        /\ s.copy \in ReplicaSets /\ s.copy.replicas \in Nat
        /\ CallsLeft(s) <= s.copy.replicas - Cardinality(s.seen)
        /\ Cardinality(s.seen) \in Nat
    BY <1>1, CallsBounded
  <2>2. s.copy.replicas <= n
    BY <2>1 DEF ReplicaSets, Largest
  <2> QED BY <1>2, <2>1, <2>2
<1>5. Cardinality(s.seen) = Cardinality(Running(uid)')
  <2>1. pods' = pods /\ s.seen = ActivePods(uid)
    BY DEF StartsFresh
  <2>2. Running(uid)' = Running(uid)
    BY <2>1 DEF Running
  <2> QED BY <2>1, <2>2, RunningListed
<1>6. T \subseteq others \cup own
  <2> SUFFICES ASSUME NEW c \in T
               PROVE  c \in others \cup own
    OBVIOUS
  <2>1. /\ c \in Workers \X (1..Burst)
        /\ sync'[c[1]].phase = "create" /\ c[2] <= CallsLeft(sync'[c[1]])
    BY DEF CreatesToCome, Worker
  <2>2. c = <<c[1], c[2]>> /\ c[1] \in Workers /\ c[2] \in Int /\ c[2] >= 1
    BY <2>1, BurstAssumption
  <2>3. CASE c[1] = w
    BY <1>4, <2>1, <2>2, <2>3
  <2>4. CASE c[1] # w
    <3>1. SyncOK(sync'[c[1]])
      BY <1>1, <2>2
    <3>2. CallsLeft(sync'[c[1]]) \in Nat
      BY <2>1, <3>1, CallsBounded
    <3>3. c[2] <= AtMost(n, Burst)
      BY <1>2, <1>3, <2>1, <2>2, <3>2
    <3> QED BY <1>2, <2>2, <2>4, <3>3
  <2> QED BY <2>3, <2>4
<1>7. IsFiniteSet(rest) /\ Cardinality(rest) = Cardinality(Workers) - 1
  BY WorkerAssumption, FS_RemoveElement
<1>8. /\ IsFiniteSet(others)
      /\ Cardinality(others) = (Cardinality(Workers) - 1) * AtMost(n, Burst)
  <2>1. IsFiniteSet(burst) /\ Cardinality(burst) = AtMost(n, Burst)
    BY <1>2, FS_Interval
  <2> HIDE DEF burst, rest
  <2> QED BY <1>7, <2>1, FS_Product
<1>9. IsFiniteSet(own) /\ Cardinality(own) = CallsLeft(s)
  <2>1. IsFiniteSet(1..CallsLeft(s)) /\ Cardinality(1..CallsLeft(s)) = CallsLeft(s)
    BY <1>4, FS_Interval
  <2>2. IsFiniteSet({w}) /\ Cardinality({w}) = 1
    BY FS_Singleton
  <2>3. IsFiniteSet(own) /\ Cardinality(own) = 1 * CallsLeft(s)
    BY <2>1, <2>2, FS_Product
  <2> QED BY <1>4, <2>3
<1>10. Cardinality(T) <= Cardinality(others) + Cardinality(own)
  <2> HIDE DEF others, own, T
  <2>1. /\ IsFiniteSet(others \cup own)
        /\ Cardinality(others \cup own)
             = Cardinality(others) + Cardinality(own) - Cardinality(others \cap own)
    BY <1>8, <1>9, FS_Union
  <2>2. IsFiniteSet(others \cap own)
    BY <1>9, FS_Subset
  <2>3. /\ Cardinality(others) \in Nat /\ Cardinality(own) \in Nat
        /\ Cardinality(others \cap own) \in Nat
    BY <1>8, <1>9, <2>2, FS_CardinalityType
  <2>4. Cardinality(T) <= Cardinality(others \cup own) /\ IsFiniteSet(T)
    BY <1>6, <2>1, FS_Subset
  <2>5. Cardinality(T) \in Nat
    BY <2>4, FS_CardinalityType
  <2> QED BY <2>1, <2>3, <2>4, <2>5
<1>11. Cardinality(T) \in Nat /\ Cardinality(others) \in Nat
  BY ToComeFinite, <1>8, FS_CardinalityType
<1> HIDE DEF T, others, own, s
<1>12. Cardinality(s.seen) + Cardinality(T) <= n + Cardinality(others)
  BY <1>2, <1>4, <1>9, <1>10, <1>11
<1> QED BY <1>5, <1>8, <1>12 DEF T

LEMMA NothingOthers ==
  ASSUME SyncsOK, NEW w \in Workers, CreatesNothing(w)
  PROVE  Others(w)
<1>1. PICK t : sync' = [sync EXCEPT ![w] = t]
  BY DEF CreatesNothing, ReadReplicaSet, ListPods, DeletePod, WriteStatus, Refetch, Finish
<1> QED BY <1>1 DEF SyncsOK, Others

LEMMA RoomForAll ==
  ASSUME NEW n \in Nat, NEW m \in Nat, m <= n, NEW k \in Nat
  PROVE  0 <= n + (k - 1) * m
<1>1. k * m \in Nat /\ (k - 1) * m = k * m - m
  OBVIOUS
<1> QED BY <1>1

LEMMA OvershootKept ==
  ASSUME Inv, OvershootBounded, [Next]_vars
  PROVE  OvershootBounded'
<1> SUFFICES ASSUME NEW uid \in RSUIDs, NEW n \in Sizes, \A m \in Sizes : m <= n
             PROVE  Cardinality(Running(uid)') + Cardinality(CreatesToCome(uid)')
                      <= n + (Cardinality(Workers) - 1) * AtMost(n, Burst)
  BY DEF OvershootBounded, Running
<1> DEFINE limit == n + (Cardinality(Workers) - 1) * AtMost(n, Burst)
<1>1. Cardinality(Running(uid)) + Cardinality(CreatesToCome(uid)) <= limit
  BY DEF OvershootBounded
<1>2. limit \in Int
  BY WorkerAssumption, FS_CardinalityType, SizeAssumption, BurstAssumption, AtMostType
<1>3. Largest(n)
  BY DEF Largest
<1>4. ASSUME NoMore(uid)
      PROVE  Cardinality(Running(uid)') + Cardinality(CreatesToCome(uid)') <= limit
  <2> HIDE DEF limit
  <2>1. /\ Cardinality(Running(uid)) \in Nat /\ Cardinality(Running(uid)') \in Nat
        /\ Cardinality(CreatesToCome(uid)) \in Nat /\ Cardinality(CreatesToCome(uid)') \in Nat
    BY RunningFinite, ToComeFinite
  <2> QED BY <1>1, <1>2, <1>4, <2>1 DEF NoMore
<1>5. CASE UNCHANGED vars
  <2>1. Running(uid)' = Running(uid) /\ CreatesToCome(uid)' = CreatesToCome(uid)
    BY <1>5 DEF vars, Running, CreatesToCome, Worker
  <2> QED BY <1>1, <2>1
<1>6. CASE Next
  <2>1. SyncsOK /\ SyncsOK' /\ StoreTypes
    BY <1>6, SyncsKept DEF Inv
  <2>2. CASE Environment
    <3>1. CreatesToCome(uid)' = CreatesToCome(uid)
      BY <2>2, EnvironmentSteps DEF CreatesToCome, Worker
    <3>2. Running(uid)' \subseteq Running(uid)
      BY <2>1, <2>2, RunningShrinks
    <3> QED BY <1>4, <3>1, <3>2, BothShrink
  <2>3. ASSUME NEW w \in Workers, CreatePod(w)
        PROVE  Cardinality(Running(uid)') + Cardinality(CreatesToCome(uid)') <= limit
    BY <1>4, <2>1, <2>3, CreateNoMore
  <2>4. ASSUME NEW w \in Workers, CreatesNothing(w)
        PROVE  Cardinality(Running(uid)') + Cardinality(CreatesToCome(uid)') <= limit
    <3>1. StartsFresh(w)
      BY <2>1, <2>4, ReadStarts, ListStarts, DeleteStarts, StatusStarts DEF CreatesNothing
    <3>2. CASE sync'[w].phase = "create" /\ sync'[w].copy.uid = uid
      BY <1>3, <2>1, <3>1, <3>2, ListedInBounds
    <3>3. CASE ~(sync'[w].phase = "create" /\ sync'[w].copy.uid = uid)
      <4>1. Others(w)
        BY <2>1, <2>4, NothingOthers
      <4>2. CreatesToCome(uid)' \subseteq CreatesToCome(uid)
        BY <2>1, <3>3, <4>1, ToComeElsewhere
      <4>3. Running(uid)' \subseteq Running(uid)
        BY <2>1, <2>4, RunningShrinks
      <4> QED BY <1>4, <4>2, <4>3, BothShrink
    <3> QED BY <3>2, <3>3
  <2> QED BY <1>6, <2>2, <2>3, <2>4 DEF Next, Step, CreatesNothing
<1> QED BY <1>5, <1>6

\* Any number of syncs of one set, in any order: what the set has running, with what
\* its syncs are going to create, stays within its largest size and a burst for each
\* sync but one.
THEOREM OvershootsInBounds == Spec => []OvershootBounded
<1>1. Init => OvershootBounded
  <2> SUFFICES ASSUME Init, NEW uid \in RSUIDs, NEW n \in Sizes
               PROVE  Cardinality(Running(uid)) + Cardinality(CreatesToCome(uid))
                        <= n + (Cardinality(Workers) - 1) * AtMost(n, Burst)
    BY DEF OvershootBounded
  <2>1. Running(uid) = {} /\ CreatesToCome(uid) = {}
    BY DEF Init, Running, CreatesToCome, Worker, NoSync
  <2>2. Cardinality(Running(uid)) + Cardinality(CreatesToCome(uid)) = 0
    BY <2>1, FS_EmptySet
  <2>3. /\ n \in Nat /\ AtMost(n, Burst) \in Nat /\ AtMost(n, Burst) <= n
        /\ Cardinality(Workers) \in Nat
    BY WorkerAssumption, FS_CardinalityType, SizeAssumption, BurstAssumption, AtMostType
  <2> QED BY <2>2, <2>3, RoomForAll
<1>2. Inv /\ OvershootBounded /\ [Next]_vars => OvershootBounded'
  BY OvershootKept
<1> QED BY <1>1, <1>2, Invariant, PTL DEF Spec
=============================================================================
