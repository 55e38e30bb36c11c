------------------------ MODULE StatefulSetOrderProofs ------------------------
(***************************************************************************)
(* With one sync at a time, for any number of ordinals, sizes, templates   *)
(* and claims: a StatefulSet has at most two pods that its syncs retired,  *)
(* and every write of a sync brings the cluster closer to the set.         *)
(*                                                                         *)
(* That bound is not inductive.  What is: of two retired pods of one set,  *)
(* the higher is the highest pod of the set.  It holds because a sync      *)
(* creates a pod only above pods it saw running, and deletes one only when *)
(* it is the highest or when it saw all running; and because what it saw   *)
(* of the set's pods stays true until it acts.                             *)
(*                                                                         *)
(* Each write takes one element out of one of the six sets that Distance   *)
(* counts.  Deleting an outdated pod adds one to the missing pods, which   *)
(* is why outdated pods count twice.  What a write takes out is there      *)
(* because what the sync listed stays true until it acts.                  *)
(***************************************************************************)
EXTENDS StatefulSetProofs, FiniteSetTheorems

Alone == \A v, w \in Workers : v = w

Retired(n) == pods[n] # Absent /\ pods[n].phase = "retired"

\* No pod of a set is above two retired ones.
TopRetired ==
  \A a, b, c \in Ordinals :
    a < b /\ b < c /\ Retired(a) /\ Retired(b) /\ pods[c] # Absent =>
      ~(pods[a].owner = pods[b].owner /\ pods[b].owner = pods[c].owner)

\* No sync deletes a pod with a bad name.
StraysStay == \A n \in StrayNames : ~Retired(n)

\* The members that are stored and the listed ones agree: on whose they are, on
\* their templates, and that none was retired since.  Listed strays name the set.
Agree(s, store) ==
  /\ \A o \in Ordinals : store[o] # Absent =>
       /\ store[o].owner = s.copy.uid <=> s.listed[o] # Absent
       /\ s.listed[o] # Absent =>
            /\ store[o].template = s.listed[o].template
            /\ store[o].phase = "retired" => s.listed[o].phase = "retired"
  /\ \A n \in StrayNames : s.listed[n] # Absent => s.listed[n].owner = s.copy.uid

ListHolds(s, store) ==
  s.phase \in {"release", "desired", "claim", "delete"} => Agree(s, store)

ListedRunning(s, o) == s.listed[o] # Absent /\ s.listed[o].phase = "running"

\* The pods below the ordinal that a sync is at are there and run.
Passed(s) ==
  s.phase \in {"desired", "claim"} =>
    /\ \A o \in Ordinals : o < s.ordinal => ListedRunning(s, o)
    /\ s.listed[s.ordinal] # Absent => ListedRunning(s, s.ordinal)

\* The pod that goes is condemned or outdated; it is the highest, or all run.
Chosen(s) ==
  s.phase = "delete" =>
    /\ s.listed[s.victim] # Absent
    /\ s.victim > EndOrdinal(s.copy) \/ ~PodSpecMatches(s.copy, s.listed[s.victim])
    /\ \/ \A o \in Ordinals : s.listed[o] # Absent => o <= s.victim
       \/ \A o \in Ordinals : s.listed[o] # Absent => ListedRunning(s, o)

Sees(s, store) == ListHolds(s, store) /\ Passed(s) /\ Chosen(s)

Orderly ==
  /\ TopRetired
  /\ StraysStay
  /\ \A w \in Workers : Sees(sync[w], pods)

-----------------------------------------------------------------------------
(* The decisions of a sync. *)

LEMMA NoSyncSees == ASSUME NEW store PROVE Sees(NoSync, store)
  BY DEF NoSync, Sees, ListHolds, Passed, Chosen

LEMMA TakeDownSees ==
  ASSUME NEW s \in Syncs, s.copy # Absent, NEW store, Agree(s, store),
         \A o \in Ordinals : o <= EndOrdinal(s.copy) => ListedRunning(s, o)
  PROVE  Sees(TakeDown(s), store)
<1> DEFINE candidates == IF Condemned(s) # {} THEN Condemned(s) ELSE Outdated(s)
           victim     == Highest(candidates)
           t          == [s EXCEPT !.phase = "delete", !.victim = victim, !.ordinal = 0]
<1>1. CASE candidates = {} \/ s.listed[victim].phase # "running"
  BY <1>1, NoSyncSees DEF TakeDown
<1>2. CASE ~(candidates = {} \/ s.listed[victim].phase # "running")
  <2>1. TakeDown(s) = t
    BY <1>2 DEF TakeDown
  <2>2. s.copy.replicas \in Ordinals
    BY SizeAssumption DEF Syncs, StatefulSets
  <2>3. EndOrdinal(s.copy) \in Int
    BY <2>2 DEF EndOrdinal, Ordinals
  <2>4. \/ \A o \in Ordinals : s.listed[o] # Absent => o <= victim
        \/ \A o \in Ordinals : s.listed[o] # Absent => ListedRunning(s, o)
    <3>1. CASE Condemned(s) # {}
      <4>1. Condemned(s) \subseteq Ordinals
        BY DEF Condemned
      <4>2. victim \in Condemned(s) /\ \A o \in Condemned(s) : o <= victim
        BY <3>1, <4>1, HighestMember
      <4> HIDE DEF victim
      <4> SUFFICES ASSUME NEW o \in Ordinals, s.listed[o] # Absent PROVE o <= victim
        OBVIOUS
      <4>3. CASE o > EndOrdinal(s.copy)
        BY <4>2, <4>3 DEF Condemned
      <4>4. CASE o <= EndOrdinal(s.copy)
        BY <2>3, <4>2, <4>4 DEF Condemned, Ordinals
      <4> QED BY <2>3, <4>3, <4>4 DEF Ordinals
    <3>2. CASE Condemned(s) = {}
      <4>1. \A o \in Ordinals : s.listed[o] # Absent => o <= EndOrdinal(s.copy)
        BY <2>3, <3>2 DEF Condemned, Ordinals
      <4> QED BY <4>1
    <3> QED BY <3>1, <3>2
  <2>5. /\ t.phase = "delete" /\ t.victim = victim /\ t.copy = s.copy
        /\ t.listed = s.listed
    BY DEF Syncs
  <2>6. /\ s.listed[victim] # Absent
        /\ victim > EndOrdinal(s.copy) \/ ~PodSpecMatches(s.copy, s.listed[victim])
    <3>1. /\ candidates \subseteq Ordinals
          /\ \A o \in candidates :
               /\ s.listed[o] # Absent
               /\ o > EndOrdinal(s.copy) \/ ~PodSpecMatches(s.copy, s.listed[o])
      BY DEF Condemned, Outdated
    <3>2. victim \in candidates
      BY <1>2, <3>1, HighestMember
    <3> QED BY <3>1, <3>2
  <2> HIDE DEF t, victim, candidates
  <2> QED BY <2>1, <2>4, <2>5, <2>6 DEF Sees, ListHolds, Agree, Passed, Chosen, ListedRunning
<1> QED BY <1>1, <1>2

LEMMA DesiredSees ==
  ASSUME NEW s \in Syncs, s.copy # Absent, NEW store, Agree(s, store), NEW o \in Nat,
         \A p \in Ordinals : p < o => ListedRunning(s, p)
  PROVE  Sees(Desired(s, o), store)
<1> DEFINE t == [s EXCEPT !.phase = "desired", !.ordinal = o, !.todo = ClaimTemplates]
<1>1. s.copy.replicas \in Ordinals
  BY SizeAssumption DEF Syncs, StatefulSets
<1>2. EndOrdinal(s.copy) \in Int
  BY <1>1 DEF EndOrdinal, Ordinals
<1>3. CASE o > EndOrdinal(s.copy)
  <2>1. \A p \in Ordinals : p <= EndOrdinal(s.copy) => ListedRunning(s, p)
    BY <1>2, <1>3 DEF Ordinals
  <2> QED BY <1>3, <2>1, TakeDownSees DEF Desired
<1>4. CASE ~(o > EndOrdinal(s.copy)) /\ s.listed[o] # Absent /\ s.listed[o].phase # "running"
  BY <1>4, NoSyncSees DEF Desired
<1>5. CASE /\ ~(o > EndOrdinal(s.copy))
           /\ ~(s.listed[o] # Absent /\ s.listed[o].phase # "running")
  <2>1. Desired(s, o) = t
    BY <1>5 DEF Desired
  <2>2. t.phase = "desired" /\ t.ordinal = o /\ t.copy = s.copy /\ t.listed = s.listed
    BY DEF Syncs
  <2> HIDE DEF t
  <2> QED BY <1>5, <2>1, <2>2 DEF Sees, ListHolds, Agree, Passed, Chosen, ListedRunning
<1> QED BY <1>3, <1>4, <1>5

LEMMA ReleaseStraysSees ==
  ASSUME NEW s \in Syncs, s.copy # Absent, NEW store, Agree(s, store)
  PROVE  Sees(ReleaseStrays(s), store)
<1>1. CASE Strays(s) # {}
  <2> DEFINE t == [s EXCEPT !.phase = "release"]
  <2>1. ReleaseStrays(s) = t
    BY <1>1 DEF ReleaseStrays
  <2>2. t.phase = "release" /\ t.copy = s.copy /\ t.listed = s.listed
    BY DEF Syncs
  <2> HIDE DEF t
  <2> QED BY <2>1, <2>2 DEF Sees, ListHolds, Agree, Passed, Chosen
<1>2. CASE Strays(s) = {}
  <2>1. \A p \in Ordinals : ~(p < 0)
    BY DEF Ordinals
  <2> QED BY <1>2, <2>1, DesiredSees DEF ReleaseStrays
<1> QED BY <1>1, <1>2

-----------------------------------------------------------------------------
(* Steps that retire no pod and create no member. *)

Calm ==
  \A n \in Names : pods'[n] # Absent =>
    \/ n \in StrayNames /\ pods'[n].phase = "running"
    \/ /\ pods[n] # Absent
       /\ n \in Ordinals =>
            pods'[n].owner = pods[n].owner /\ pods'[n].template = pods[n].template
       /\ pods'[n].phase = "retired" => pods[n].phase = "retired"

LEMMA CalmKeeps ==
  ASSUME Calm, TopRetired, StraysStay
  PROVE  TopRetired' /\ StraysStay' /\ \A s : Agree(s, pods) => Agree(s, pods')
<1>1. \A o \in Ordinals : pods'[o] # Absent =>
        /\ pods[o] # Absent
        /\ pods'[o].owner = pods[o].owner /\ pods'[o].template = pods[o].template
        /\ pods'[o].phase = "retired" => pods[o].phase = "retired"
  BY OrdinalAssumption DEF Calm, Names
<1>2. TopRetired'
  BY <1>1 DEF TopRetired, Retired
<1>3. StraysStay'
  BY DEF Calm, StraysStay, Retired, Names
<1>4. ASSUME NEW s, Agree(s, pods) PROVE Agree(s, pods')
  BY <1>1, <1>4 DEF Agree
<1> QED BY <1>2, <1>3, <1>4

LEMMA SameCalm == ASSUME pods' = pods PROVE Calm
  BY DEF Calm

\* A pod that is there is written over with its owner, its template and its phase.
LEMMA OverwriteCalm ==
  ASSUME StoreTypes, NEW n \in Names, pods[n] # Absent, NEW p \in Pods,
         pods' = [pods EXCEPT ![n] = p],
         n \in Ordinals => p.owner = pods[n].owner /\ p.template = pods[n].template,
         p.phase = "retired" => pods[n].phase = "retired"
  PROVE  Calm
<1>1. pods'[n] = p /\ \A m \in Names \ {n} : pods'[m] = pods[m]
  BY DEF StoreTypes
<1> QED BY <1>1 DEF Calm

LEMMA StopCalm ==
  ASSUME StoreTypes, NEW n \in Names, pods[n] # Absent, RemovePod(n, "stopping")
  PROVE  Calm
<1> DEFINE p == [pods[n] EXCEPT !.phase = "stopping"]
<1>1. pods[n] \in Pods
  BY DEF StoreTypes
<1>2. /\ p \in Pods /\ p.owner = pods[n].owner /\ p.template = pods[n].template
      /\ p.phase = "stopping"
  BY <1>1 DEF Pods
<1>3. \/ pods' = pods
      \/ pods' = [pods EXCEPT ![n] = p]
      \/ pods' = [pods EXCEPT ![n] = Absent]
  BY DEF RemovePod
<1> HIDE DEF p
<1>4. CASE pods' = [pods EXCEPT ![n] = Absent]
  BY <1>4 DEF Calm, StoreTypes
<1> QED BY <1>2, <1>3, <1>4, SameCalm, OverwriteCalm

LEMMA ReleaseCalm ==
  ASSUME Inv, NEW w \in Workers, ReleasePod(w)
  PROVE  Calm
<1>1. CASE pods' = pods
  BY <1>1, SameCalm
<1>2. CASE pods' # pods
  <2>1. PICK n \in Strays(sync[w]) :
          /\ pods[n] # Absent
          /\ pods' = [pods EXCEPT ![n] = [sync[w].listed[n] EXCEPT
                        !.owner = NoOwner, !.phase = pods[n].phase]]
    BY <1>2 DEF ReleasePod, Refused
  <2> DEFINE p == [sync[w].listed[n] EXCEPT !.owner = NoOwner, !.phase = pods[n].phase]
  <2>2. n \in StrayNames /\ n \in Names /\ n \notin Ordinals
    BY OrdinalAssumption DEF Strays, Names
  <2>3. sync[w].listed[n] \in Pods /\ pods[n] \in Pods
    BY <2>1, <2>2 DEF Strays, Inv, StoreTypes, SyncsOK, SyncOK, Syncs
  <2>4. p \in Pods /\ p.phase = pods[n].phase
    BY <2>3 DEF Pods
  <2>5. pods' = [pods EXCEPT ![n] = p]
    BY <2>1
  <2> HIDE DEF p
  <2> QED BY <2>1, <2>2, <2>4, <2>5, OverwriteCalm DEF Inv
<1> QED BY <1>1, <1>2

LEMMA UpdateCalm ==
  ASSUME Inv, NEW w \in Workers, UpdatePod(w)
  PROVE  Calm
<1>1. CASE pods' = pods
  BY <1>1, SameCalm
<1>2. CASE pods' # pods
  <2> DEFINE o == sync[w].ordinal
             p == [pods[o] EXCEPT !.labelled = TRUE, !.phase = pods[o].phase]
  <2>1. pods[o] # Absent /\ sync[w].listed[o] = pods[o]
        /\ pods' = [pods EXCEPT ![o] = [sync[w].listed[o] EXCEPT
                      !.labelled = TRUE, !.phase = pods[o].phase]]
    BY <1>2 DEF UpdatePod, UpdateConflict, Refused
  <2>2. o \in Names
    BY DEF Inv, SyncsOK, SyncOK, Syncs, Names
  <2>3. pods[o] \in Pods
    BY <2>1, <2>2 DEF Inv, StoreTypes
  <2>4. /\ p \in Pods /\ p.phase = pods[o].phase /\ p.owner = pods[o].owner
        /\ p.template = pods[o].template
    BY <2>3 DEF Pods
  <2>5. pods' = [pods EXCEPT ![o] = p]
    BY <2>1
  <2> HIDE DEF p
  <2> QED BY <2>1, <2>2, <2>4, <2>5, OverwriteCalm DEF Inv
<1> QED BY <1>1, <1>2

\* What users, the garbage collector and the kubelet do is calm, and no sync moves.
LEMMA OthersCalm ==
  ASSUME Inv, Users \/ Cluster
  PROVE  Calm /\ sync' = sync
<1>1. CASE CreateSet \/ UpdateSet \/ DeleteSet \/ DeleteClaim \/ FinishForegroundDeletion
  BY <1>1, SameCalm DEF CreateSet, UpdateSet, DeleteSet, DeleteClaim, FinishForegroundDeletion
<1>2. CASE CreateStray
  <2>1. PICK n \in StrayNames, t \in Templates :
          pods' = [pods EXCEPT ![n] = [NewPod(sts, n) EXCEPT !.labelled = FALSE, !.template = t]]
    BY <1>2 DEF CreateStray
  <2>2. [NewPod(sts, n) EXCEPT !.labelled = FALSE, !.template = t].phase = "running"
    BY DEF NewPod
  <2>3. pods'[n].phase = "running" /\ \A m \in Names \ {n} : pods'[m] = pods[m]
    BY <2>1, <2>2 DEF Inv, StoreTypes, Names
  <2>4. Calm
    BY <2>3 DEF Calm
  <2> QED BY <1>2, <2>4 DEF CreateStray
<1>3. CASE EditLabels
  <2>1. PICK n \in Stored : pods' = [pods EXCEPT ![n].labelled = ~@]
    BY <1>3 DEF EditLabels
  <2> DEFINE p == [pods[n] EXCEPT !.labelled = ~@]
  <2>2. n \in Names /\ pods[n] # Absent /\ pods[n] \in Pods
    BY DEF Stored, Inv, StoreTypes
  <2>3. /\ p \in Pods /\ p.phase = pods[n].phase /\ p.owner = pods[n].owner
        /\ p.template = pods[n].template
    BY <2>2 DEF Pods
  <2>4. pods' = [pods EXCEPT ![n] = p]
    BY <2>1
  <2> HIDE DEF p
  <2>5. Calm
    BY <2>2, <2>3, <2>4, OverwriteCalm DEF Inv
  <2> QED BY <1>3, <2>5 DEF EditLabels
<1>4. CASE DeleteAnyPod
  BY <1>4, StopCalm DEF DeleteAnyPod, Stored, Inv
<1>5. ASSUME NEW n \in Names, CollectPod(n) PROVE Calm /\ sync' = sync
  BY <1>5, StopCalm DEF CollectPod, Inv
<1>6. ASSUME NEW n \in Names, PodStops(n) PROVE Calm /\ sync' = sync
  BY <1>6 DEF PodStops, Calm, Inv, StoreTypes
<1>7. ASSUME NEW c \in ClaimTemplates \X Ordinals, ClaimGoes(c) PROVE Calm /\ sync' = sync
  BY <1>7, SameCalm DEF ClaimGoes
<1> QED BY <1>1, <1>2, <1>3, <1>4, <1>5, <1>6, <1>7 DEF Users, Cluster

-----------------------------------------------------------------------------
(* The steps of the sync. *)

\* The only sync moves, and knows what it needs to.
LEMMA SyncMoves ==
  ASSUME SyncsOK, Alone, TopRetired', StraysStay', NEW w \in Workers, NEW t,
         sync' = [sync EXCEPT ![w] = t], Sees(t, pods')
  PROVE  Orderly'
<1>1. sync'[w] = t /\ \A v \in Workers : v = w
  BY DEF SyncsOK, Alone
<1> QED BY <1>1 DEF Orderly

LEMMA CalmSyncMoves ==
  ASSUME Inv, Orderly, Alone, Calm, NEW w \in Workers, NEW t,
         sync' = [sync EXCEPT ![w] = t],
         (\A s : Agree(s, pods) => Agree(s, pods')) => Sees(t, pods')
  PROVE  Orderly'
<1>1. TopRetired' /\ StraysStay' /\ \A s : Agree(s, pods) => Agree(s, pods')
  BY CalmKeeps DEF Orderly
<1> QED BY <1>1, SyncMoves DEF Inv

LEMMA StillOrderly == ASSUME Orderly, Calm, sync' = sync PROVE Orderly'
<1>1. TopRetired' /\ StraysStay' /\ \A s : Agree(s, pods) => Agree(s, pods')
  BY CalmKeeps DEF Orderly
<1>2. ASSUME NEW w \in Workers PROVE Sees(sync[w], pods')
  BY <1>1 DEF Orderly, Sees, ListHolds
<1> QED BY <1>1, <1>2 DEF Orderly

LEMMA Finishes ==
  ASSUME Inv, Orderly, Alone, Calm, NEW w \in Workers, Finish(w)
  PROVE  Orderly'
  BY NoSyncSees, CalmSyncMoves DEF Finish

LEMMA ReadSetOrderly ==
  ASSUME Inv, Orderly, Alone, NEW w \in Workers, ReadSet(w)
  PROVE  Orderly'
<1> DEFINE t == [NoSync EXCEPT !.phase = "list", !.copy = sts]
<1>1. sync' = [sync EXCEPT ![w] = t] /\ pods' = pods
  BY DEF ReadSet, GoOn
<1>2. t.phase = "list"
  BY DEF NoSync
<1> HIDE DEF t
<1>3. Sees(t, pods')
  BY <1>2 DEF Sees, ListHolds, Passed, Chosen
<1> QED BY <1>1, <1>3, SameCalm, CalmSyncMoves

\* The list is what is stored at this moment.
LEMMA ListPodsOrderly ==
  ASSUME Inv, Orderly, Alone, NEW w \in Workers, ListPods(w)
  PROVE  Orderly'
<1> DEFINE uid == sync[w].copy.uid
           listed == [n \in Names |-> IF n \in Owned(uid) THEN pods[n] ELSE Absent]
           s == [sync[w] EXCEPT !.listed = listed]
           t == IF s.copy.deleting THEN NoSync ELSE ReleaseStrays(s)
<1>1. sync[w] \in Syncs /\ sync[w].copy # Absent /\ pods' = pods
  BY DEF ListPods, Worker, Inv, SyncsOK, SyncOK
<1>2. sync' = [sync EXCEPT ![w] = t]
  BY DEF ListPods, GoOn
<1>3. listed \in [Names -> Pods \cup {Absent}]
  BY DEF Inv, StoreTypes
<1>4. \A o \in Names : listed[o] = IF o \in Owned(uid) THEN pods[o] ELSE Absent
  BY DEF Names
<1> HIDE DEF listed
<1>5. s \in Syncs /\ s.copy = sync[w].copy /\ s.listed = listed
  BY <1>1, <1>3 DEF Syncs
<1> HIDE DEF s
<1>6. Agree(s, pods')
  BY <1>1, <1>4, <1>5 DEF Agree, Owned, Stored, Names
<1>7. Sees(t, pods')
  BY <1>1, <1>5, <1>6, NoSyncSees, ReleaseStraysSees
<1> HIDE DEF t
<1> QED BY <1>1, <1>2, <1>7, SameCalm, CalmSyncMoves

LEMMA ReleasePodOrderly ==
  ASSUME Inv, Orderly, Alone, NEW w \in Workers, ReleasePod(w)
  PROVE  Orderly'
<1>1. Calm
  BY ReleaseCalm
<1>2. CASE Finish(w)
  BY <1>1, <1>2, Finishes
<1>3. CASE ~Finish(w)
  <2>1. PICK n \in Strays(sync[w]) :
          GoOn(w, ReleaseStrays([sync[w] EXCEPT !.listed[n] = Absent]))
    BY <1>3 DEF ReleasePod, Refused
  <2> DEFINE s == [sync[w] EXCEPT !.listed[n] = Absent]
  <2>2. /\ sync[w] \in Syncs /\ sync[w].copy # Absent /\ Agree(sync[w], pods)
        /\ n \in Names /\ n \notin Ordinals
    BY OrdinalAssumption
       DEF ReleasePod, Worker, Inv, SyncsOK, SyncOK, Orderly, Sees, ListHolds, Strays, Names
  <2>3. /\ s \in Syncs /\ s.copy = sync[w].copy
        /\ s.listed[n] = Absent
        /\ \A m \in Names \ {n} : s.listed[m] = sync[w].listed[m]
    BY <2>2 DEF Syncs
  <2>4. sync' = [sync EXCEPT ![w] = ReleaseStrays(s)]
    BY <2>1 DEF GoOn
  <2> HIDE DEF s
  <2>5. Agree(s, pods)
    BY <2>2, <2>3 DEF Agree, Names
  <2>6. Agree(s, pods') => Sees(ReleaseStrays(s), pods')
    BY <2>2, <2>3, ReleaseStraysSees
  <2> QED BY <1>1, <2>4, <2>5, <2>6, CalmSyncMoves
<1> QED BY <1>2, <1>3

\* While the sync deals with claims, it stays at its ordinal.
LEMMA StaysAt ==
  ASSUME Inv, Orderly, NEW w \in Workers, sync[w].phase \in {"desired", "claim"}, NEW t,
         t.phase \in {"desired", "claim"}, t.copy = sync[w].copy,
         t.listed = sync[w].listed, t.ordinal = sync[w].ordinal
  PROVE  Sees(t, pods)
<1>1. Sees(sync[w], pods)
  BY DEF Orderly
<1> QED BY <1>1 DEF Sees, ListHolds, Agree, Passed, Chosen, ListedRunning

LEMMA ClaimsOrderly ==
  ASSUME Inv, Orderly, Alone, NEW w \in Workers, GetClaim(w) \/ CreateClaim(w)
  PROVE  Orderly'
<1>1. sync[w] \in Syncs /\ sync[w].phase \in {"desired", "claim"} /\ pods' = pods
  BY DEF GetClaim, CreateClaim, Refused, Worker, Inv, SyncsOK, SyncOK
<1>2. Calm
  BY <1>1, SameCalm
<1>3. CASE Finish(w)
  BY <1>2, <1>3, Finishes
<1>4. CASE ~Finish(w)
  <2>1. PICK t :
          /\ sync' = [sync EXCEPT ![w] = t]
          /\ t.phase \in {"desired", "claim"} /\ t.copy = sync[w].copy
          /\ t.listed = sync[w].listed /\ t.ordinal = sync[w].ordinal
    <3>1. CASE GetClaim(w)
      <4>1. PICK c : GoOn(w, IF ClaimExists(<<c, sync[w].ordinal>>)
                             THEN [sync[w] EXCEPT !.todo = @ \ {c}]
                             ELSE [sync[w] EXCEPT !.phase = "claim", !.claim = c])
        BY <3>1 DEF GetClaim
      <4> DEFINE t1 == [sync[w] EXCEPT !.todo = @ \ {c}]
                 t2 == [sync[w] EXCEPT !.phase = "claim", !.claim = c]
      <4>2. \A t \in {t1, t2} :
              /\ t.phase \in {"desired", "claim"} /\ t.copy = sync[w].copy
              /\ t.listed = sync[w].listed /\ t.ordinal = sync[w].ordinal
        BY <1>1 DEF Syncs
      <4>3. \E t \in {t1, t2} : sync' = [sync EXCEPT ![w] = t]
        BY <4>1 DEF GoOn
      <4> HIDE DEF t1, t2
      <4> QED BY <4>2, <4>3
    <3>2. CASE CreateClaim(w)
      <4> DEFINE t1 == ClaimDone(sync[w])
      <4>1. sync' = [sync EXCEPT ![w] = t1]
        BY <1>4, <3>2 DEF CreateClaim, Refused, GoOn
      <4>2. /\ t1.phase = "desired" /\ t1.copy = sync[w].copy
            /\ t1.listed = sync[w].listed /\ t1.ordinal = sync[w].ordinal
        BY <1>1 DEF Syncs, ClaimDone
      <4> HIDE DEF t1
      <4> QED BY <4>1, <4>2
    <3> QED BY <3>1, <3>2
  <2>2. Sees(t, pods')
    BY <1>1, <2>1, StaysAt
  <2> QED BY <1>2, <2>1, <2>2, CalmSyncMoves
<1> QED BY <1>3, <1>4

LEMMA UpdatePodOrderly ==
  ASSUME Inv, Orderly, Alone, NEW w \in Workers, UpdatePod(w)
  PROVE  Orderly'
<1> DEFINE s == sync[w]
           o == s.ordinal
<1>1. Calm
  BY UpdateCalm
<1>2. /\ s \in Syncs /\ s.copy # Absent /\ Agree(s, pods) /\ s.phase = "desired"
      /\ \A p \in Ordinals : p < o => ListedRunning(s, p)
      /\ ListedRunning(s, o)
  BY DEF UpdatePod, ClaimsDone, Worker, Inv, SyncsOK, SyncOK, Orderly, Sees, ListHolds, Passed
<1>3. o \in Nat /\ \A p \in Ordinals : p < o + 1 => p < o \/ p = o
  BY <1>2, OrdinalAssumption DEF Syncs, Ordinals
<1>4. CASE Finish(w)
  BY <1>1, <1>4, Finishes
<1>5. CASE GoOn(w, Desired(s, o + 1))
  <2>1. \A p \in Ordinals : p < o + 1 => ListedRunning(s, p)
    BY <1>2, <1>3
  <2>2. o + 1 \in Nat
    BY <1>3
  <2>3. sync' = [sync EXCEPT ![w] = Desired(s, o + 1)]
    BY <1>5 DEF GoOn
  <2> HIDE DEF s, o
  <2>4. Agree(s, pods') => Sees(Desired(s, o + 1), pods')
    BY <1>2, <2>1, <2>2, DesiredSees
  <2> QED BY <1>1, <1>2, <2>3, <2>4, CalmSyncMoves
<1> QED BY <1>4, <1>5 DEF UpdatePod, Refused

\* A new pod is above pods that were listed as running and were not retired since.
LEMMA CreatePodOrderly ==
  ASSUME Inv, Orderly, Alone, NEW w \in Workers, CreatePod(w)
  PROVE  Orderly'
<1> DEFINE s == sync[w]
           o == s.ordinal
           new == NewPod(s.copy, o)
<1>1. Finish(w)
  BY DEF CreatePod
<1>2. CASE pods' = pods
  BY <1>1, <1>2, SameCalm, Finishes
<1>3. CASE pods' # pods
  <2>1. pods[o] = Absent /\ pods' = [pods EXCEPT ![o] = new]
    BY <1>3 DEF CreatePod
  <2>2. /\ s \in Syncs /\ Agree(s, pods) /\ o \in Ordinals /\ o \in Names /\ o \notin StrayNames
        /\ \A p \in Ordinals : p < o => ListedRunning(s, p)
    BY OrdinalAssumption
       DEF CreatePod, ClaimsDone, Worker, Inv, SyncsOK, SyncOK, Orderly, Sees, ListHolds,
           Passed, Syncs, Names
  <2>3. new.owner = s.copy.uid /\ new.phase = "running"
    BY DEF NewPod
  <2>4. pods'[o] = new /\ \A n \in Names \ {o} : pods'[n] = pods[n]
    BY <2>1, <2>2 DEF Inv, StoreTypes
  <2> HIDE DEF new
  <2>5. \A n \in Names : Retired(n)' => n # o /\ Retired(n)
    BY <2>3, <2>4 DEF Retired
  <2>6. StraysStay'
    BY <2>5 DEF Orderly, StraysStay, Names
  <2>7. TopRetired'
    <3> SUFFICES ASSUME NEW a \in Ordinals, NEW b \in Ordinals, NEW c \in Ordinals,
                        a < b, b < c, Retired(a)', Retired(b)', pods'[c] # Absent,
                        pods'[a].owner = pods'[b].owner, pods'[b].owner = pods'[c].owner
                 PROVE  FALSE
      BY DEF TopRetired
    <3>1. /\ Retired(a) /\ Retired(b) /\ a # o /\ b # o
          /\ pods'[a] = pods[a] /\ pods'[b] = pods[b]
      BY <2>4, <2>5 DEF Names
    <3>2. CASE c # o
      BY <2>4, <3>1, <3>2 DEF Orderly, TopRetired, Names
    <3>3. CASE c = o
      <4>1. pods[b].owner = s.copy.uid /\ ListedRunning(s, b)
        BY <2>2, <2>3, <2>4, <3>1, <3>3
      <4> QED BY <2>2, <3>1, <4>1 DEF Agree, Retired, ListedRunning
    <3> QED BY <3>2, <3>3
  <2> QED BY <1>1, <2>6, <2>7, NoSyncSees, SyncMoves DEF Finish, Inv
<1> QED BY <1>2, <1>3

\* A pod is retired only when it is the highest of its set or none was retired.
LEMMA DeletePodOrderly ==
  ASSUME Inv, Orderly, Alone, NEW w \in Workers, DeletePod(w)
  PROVE  Orderly'
<1> DEFINE s == sync[w]
           v == s.victim
           gone == [pods[v] EXCEPT !.phase = "retired"]
<1>1. Finish(w)
  BY DEF DeletePod, Refused
<1>2. /\ s \in Syncs /\ Agree(s, pods) /\ v \in Ordinals /\ v \in Names /\ v \notin StrayNames
      /\ s.listed[v] # Absent
      /\ \/ \A o \in Ordinals : s.listed[o] # Absent => o <= v
         \/ \A o \in Ordinals : s.listed[o] # Absent => ListedRunning(s, o)
  BY OrdinalAssumption
     DEF DeletePod, Worker, Inv, SyncsOK, SyncOK, Orderly, Sees, ListHolds, Chosen, Syncs, Names
<1>3. \/ pods' = pods
      \/ pods[v] # Absent /\ pods' = [pods EXCEPT ![v] = gone]
      \/ pods[v] # Absent /\ pods' = [pods EXCEPT ![v] = Absent]
  BY DEF DeletePod, RemovePod, Refused
<1>4. CASE pods' = pods
  BY <1>1, <1>4, SameCalm, Finishes
<1>5. CASE pods[v] # Absent /\ pods' = [pods EXCEPT ![v] = Absent]
  <2>1. Calm
    BY <1>2, <1>5 DEF Calm, Inv, StoreTypes
  <2> QED BY <1>1, <2>1, Finishes
<1>6. CASE pods[v] # Absent /\ pods' = [pods EXCEPT ![v] = gone]
  <2>1. gone.owner = pods[v].owner /\ gone # Absent
    <3>1. pods[v] \in Pods
      BY <1>2, <1>6 DEF Inv, StoreTypes
    <3> QED BY <3>1, TokenAssumption DEF Pods
  <2>2. pods'[v] = gone /\ \A n \in Names \ {v} : pods'[n] = pods[n]
    BY <1>2, <1>6 DEF Inv, StoreTypes
  <2> HIDE DEF gone
  <2>3. \A n \in Names \ {v} : Retired(n)' => Retired(n)
    BY <2>2 DEF Retired
  <2>4. StraysStay'
    BY <1>2, <2>3 DEF Orderly, StraysStay, Names
  <2>5. TopRetired'
    <3> SUFFICES ASSUME NEW a \in Ordinals, NEW b \in Ordinals, NEW c \in Ordinals,
                        a < b, b < c, Retired(a)', Retired(b)', pods'[c] # Absent,
                        pods'[a].owner = pods'[b].owner, pods'[b].owner = pods'[c].owner
                 PROVE  FALSE
      BY DEF TopRetired
    <3>1. /\ pods[a] # Absent /\ pods[b] # Absent /\ pods[c] # Absent
          /\ pods[a].owner = pods[b].owner /\ pods[b].owner = pods[c].owner
      BY <1>6, <2>1, <2>2 DEF Names, Retired
    <3>2. CASE a # v /\ b # v
      BY <2>3, <3>1, <3>2 DEF Orderly, TopRetired, Names
    <3>3. CASE a = v \/ b = v
      <4>1. pods[v].owner = s.copy.uid
        BY <1>2, <1>6 DEF Agree
      <4>2. s.listed[a] # Absent /\ s.listed[b] # Absent /\ s.listed[c] # Absent
        BY <1>2, <3>1, <3>3, <4>1 DEF Agree
      <4>3. ~(c <= v)
        BY <3>3 DEF Ordinals
      <4>4. PICK r \in {a, b} : r # v /\ Retired(r)
        BY <2>3, <3>3 DEF Names, Ordinals
      <4>5. ~ListedRunning(s, r)
        BY <1>2, <4>2, <4>4 DEF Agree, Retired, ListedRunning
      <4> QED BY <1>2, <4>2, <4>3, <4>5
    <3> QED BY <3>2, <3>3
  <2> QED BY <1>1, <2>4, <2>5, NoSyncSees, SyncMoves DEF Finish, Inv
<1> QED BY <1>3, <1>4, <1>5, <1>6

-----------------------------------------------------------------------------
(* The theorem. *)

LEMMA OrderlyInit == Init => Orderly
  BY NoSyncSees DEF Init, Orderly, TopRetired, StraysStay, Retired, NoPods, Names

LEMMA OrderlyNext ==
  ASSUME Inv, Orderly, Alone, [Next]_vars
  PROVE  Orderly'
<1>1. CASE Users \/ Cluster
  <2>1. Calm /\ sync' = sync
    BY <1>1, OthersCalm
  <2> QED BY <2>1, StillOrderly
<1>2. CASE UNCHANGED vars
  BY <1>2, SameCalm, StillOrderly DEF vars
<1>3. ASSUME NEW w \in Workers, ReadSet(w) \/ Step(w)
      PROVE  Orderly'
  BY <1>3, ReadSetOrderly, ListPodsOrderly, ReleasePodOrderly, ClaimsOrderly,
     CreatePodOrderly, UpdatePodOrderly, DeletePodOrderly DEF Step
<1> QED BY <1>1, <1>2, <1>3 DEF Next

LEMMA OrderlyAlways == ASSUME Alone PROVE Spec => []Orderly
<1>1. Init => Orderly
  BY OrderlyInit
<1>2. Inv /\ Orderly /\ [Next]_vars => Orderly'
  BY OrderlyNext
<1> QED BY <1>1, <1>2, InvAlways, PTL DEF Spec

LEMMA PairSize == ASSUME NEW a, NEW b PROVE IsFiniteSet({a, b}) /\ Cardinality({a, b}) <= 2
<1>1. IsFiniteSet({}) /\ Cardinality({}) = 0
  BY FS_EmptySet
<1>2. IsFiniteSet({a}) /\ Cardinality({a}) <= 1
  <2>1. {} \cup {a} = {a}
    OBVIOUS
  <2> QED BY <1>1, <2>1, FS_AddElement
<1>3. {a} \cup {b} = {a, b} /\ Cardinality({a}) \in Nat
  BY <1>2, FS_CardinalityType
<1> QED BY <1>2, <1>3, FS_AddElement

\* A set of ordinals without three of them in a row is a pair at most.
LEMMA NoThird ==
  ASSUME NEW R, R \subseteq Ordinals,
         \A a, b, c \in R : ~(a < b /\ b < c)
  PROVE  Cardinality(R) <= 2
<1>1. \E a, b \in Ordinals : R \subseteq {a, b}
  <2>1. CASE R = {}
    BY <2>1, OrdinalAssumption DEF Ordinals
  <2>2. ASSUME NEW a \in R, R \subseteq {a} PROVE \E b, c \in Ordinals : R \subseteq {b, c}
    BY <2>2
  <2>3. ASSUME NEW a \in R, NEW b \in R, a # b PROVE R \subseteq {a, b}
    BY <2>3 DEF Ordinals
  <2> QED BY <2>1, <2>2, <2>3
<1>2. PICK a \in Ordinals, b \in Ordinals : R \subseteq {a, b}
  BY <1>1
<1>3. IsFiniteSet({a, b}) /\ Cardinality({a, b}) <= 2
  BY PairSize
<1>4. Cardinality(R) <= Cardinality({a, b}) /\ IsFiniteSet(R)
  BY <1>2, <1>3, FS_Subset
<1> QED BY <1>3, <1>4, FS_CardinalityType

LEMMA OrderlyBounds == ASSUME Inv, Orderly PROVE AtMostTwoDown
<1> SUFFICES ASSUME sts # Absent
             PROVE  Cardinality({o \in Owned(sts.uid) : pods[o].phase = "retired"}) <= 2
  BY DEF AtMostTwoDown
<1> DEFINE R == {o \in Owned(sts.uid) : pods[o].phase = "retired"}
<1>1. \A o \in R : o \in Ordinals /\ Retired(o) /\ pods[o].owner = sts.uid
  BY DEF Owned, Stored, Retired, Orderly, StraysStay, Names
<1> HIDE DEF R
<1>2. \A a, b, c \in R : ~(a < b /\ b < c)
  BY <1>1 DEF Orderly, TopRetired, Retired
<1>3. Cardinality(R) <= 2
  BY <1>1, <1>2, NoThird
<1> QED BY <1>3 DEF R

(***************************************************************************)
(* With one sync at a time, reconcileCondemnedPod and reconcileOutdatedPod *)
(* never have more than two pods of the set terminating: each waits for    *)
(* the pod it would delete, and for all pods it looked at before, to run.  *)
(* This holds for any size of the set, however it is scaled or given       *)
(* another template, and whatever others delete meanwhile.                 *)
(***************************************************************************)
THEOREM TwoDown == ASSUME Alone PROVE Spec => []AtMostTwoDown
<1>1. Inv /\ Orderly => AtMostTwoDown
  BY OrderlyBounds
<1> QED BY <1>1, OrderlyAlways, InvAlways, PTL

-----------------------------------------------------------------------------
(* Progress: the six sets that Distance counts. *)


Missing    == Wanted \ {o \in Wanted : Living(o)}
OutOfDate  == {o \in {p \in Wanted : Living(p)} : ~PodSpecMatches(sts, pods[o])}
Unlabelled == {o \in {p \in Wanted : Living(p)} : ~pods[o].labelled}
Surplus    == {o \in Ordinals \ Wanted : Living(o)}
Strange    == {n \in StrayNames : n \in Owned(sts.uid)}
Claimless  == {c \in ClaimTemplates \X Wanted : ~ClaimExists(c)}

\* The sync's copy is what is stored.
Current(w) == sts # Absent /\ sts = sync[w].copy

-----------------------------------------------------------------------------
(* Counting. *)

LEMMA DistanceSum ==
  /\ Distance = Cardinality(Missing) + 2 * Cardinality(OutOfDate) + Cardinality(Unlabelled)
                  + Cardinality(Surplus) + Cardinality(Strange) + Cardinality(Claimless)
  /\ Distance' = Cardinality(Missing') + 2 * Cardinality(OutOfDate') + Cardinality(Unlabelled')
                  + Cardinality(Surplus') + Cardinality(Strange') + Cardinality(Claimless')
  BY DEF Distance, Missing, OutOfDate, Unlabelled, Surplus, Strange, Claimless

LEMMA Size == ASSUME NEW S, IsFiniteSet(S), NEW T, T \subseteq S
              PROVE  IsFiniteSet(T) /\ Cardinality(T) \in Nat
  BY FS_Subset, FS_CardinalityType

LEMMA PartsFinite ==
  /\ \A S \in {Missing, OutOfDate, Unlabelled, Surplus, Strange, Claimless} :
       IsFiniteSet(S) /\ Cardinality(S) \in Nat
  /\ \A S \in {Missing', OutOfDate', Unlabelled', Surplus', Strange', Claimless'} :
       IsFiniteSet(S) /\ Cardinality(S) \in Nat
<1>1. IsFiniteSet(Ordinals)
  BY FS_Interval, OrdinalAssumption DEF Ordinals
<1>2. IsFiniteSet(StrayNames)
  BY FiniteAssumption
<1>3. IsFiniteSet(ClaimTemplates \X Ordinals)
  BY <1>1, FiniteAssumption, FS_Product
<1>4. \A S \in {Missing, OutOfDate, Unlabelled, Surplus, Strange, Claimless} :
        S \subseteq Ordinals \/ S \subseteq StrayNames \/ S \subseteq ClaimTemplates \X Ordinals
  BY DEF Missing, OutOfDate, Unlabelled, Surplus, Strange, Claimless, Wanted
<1>5. \A S \in {Missing', OutOfDate', Unlabelled', Surplus', Strange', Claimless'} :
        S \subseteq Ordinals \/ S \subseteq StrayNames \/ S \subseteq ClaimTemplates \X Ordinals
  BY DEF Missing, OutOfDate, Unlabelled, Surplus, Strange, Claimless, Wanted
<1> QED BY <1>1, <1>2, <1>3, <1>4, <1>5, Size

LEMMA OneLess ==
  ASSUME NEW S, IsFiniteSet(S), NEW x \in S
  PROVE  Cardinality(S \ {x}) = Cardinality(S) - 1
  BY FS_RemoveElement

\* Where the pods stay what they are.
LEMMA SamePods ==
  ASSUME sts' = sts, pods' = pods
  PROVE  /\ Missing' = Missing /\ OutOfDate' = OutOfDate /\ Unlabelled' = Unlabelled
         /\ Surplus' = Surplus /\ Strange' = Strange
  BY DEF Missing, OutOfDate, Unlabelled, Surplus, Strange, Wanted, Living, Owned, Stored,
         PodSpecMatches

\* Where only one member's pod changes.
LEMMA OtherPods ==
  ASSUME sts' = sts, claims' = claims, NEW v \in Ordinals,
         \A n \in Names \ {v} : pods'[n] = pods[n]
  PROVE  /\ Strange' = Strange /\ Claimless' = Claimless /\ Wanted' = Wanted
         /\ \A o \in Ordinals \ {v} :
              /\ o \in Missing' <=> o \in Missing
              /\ o \in OutOfDate' <=> o \in OutOfDate
              /\ o \in Unlabelled' <=> o \in Unlabelled
              /\ o \in Surplus' <=> o \in Surplus
<1>1. \A n \in StrayNames : n \in Names /\ n # v
  BY OrdinalAssumption DEF Names
<1>2. Strange' = Strange
  BY <1>1 DEF Strange, Owned, Stored
<1>3. Claimless' = Claimless /\ Wanted' = Wanted
  BY DEF Claimless, Wanted, ClaimExists
<1>4. ASSUME NEW o \in Ordinals \ {v}
      PROVE  /\ o \in Missing' <=> o \in Missing
             /\ o \in OutOfDate' <=> o \in OutOfDate
             /\ o \in Unlabelled' <=> o \in Unlabelled
             /\ o \in Surplus' <=> o \in Surplus
  <2>1. pods'[o] = pods[o]
    BY DEF Names
  <2> QED BY <1>3, <2>1 DEF Missing, OutOfDate, Unlabelled, Surplus, Living, PodSpecMatches
<1> QED BY <1>2, <1>3, <1>4

LEMMA InOrdinals ==
  /\ Missing \subseteq Ordinals /\ OutOfDate \subseteq Ordinals
  /\ Unlabelled \subseteq Ordinals /\ Surplus \subseteq Ordinals
  /\ Missing' \subseteq Ordinals /\ OutOfDate' \subseteq Ordinals
  /\ Unlabelled' \subseteq Ordinals /\ Surplus' \subseteq Ordinals
  BY DEF Missing, OutOfDate, Unlabelled, Surplus, Wanted

-----------------------------------------------------------------------------
(* The writes. *)

LEMMA ReleaseProgress ==
  ASSUME Inv, Orderly, NEW w \in Workers, Current(w), ReleasePod(w), pods' # pods
  PROVE  Distance' < Distance
<1>1. PICK n \in Strays(sync[w]) :
        /\ pods[n] # Absent /\ ~UpdateConflict(w, n)
        /\ pods' = [pods EXCEPT ![n] = [sync[w].listed[n] EXCEPT
                      !.owner = NoOwner, !.phase = pods[n].phase]]
        /\ claims' = claims /\ sts' = sts
  BY DEF ReleasePod, Refused
<1> DEFINE p == [sync[w].listed[n] EXCEPT !.owner = NoOwner, !.phase = pods[n].phase]
<1>2. /\ n \in StrayNames /\ n \in Names /\ n \notin Ordinals /\ pods[n] \in Pods
      /\ sync[w].listed[n] = pods[n] /\ pods[n].owner = sts.uid /\ sts.uid \in SetUIDs
  BY <1>1, OrdinalAssumption
     DEF Strays, Names, UpdateConflict, Inv, StoreTypes, StatefulSets, ReleasePod, Worker,
         Orderly, Sees, ListHolds, Agree, Current
<1>3. p.owner = NoOwner
  BY <1>2 DEF Pods
<1>4. pods'[n] = p /\ \A m \in Names \ {n} : pods'[m] = pods[m]
  BY <1>1, <1>2 DEF Inv, StoreTypes
<1> HIDE DEF p
<1>5. \A o \in Ordinals : pods'[o] = pods[o]
  BY <1>2, <1>4 DEF Names
<1>6. /\ Missing' = Missing /\ OutOfDate' = OutOfDate /\ Unlabelled' = Unlabelled
      /\ Surplus' = Surplus /\ Claimless' = Claimless
  BY <1>1, <1>5 DEF Missing, OutOfDate, Unlabelled, Surplus, Claimless, Wanted, Living,
                    PodSpecMatches, ClaimExists
<1>7. n \in Strange /\ Strange' = Strange \ {n}
  <2>1. n \in Strange
    BY <1>1, <1>2 DEF Strange, Owned, Stored
  <2>2. n \notin Strange'
    BY <1>1, <1>2, <1>3, <1>4, TokenAssumption DEF Strange, Owned, Stored
  <2>3. \A m \in StrayNames \ {n} : m \in Strange' <=> m \in Strange
    BY <1>1, <1>4 DEF Strange, Owned, Stored, Names
  <2> QED BY <2>1, <2>2, <2>3 DEF Strange
<1>8. Cardinality(Strange') = Cardinality(Strange) - 1
  BY <1>7, PartsFinite, OneLess
<1> QED BY <1>6, <1>8, PartsFinite, DistanceSum

LEMMA CreateClaimProgress ==
  ASSUME Inv, NEW w \in Workers, Current(w), CreateClaim(w), claims' # claims
  PROVE  Distance' < Distance
<1> DEFINE c == <<sync[w].claim, sync[w].ordinal>>
<1>1. /\ claims' = [claims EXCEPT ![c] = IF ClaimExists(c) THEN @ ELSE "present"]
      /\ pods' = pods /\ sts' = sts
  BY DEF CreateClaim, Refused
<1>2. c \in ClaimTemplates \X Ordinals /\ c \in ClaimTemplates \X Wanted
  BY DEF CreateClaim, Worker, Inv, SyncsOK, SyncOK, Syncs, Current, Wanted
<1> HIDE DEF c
<1>3. ~ClaimExists(c)
  BY <1>1, <1>2 DEF Inv, StoreTypes
<1>4. claims'[c] = "present" /\ \A d \in (ClaimTemplates \X Ordinals) \ {c} : claims'[d] = claims[d]
  BY <1>1, <1>2, <1>3 DEF Inv, StoreTypes
<1>5. Claimless' = Claimless \ {c} /\ c \in Claimless
  BY <1>1, <1>2, <1>3, <1>4 DEF Claimless, Wanted, ClaimExists
<1>6. Cardinality(Claimless') = Cardinality(Claimless) - 1
  BY <1>5, PartsFinite, OneLess
<1> QED BY <1>1, <1>6, SamePods, PartsFinite, DistanceSum

LEMMA CreatePodProgress ==
  ASSUME Inv, NEW w \in Workers, Current(w), sts.template \in CompleteTemplates,
         CreatePod(w), pods' # pods
  PROVE  Distance' < Distance
<1>0. PICK o \in Ordinals : o = sync[w].ordinal
  BY DEF Inv, SyncsOK, SyncOK, Syncs
<1> DEFINE new == NewPod(sync[w].copy, o)
<1>1. pods[o] = Absent /\ pods' = [pods EXCEPT ![o] = new] /\ claims' = claims /\ sts' = sts
  BY <1>0 DEF CreatePod
<1>2. o \in Names /\ o \in Wanted
  BY <1>0 DEF CreatePod, ClaimsDone, Worker, Inv, SyncsOK, SyncOK, Syncs, Current, Wanted, Names
<1>3. pods'[o] = new /\ \A n \in Names \ {o} : pods'[n] = pods[n]
  BY <1>1, <1>2 DEF Inv, StoreTypes
<1>4. /\ new.owner = sts.uid /\ new.template = sts.template /\ new.labelled = TRUE
      /\ new.phase = "running"
  BY DEF NewPod, Current
<1>5. new # Absent
  BY <1>1, <1>2 DEF Inv, StoreTypes
<1> HIDE DEF new
<1>6. /\ Strange' = Strange /\ Claimless' = Claimless /\ Wanted' = Wanted
      /\ \A p \in Ordinals \ {o} :
           /\ p \in Missing' <=> p \in Missing
           /\ p \in OutOfDate' <=> p \in OutOfDate
           /\ p \in Unlabelled' <=> p \in Unlabelled
           /\ p \in Surplus' <=> p \in Surplus
  BY <1>1, <1>2, <1>3, OtherPods
<1>7. ~Living(o) /\ Living(o)'
  BY <1>1, <1>3, <1>4, <1>5 DEF Living
<1>8. /\ o \in Missing /\ o \notin Missing'
      /\ o \notin OutOfDate /\ o \notin OutOfDate'
      /\ o \notin Unlabelled /\ o \notin Unlabelled'
      /\ o \notin Surplus /\ o \notin Surplus'
  BY <1>1, <1>2, <1>3, <1>4, <1>6, <1>7
     DEF Missing, OutOfDate, Unlabelled, Surplus, PodSpecMatches
<1>9. /\ Missing' = Missing \ {o} /\ OutOfDate' = OutOfDate /\ Unlabelled' = Unlabelled
      /\ Surplus' = Surplus
  BY <1>6, <1>8, InOrdinals
<1>10. Cardinality(Missing') = Cardinality(Missing) - 1
  BY <1>8, <1>9, PartsFinite, OneLess
<1> QED BY <1>6, <1>9, <1>10, PartsFinite, DistanceSum

LEMMA UpdatePodProgress ==
  ASSUME Inv, Orderly, NEW w \in Workers, Current(w), UpdatePod(w), pods' # pods
  PROVE  Distance' < Distance
<1>0. PICK o \in Ordinals : o = sync[w].ordinal
  BY DEF Inv, SyncsOK, SyncOK, Syncs
<1> DEFINE p == [pods[o] EXCEPT !.labelled = TRUE, !.phase = pods[o].phase]
<1>1. /\ pods[o] # Absent /\ sync[w].listed[o] = pods[o] /\ ~pods[o].labelled
      /\ pods' = [pods EXCEPT ![o] = [sync[w].listed[o] EXCEPT
                    !.labelled = TRUE, !.phase = pods[o].phase]]
      /\ claims' = claims /\ sts' = sts
  BY <1>0 DEF UpdatePod, UpdateConflict, Refused
<1>2. o \in Names /\ o \in Wanted
  BY <1>0 DEF UpdatePod, ClaimsDone, Worker, Inv, SyncsOK, SyncOK, Syncs, Current, Wanted, Names
<1>3. pods[o].owner = sts.uid /\ pods[o].phase = "running"
  BY <1>0, <1>1, <1>2 DEF UpdatePod, ClaimsDone, Worker, Orderly, Sees, ListHolds, Agree, Passed,
                    ListedRunning, Current
<1>4. pods' = [pods EXCEPT ![o] = p]
  BY <1>1
<1>5. pods[o] \in Pods
  BY <1>1, <1>2 DEF Inv, StoreTypes
<1>6. /\ p \in Pods /\ p.owner = pods[o].owner /\ p.template = pods[o].template
      /\ p.phase = pods[o].phase /\ p.labelled = TRUE
  BY <1>5 DEF Pods
<1>7. pods'[o] = p /\ \A n \in Names \ {o} : pods'[n] = pods[n]
  BY <1>2, <1>4 DEF Inv, StoreTypes
<1>8. p # Absent
  BY <1>6, TokenAssumption
<1> HIDE DEF p
<1>9. /\ Strange' = Strange /\ Claimless' = Claimless /\ Wanted' = Wanted
      /\ \A q \in Ordinals \ {o} :
           /\ q \in Missing' <=> q \in Missing
           /\ q \in OutOfDate' <=> q \in OutOfDate
           /\ q \in Unlabelled' <=> q \in Unlabelled
           /\ q \in Surplus' <=> q \in Surplus
  BY <1>1, <1>2, <1>7, OtherPods
<1>10. Living(o) /\ Living(o)'
  BY <1>1, <1>3, <1>6, <1>7, <1>8 DEF Living
<1>11. PodSpecMatches(sts, pods[o])' <=> PodSpecMatches(sts, pods[o])
  BY <1>1, <1>6, <1>7 DEF PodSpecMatches
<1>12. /\ o \notin Missing /\ o \notin Missing'
       /\ o \in OutOfDate <=> o \in OutOfDate'
       /\ o \in Unlabelled /\ o \notin Unlabelled'
       /\ o \notin Surplus /\ o \notin Surplus'
  BY <1>1, <1>2, <1>6, <1>7, <1>9, <1>10, <1>11 DEF Missing, OutOfDate, Unlabelled, Surplus
<1>13. /\ Missing' = Missing /\ OutOfDate' = OutOfDate /\ Unlabelled' = Unlabelled \ {o}
       /\ Surplus' = Surplus
  BY <1>9, <1>12, InOrdinals
<1>14. Cardinality(Unlabelled') = Cardinality(Unlabelled) - 1
  BY <1>12, <1>13, PartsFinite, OneLess
<1> QED BY <1>9, <1>13, <1>14, PartsFinite, DistanceSum

\* The pod is deleted by its name.  That it is still surplus or outdated follows from the
\* list: whoever bears the name has the owner and the template of the pod that was listed.
LEMMA DeletePodProgress ==
  ASSUME Inv, Orderly, NEW w \in Workers, Current(w), DeletePod(w), pods' # pods
  PROVE  Distance' < Distance
<1> DEFINE s == sync[w]
<1>0. PICK v \in Ordinals : v = s.victim
  BY DEF DeletePod, Worker, Inv, SyncsOK, SyncOK, Syncs
<1>1. /\ pods[v] # Absent /\ RemovePod(v, "retired") /\ pods[v].phase = "running"
      /\ claims' = claims /\ sts' = sts
  BY <1>0 DEF DeletePod, Refused, RemovePod
<1>2. /\ s \in Syncs /\ v \in Names /\ Agree(s, pods) /\ s.listed[v] # Absent
      /\ v > EndOrdinal(s.copy) \/ ~PodSpecMatches(s.copy, s.listed[v])
      /\ s.copy = sts /\ sts # Absent
  BY <1>0 DEF DeletePod, Worker, Inv, SyncsOK, SyncOK, Orderly, Sees, ListHolds, Chosen, Syncs,
         Names, Current
<1>3. pods[v].owner = sts.uid /\ pods[v].template = s.listed[v].template
  BY <1>1, <1>2 DEF Agree
<1>4. v \notin Wanted \/ ~PodSpecMatches(sts, pods[v])
  <2>1. sts.replicas \in Nat
    <3>1. sts.replicas \in Ordinals
      BY <1>2, SizeAssumption DEF Inv, StoreTypes, StatefulSets
    <3> QED BY <3>1 DEF Ordinals
  <2>2. v \in Nat
    BY OrdinalAssumption DEF Ordinals
  <2> QED BY <1>2, <1>3, <2>1, <2>2 DEF Wanted, EndOrdinal, PodSpecMatches
<1> HIDE DEF s
<1>5. /\ pods'[v] = Absent \/ pods'[v].phase = "retired"
      /\ \A n \in Names \ {v} : pods'[n] = pods[n]
  <2> DEFINE gone == [pods[v] EXCEPT !.phase = "retired"]
  <2>1. pods[v] \in Pods
    BY <1>1, <1>2 DEF Inv, StoreTypes
  <2>2. gone.phase = "retired"
    BY <2>1 DEF Pods
  <2>3. \E p \in {gone, Absent} : pods' = [pods EXCEPT ![v] = p]
    BY <1>1 DEF RemovePod
  <2> HIDE DEF gone
  <2> QED BY <1>2, <2>2, <2>3 DEF Inv, StoreTypes
<1>6. /\ Strange' = Strange /\ Claimless' = Claimless /\ Wanted' = Wanted
      /\ \A q \in Ordinals \ {v} :
           /\ q \in Missing' <=> q \in Missing
           /\ q \in OutOfDate' <=> q \in OutOfDate
           /\ q \in Unlabelled' <=> q \in Unlabelled
           /\ q \in Surplus' <=> q \in Surplus
  BY <1>1, <1>2, <1>5, OtherPods
<1>7. Living(v) /\ ~Living(v)'
  BY <1>1, <1>3, <1>5 DEF Living
<1>8. v \notin OutOfDate' /\ v \notin Unlabelled' /\ v \notin Surplus'
  BY <1>7 DEF OutOfDate, Unlabelled, Surplus
<1>9. CASE v \in Wanted
  <2>1. v \notin Missing /\ v \in Missing' /\ v \in OutOfDate /\ v \notin Surplus
    BY <1>4, <1>6, <1>7, <1>9 DEF Missing, OutOfDate, Surplus
  <2>2. /\ Missing' = Missing \cup {v} /\ OutOfDate' = OutOfDate \ {v}
        /\ Unlabelled' \subseteq Unlabelled /\ Surplus' = Surplus
    BY <1>2, <1>6, <1>8, <2>1, InOrdinals
  <2>3. Cardinality(Missing') = Cardinality(Missing) + 1
    BY <2>1, <2>2, PartsFinite, FS_AddElement
  <2>4. Cardinality(OutOfDate') = Cardinality(OutOfDate) - 1
    BY <2>1, <2>2, PartsFinite, OneLess
  <2>5. Cardinality(Unlabelled') <= Cardinality(Unlabelled)
    BY <2>2, PartsFinite, FS_Subset
  <2> QED BY <1>6, <2>2, <2>3, <2>4, <2>5, PartsFinite, DistanceSum
<1>10. CASE v \notin Wanted
  <2>1. /\ v \notin Missing /\ v \notin Missing' /\ v \notin OutOfDate /\ v \notin Unlabelled
        /\ v \in Surplus
    BY <1>2, <1>6, <1>7, <1>10 DEF Missing, OutOfDate, Unlabelled, Surplus
  <2>2. /\ Missing' = Missing /\ OutOfDate' = OutOfDate /\ Unlabelled' = Unlabelled
        /\ Surplus' = Surplus \ {v}
    BY <1>6, <1>8, <2>1, InOrdinals
  <2>3. Cardinality(Surplus') = Cardinality(Surplus) - 1
    BY <2>1, <2>2, PartsFinite, OneLess
  <2> QED BY <1>6, <2>2, <2>3, PartsFinite, DistanceSum
<1> QED BY <1>9, <1>10

-----------------------------------------------------------------------------
(* The theorem. *)

\* A sync's step that writes brings the cluster closer to the set.
LEMMA StepProgress ==
  ASSUME Inv, Orderly, NEW w \in Workers, ReadSet(w) \/ Step(w),
         pods' # pods \/ claims' # claims, Current(w), sts.template \in CompleteTemplates
  PROVE  Distance' < Distance
<1>1. ReleasePod(w) \/ CreateClaim(w) \/ CreatePod(w) \/ UpdatePod(w) \/ DeletePod(w)
  BY DEF ReadSet, Step, ListPods, GetClaim
<1>2. /\ claims' # claims => CreateClaim(w)
      /\ pods' # pods => ~CreateClaim(w)
  BY <1>1 DEF ReleasePod, CreateClaim, CreatePod, UpdatePod, DeletePod, Refused
<1> QED BY <1>1, <1>2, ReleaseProgress, CreateClaimProgress, CreatePodProgress,
           UpdatePodProgress, DeletePodProgress

LEMMA WriteProgress ==
  ASSUME Inv, Orderly, Next, NEW w \in Workers, sync'[w] # sync[w],
         pods' # pods \/ claims' # claims, Current(w), sts.template \in CompleteTemplates
  PROVE  Distance' < Distance
<1>1. ~Users /\ ~Cluster
  BY DEF Users, Cluster, CreateSet, UpdateSet, DeleteSet, CreateStray, EditLabels, DeleteAnyPod,
         DeleteClaim, CollectPod, PodStops, ClaimGoes, FinishForegroundDeletion
<1>2. PICK v \in Workers : ReadSet(v) \/ Step(v)
  BY <1>1 DEF Next
<1>3. \E t : sync' = [sync EXCEPT ![v] = t]
  BY <1>2 DEF ReadSet, Step, ListPods, ReleasePod, GetClaim, CreateClaim, CreatePod, UpdatePod,
              DeletePod, GoOn, Finish, Refused
<1>4. v = w
  BY <1>3 DEF Inv, SyncsOK
<1> QED BY <1>2, <1>4, StepProgress

(***************************************************************************)
(* With one sync at a time, each call of reconcileStatefulSet that writes  *)
(* (releasePod, createPersistentVolumeClaim, createStatefulPod,            *)
(* updateStatefulPod, deletePod) lowers the distance of the cluster from   *)
(* the set, as long as the set is what the sync read: although pods are    *)
(* deleted by name, none that matches the set is, and no write is wasted.  *)
(***************************************************************************)
THEOREM EveryWriteCounts == ASSUME Alone PROVE Spec => WritesMakeProgress
<1>1. Inv /\ Orderly /\ [Next]_vars =>
        [\A w \in Workers :
           /\ sync'[w] # sync[w]
           /\ pods' # pods \/ claims' # claims
           /\ sts # Absent
           /\ sts = sync[w].copy
           /\ sts.template \in CompleteTemplates
           => Distance' < Distance]_vars
  BY WriteProgress DEF Current
<1> QED BY <1>1, OrderlyAlways, InvAlways, PTL DEF Spec, WritesMakeProgress

-----------------------------------------------------------------------------
(* A match lasts. *)

\* The cluster is what the set asks for.
Exact ==
  /\ \A o \in Wanted : Living(o) /\ PodSpecMatches(sts, pods[o]) /\ pods[o].labelled
  /\ \A o \in Ordinals \ Wanted : ~Living(o)
  /\ \A n \in StrayNames : n \notin Owned(sts.uid)
  /\ \A c \in ClaimTemplates \X Wanted : ClaimExists(c)

\* The cluster matches the set, and no sync works from an older version of the set.
Matched ==
  /\ sts # Absent /\ ~sts.deleting /\ sts.template \in CompleteTemplates
  /\ Distance = 0
  /\ \A w \in Workers : Worker(w, "idle") \/ Current(w)

LEMMA NoneLeft ==
  ASSUME NEW S, IsFiniteSet(S)
  PROVE  Cardinality(S) = 0 <=> S = {}
  BY FS_EmptySet

LEMMA ZeroIsExact == (Distance = 0 <=> Exact) /\ (Distance' = 0 <=> Exact')
<1>1. Distance = 0 <=>
        \A S \in {Missing, OutOfDate, Unlabelled, Surplus, Strange, Claimless} : S = {}
  <2>1. /\ IsFiniteSet(Missing) /\ Cardinality(Missing) \in Nat
        /\ IsFiniteSet(OutOfDate) /\ Cardinality(OutOfDate) \in Nat
        /\ IsFiniteSet(Unlabelled) /\ Cardinality(Unlabelled) \in Nat
        /\ IsFiniteSet(Surplus) /\ Cardinality(Surplus) \in Nat
        /\ IsFiniteSet(Strange) /\ Cardinality(Strange) \in Nat
        /\ IsFiniteSet(Claimless) /\ Cardinality(Claimless) \in Nat
    BY PartsFinite
  <2>2. Distance = 0 <=>
          Cardinality(Missing) = 0 /\ Cardinality(OutOfDate) = 0 /\ Cardinality(Unlabelled) = 0
          /\ Cardinality(Surplus) = 0 /\ Cardinality(Strange) = 0 /\ Cardinality(Claimless) = 0
    <3> DEFINE a == Cardinality(Missing)
               b == Cardinality(OutOfDate)
               c == Cardinality(Unlabelled)
               d == Cardinality(Surplus)
               e == Cardinality(Strange)
               f == Cardinality(Claimless)
    <3>1. a \in Nat /\ b \in Nat /\ c \in Nat /\ d \in Nat /\ e \in Nat /\ f \in Nat
      BY <2>1
    <3>2. Distance = a + 2 * b + c + d + e + f
      BY DistanceSum
    <3> HIDE DEF a, b, c, d, e, f
    <3>3. Distance = 0 <=> a = 0 /\ b = 0 /\ c = 0 /\ d = 0 /\ e = 0 /\ f = 0
      BY <3>1, <3>2
    <3> QED BY <3>3 DEF a, b, c, d, e, f
  <2> QED BY <2>1, <2>2, NoneLeft
<1>2. Distance' = 0 <=>
        \A S \in {Missing', OutOfDate', Unlabelled', Surplus', Strange', Claimless'} : S = {}
  <2>1. /\ IsFiniteSet(Missing') /\ Cardinality(Missing') \in Nat
        /\ IsFiniteSet(OutOfDate') /\ Cardinality(OutOfDate') \in Nat
        /\ IsFiniteSet(Unlabelled') /\ Cardinality(Unlabelled') \in Nat
        /\ IsFiniteSet(Surplus') /\ Cardinality(Surplus') \in Nat
        /\ IsFiniteSet(Strange') /\ Cardinality(Strange') \in Nat
        /\ IsFiniteSet(Claimless') /\ Cardinality(Claimless') \in Nat
    BY PartsFinite
  <2>2. Distance' = 0 <=>
          Cardinality(Missing') = 0 /\ Cardinality(OutOfDate') = 0 /\ Cardinality(Unlabelled') = 0
          /\ Cardinality(Surplus') = 0 /\ Cardinality(Strange') = 0 /\ Cardinality(Claimless') = 0
    <3> DEFINE a == Cardinality(Missing')
               b == Cardinality(OutOfDate')
               c == Cardinality(Unlabelled')
               d == Cardinality(Surplus')
               e == Cardinality(Strange')
               f == Cardinality(Claimless')
    <3>1. a \in Nat /\ b \in Nat /\ c \in Nat /\ d \in Nat /\ e \in Nat /\ f \in Nat
      BY <2>1
    <3>2. Distance' = a + 2 * b + c + d + e + f
      BY DistanceSum
    <3> HIDE DEF a, b, c, d, e, f
    <3>3. Distance' = 0 <=> a = 0 /\ b = 0 /\ c = 0 /\ d = 0 /\ e = 0 /\ f = 0
      BY <3>1, <3>2
    <3> QED BY <3>3 DEF a, b, c, d, e, f
  <2> QED BY <2>1, <2>2, NoneLeft
<1>3. Exact <=>
        \A S \in {Missing, OutOfDate, Unlabelled, Surplus, Strange, Claimless} : S = {}
  BY DEF Exact, Missing, OutOfDate, Unlabelled, Surplus, Strange, Claimless
<1>4. Exact' <=>
        \A S \in {Missing', OutOfDate', Unlabelled', Surplus', Strange', Claimless'} : S = {}
  BY DEF Exact, Missing, OutOfDate, Unlabelled, Surplus, Strange, Claimless
<1> QED BY <1>1, <1>2, <1>3, <1>4

\* What a sync goes on to has the copy of the set it had, or is over.
SameCopy(s, t) == t.phase = "idle" \/ t.copy = s.copy

LEMMA TakeDownSameCopy == ASSUME NEW s \in Syncs PROVE SameCopy(s, TakeDown(s))
<1> DEFINE candidates == IF Condemned(s) # {} THEN Condemned(s) ELSE Outdated(s)
           t == [s EXCEPT !.phase = "delete", !.victim = Highest(candidates), !.ordinal = 0]
<1>1. TakeDown(s) = NoSync \/ TakeDown(s) = t
  BY DEF TakeDown
<1>2. t.copy = s.copy
  BY DEF Syncs
<1> HIDE DEF t
<1> QED BY <1>1, <1>2 DEF SameCopy, NoSync

LEMMA DesiredSameCopy == ASSUME NEW s \in Syncs, NEW o PROVE SameCopy(s, Desired(s, o))
<1> DEFINE t == [s EXCEPT !.phase = "desired", !.ordinal = o, !.todo = ClaimTemplates]
<1>1. Desired(s, o) \in {TakeDown(s), NoSync, t}
  BY DEF Desired
<1>2. t.copy = s.copy
  BY DEF Syncs
<1> HIDE DEF t
<1> QED BY <1>1, <1>2, TakeDownSameCopy DEF SameCopy, NoSync

LEMMA ReleaseStraysSameCopy == ASSUME NEW s \in Syncs PROVE SameCopy(s, ReleaseStrays(s))
<1>1. [s EXCEPT !.phase = "release"].copy = s.copy
  BY DEF Syncs
<1> QED BY <1>1, DesiredSameCopy DEF ReleaseStrays, SameCopy

\* A sync's step: the sync goes on with the copy it has; the set stays what it is.
LEMMA StepSameCopy ==
  ASSUME Inv, NEW w \in Workers, Step(w)
  PROVE  \E t : sync' = [sync EXCEPT ![w] = t] /\ SameCopy(sync[w], t)
<1>1. sync[w] \in Syncs
  BY DEF Inv, SyncsOK, SyncOK
<1>2. ASSUME Finish(w) PROVE \E t : sync' = [sync EXCEPT ![w] = t] /\ SameCopy(sync[w], t)
  <2>1. SameCopy(sync[w], NoSync)
    BY DEF SameCopy, NoSync
  <2> QED BY <1>2, <2>1 DEF Finish
<1>3. CASE ListPods(w)
  <2> DEFINE s == [sync[w] EXCEPT !.listed =
                     [n \in Names |-> IF n \in Owned(sync[w].copy.uid) THEN pods[n] ELSE Absent]]
  <2>1. s \in Syncs /\ s.copy = sync[w].copy
    BY <1>1 DEF Inv, StoreTypes, Syncs
  <2>2. sync' = [sync EXCEPT ![w] = NoSync] \/ sync' = [sync EXCEPT ![w] = ReleaseStrays(s)]
    BY <1>3 DEF ListPods, GoOn
  <2> HIDE DEF s
  <2> QED BY <1>2, <2>1, <2>2, ReleaseStraysSameCopy DEF SameCopy, Finish
<1>4. CASE ReleasePod(w)
  <2>1. PICK n \in Strays(sync[w]) :
          \/ GoOn(w, ReleaseStrays([sync[w] EXCEPT !.listed[n] = Absent]))
          \/ Finish(w)
    BY <1>4 DEF ReleasePod, Refused
  <2> DEFINE s == [sync[w] EXCEPT !.listed[n] = Absent]
  <2>2. s \in Syncs /\ s.copy = sync[w].copy
    BY <1>1 DEF Syncs
  <2>3. GoOn(w, ReleaseStrays(s)) \/ Finish(w)
    BY <2>1
  <2> HIDE DEF s
  <2> QED BY <1>2, <2>2, <2>3, ReleaseStraysSameCopy DEF SameCopy, GoOn
<1>5. CASE GetClaim(w)
  <2>1. PICK t \in sync[w].todo :
          GoOn(w, IF ClaimExists(<<t, sync[w].ordinal>>)
                  THEN [sync[w] EXCEPT !.todo = sync[w].todo \ {t}]
                  ELSE [sync[w] EXCEPT !.phase = "claim", !.claim = t])
    BY <1>5 DEF GetClaim
  <2>2. /\ [sync[w] EXCEPT !.todo = sync[w].todo \ {t}].copy = sync[w].copy
        /\ [sync[w] EXCEPT !.phase = "claim", !.claim = t].copy = sync[w].copy
    BY <1>1 DEF Syncs
  <2> QED BY <2>1, <2>2 DEF GoOn, SameCopy
<1>6. CASE CreateClaim(w)
  <2>1. GoOn(w, ClaimDone(sync[w])) \/ Finish(w)
    BY <1>6 DEF CreateClaim, Refused
  <2>2. ClaimDone(sync[w]).copy = sync[w].copy
    BY <1>1 DEF ClaimDone, Syncs
  <2> QED BY <1>2, <2>1, <2>2 DEF GoOn, SameCopy
<1>7. CASE UpdatePod(w)
  <2>1. GoOn(w, Desired(sync[w], sync[w].ordinal + 1)) \/ Finish(w)
    BY <1>7 DEF UpdatePod, Refused
  <2> QED BY <1>1, <1>2, <2>1, DesiredSameCopy DEF GoOn
<1>8. CASE CreatePod(w) \/ DeletePod(w)
  BY <1>2, <1>8 DEF CreatePod, DeletePod, Refused
<1> QED BY <1>3, <1>4, <1>5, <1>6, <1>7, <1>8 DEF Step

\* A sync finds nothing to do.
LEMMA SyncsIdle ==
  ASSUME Inv, Orderly, Matched, NEW w \in Workers, ReadSet(w) \/ Step(w)
  PROVE  Matched' /\ pods' = pods /\ claims' = claims
<1>1. sts' = sts
  BY DEF ReadSet, Step, ListPods, ReleasePod, GetClaim, CreateClaim, CreatePod, UpdatePod, DeletePod
<1>2. pods' = pods /\ claims' = claims
  <2>1. CASE ReadSet(w)
    BY <2>1 DEF ReadSet
  <2>2. CASE Step(w)
    <3>1. Current(w)
      BY <2>2 DEF Matched, Step, Worker, ListPods, ReleasePod, GetClaim, CreateClaim, CreatePod,
                  UpdatePod, DeletePod, ClaimsDone
    <3>2. Distance = 0 /\ ~(Distance' < 0)
      BY DistanceSum, PartsFinite DEF Matched
    <3> QED BY <2>2, <3>1, <3>2, StepProgress DEF Matched
  <2> QED BY <2>1, <2>2
<1>3. Exact'
  BY <1>1, <1>2, ZeroIsExact DEF Matched, Exact, Wanted, Living, Owned, Stored, ClaimExists,
                                 PodSpecMatches
<1>4. \E t : sync' = [sync EXCEPT ![w] = t] /\ (t.phase = "idle" \/ t.copy = sts)
  <2>1. CASE ReadSet(w)
    <3>1. sync' = [sync EXCEPT ![w] = [NoSync EXCEPT !.phase = "list", !.copy = sts]]
      BY <2>1 DEF ReadSet, GoOn
    <3>2. [NoSync EXCEPT !.phase = "list", !.copy = sts].copy = sts
      BY DEF NoSync
    <3> QED BY <3>1, <3>2
  <2>2. CASE Step(w)
    <3>1. sync[w].copy = sts
      BY <2>2 DEF Matched, Current, Step, Worker, ListPods, ReleasePod, GetClaim, CreateClaim,
                  CreatePod, UpdatePod, DeletePod, ClaimsDone
    <3> QED BY <2>2, <3>1, StepSameCopy DEF SameCopy
  <2> QED BY <2>1, <2>2
<1>5. \A v \in Workers : sync'[v].phase = "idle" \/ sync'[v].copy = sts
  BY <1>4 DEF Matched, Current, Worker, Inv, SyncsOK
<1> QED BY <1>1, <1>2, <1>3, <1>5, ZeroIsExact DEF Matched, Current, Worker

\* The rest of the cluster touches nothing that belongs to the set.
LEMMA ClusterSpares ==
  ASSUME Inv, Matched, Cluster
  PROVE  Matched'
<1>1. Exact /\ sts # Absent /\ ~sts.deleting
  BY ZeroIsExact DEF Matched
<1>2. sts' = sts /\ sync' = sync
  BY <1>1 DEF Cluster, CollectPod, PodStops, ClaimGoes, FinishForegroundDeletion
<1>3. \A o \in Wanted : o \in Names /\ o \in Ordinals
  BY DEF Wanted, Names
<1>4. ASSUME NEW n \in Names, NEW p, pods' = [pods EXCEPT ![n] = p], claims' = claims,
             ~Living(n),
             p = Absent \/ p.owner # sts.uid
      PROVE  Exact'
  <2>1. pods'[n] = p /\ \A m \in Names \ {n} : pods'[m] = pods[m]
    BY <1>4 DEF Inv, StoreTypes
  <2>2. ~Living(n)'
    BY <1>2, <1>4, <2>1 DEF Living
  <2>3. n \notin Wanted
    BY <1>1, <1>4 DEF Exact
  <2>4. Wanted' = Wanted
    BY <1>2 DEF Wanted
  <2>5. \A o \in Wanted' : Living(o)' /\ PodSpecMatches(sts, pods[o])' /\ pods'[o].labelled
    BY <1>1, <1>2, <1>3, <2>1, <2>3, <2>4 DEF Exact, Living, PodSpecMatches
  <2>6. \A o \in Ordinals \ Wanted' : ~Living(o)'
    BY <1>1, <1>2, <2>1, <2>2, <2>4 DEF Exact, Living, Names
  <2>7. \A m \in StrayNames : m \notin Owned(sts.uid)'
    BY <1>1, <1>2, <1>4, <2>1 DEF Exact, Owned, Stored, Names
  <2>8. \A c \in ClaimTemplates \X Wanted' : ClaimExists(c)'
    BY <1>1, <1>4, <2>4 DEF Exact, ClaimExists
  <2> QED BY <2>5, <2>6, <2>7, <2>8 DEF Exact
<1>5. ASSUME NEW n \in Names, CollectPod(n) PROVE Exact'
  <2>1. pods[n] # Absent /\ pods[n].owner # sts.uid /\ claims' = claims /\ pods[n] \in Pods
    BY <1>1, <1>5 DEF CollectPod, Inv, StoreTypes
  <2>2. PICK p \in {[pods[n] EXCEPT !.phase = "stopping"], Absent} : pods' = [pods EXCEPT ![n] = p]
    BY <1>5 DEF CollectPod, RemovePod
  <2>3. [pods[n] EXCEPT !.phase = "stopping"].owner = pods[n].owner
    BY <2>1 DEF Pods
  <2>4. ~Living(n)
    BY <2>1 DEF Living
  <2>5. p = Absent \/ p.owner # sts.uid
    BY <2>1, <2>2, <2>3
  <2> QED BY <1>4, <2>1, <2>2, <2>4, <2>5
<1>6. ASSUME NEW n \in Names, PodStops(n) PROVE Exact'
  <2>1. ~Living(n) /\ pods' = [pods EXCEPT ![n] = Absent] /\ claims' = claims
    BY <1>6 DEF PodStops, Living
  <2> QED BY <1>4, <2>1
<1>7. ASSUME NEW c \in ClaimTemplates \X Ordinals, ClaimGoes(c) PROVE Exact'
  <2>1. pods' = pods /\ pods[c[2]] = Absent /\ claims' = [claims EXCEPT ![c] = "removed"]
    BY <1>7 DEF ClaimGoes
  <2>2. c[2] \notin Wanted
    BY <1>1, <2>1 DEF Exact, Living
  <2>3. \A d \in ClaimTemplates \X Wanted : claims'[d] = claims[d]
    BY <2>1, <2>2 DEF Inv, StoreTypes, Wanted
  <2> QED BY <1>1, <1>2, <2>1, <2>3 DEF Exact, Wanted, Living, Owned, Stored, ClaimExists,
                                        PodSpecMatches
<1>8. ~FinishForegroundDeletion
  BY <1>1 DEF FinishForegroundDeletion
<1>9. Exact'
  BY <1>5, <1>6, <1>7, <1>8 DEF Cluster
<1> QED BY <1>2, <1>9, ZeroIsExact DEF Matched, Current, Worker

(***************************************************************************)
(* Once the cluster matches the set and no sync is left that read an older *)
(* version of the set, it matches until a user acts: the syncs that follow *)
(* write neither pods nor claims, no pod is taken for outdated again       *)
(* (podSpecMatches), and what the garbage collector and claim protection   *)
(* still have to clear away is nothing the set needs.                      *)
(***************************************************************************)
THEOREM MatchLasts ==
  ASSUME Alone
  PROVE  Spec =>
    /\ [](Matched /\ [][~Users]_vars => []Matched)
    /\ [][Matched /\ sync' # sync => pods' = pods /\ claims' = claims]_vars
<1>1. Inv /\ Orderly /\ Matched /\ [Next]_vars /\ [~Users]_vars => Matched'
  <2> SUFFICES ASSUME Inv, Orderly, Matched, [Next]_vars, [~Users]_vars
               PROVE  Matched'
    OBVIOUS
  <2>1. CASE UNCHANGED vars
    <3>1. Distance' = Distance
      BY <2>1 DEF vars, Distance, Wanted, Living, Owned, Stored, ClaimExists, PodSpecMatches
    <3> QED BY <2>1, <3>1 DEF vars, Matched, Current, Worker
  <2>2. CASE Next /\ ~Users
    BY <2>2, SyncsIdle, ClusterSpares DEF Next
  <2> QED BY <2>1, <2>2
<1>2. Inv /\ Orderly /\ [Next]_vars =>
        [Matched /\ sync' # sync => pods' = pods /\ claims' = claims]_vars
  <2> SUFFICES ASSUME Inv, Orderly, Next, Matched, sync' # sync
               PROVE  pods' = pods /\ claims' = claims
    OBVIOUS
  <2>1. ~Users /\ ~Cluster
    BY DEF Users, Cluster, CreateSet, UpdateSet, DeleteSet, CreateStray, EditLabels, DeleteAnyPod,
           DeleteClaim, CollectPod, PodStops, ClaimGoes, FinishForegroundDeletion
  <2> QED BY <2>1, SyncsIdle DEF Next
<1> QED BY <1>1, <1>2, OrderlyAlways, InvAlways, PTL DEF Spec
=============================================================================
