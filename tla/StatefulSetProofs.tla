-------------------------- MODULE StatefulSetProofs --------------------------
(***************************************************************************)
(* Proofs about StatefulSetController, for any number of syncs, ordinals,  *)
(* claim templates, set sizes and templates.                               *)
(*                                                                         *)
(* A step is described by what it does to each pod (PodStep), to each      *)
(* claim (ClaimStep) and to each sync (SyncStep); the invariant is proved  *)
(* from these descriptions.                                                *)
(***************************************************************************)
EXTENDS StatefulSetController, WellFoundedInduction, TLAPS

\* What holds of a sync by itself.
SyncOK(s) ==
  /\ s \in Syncs
  /\ s.phase # "idle" => s.copy # Absent
  /\ s.phase \in {"desired", "claim"} => s.ordinal < s.copy.replicas
  /\ s.phase = "claim" => s.claim # Absent
  /\ s.phase = "delete" => s.victim # Absent

\* The claims that a sync has looked up or created are known to have been created.
ClaimsMade(s, known) ==
  s.phase \in {"desired", "claim"} =>
    \A t \in ClaimTemplates \ s.todo : known[<<t, s.ordinal>>] # "none"

SyncsOK ==
  /\ sync = [w \in Workers |-> sync[w]]
  /\ \A w \in Workers : SyncOK(sync[w])

StoreTypes ==
  /\ sts \in StatefulSets \cup {Absent}
  /\ pods \in [Names -> Pods \cup {Absent}]
  /\ claims \in [ClaimTemplates \X Ordinals -> ClaimStates]
  /\ left \in 0..MaxDisturbances

Inv ==
  /\ StoreTypes
  /\ SyncsOK
  /\ \A w \in Workers : ClaimsMade(sync[w], claims)
  /\ ClaimsBeforePods

\* A pod appears at an ordinal only when its claims were created.
PodStep ==
  /\ pods' \in [Names -> Pods \cup {Absent}]
  /\ \A o \in Ordinals :
       pods[o] = Absent /\ pods'[o] # Absent =>
         \A t \in ClaimTemplates : claims[<<t, o>>] # "none"

\* A claim is never again as if it had not been created.
ClaimStep ==
  /\ claims' \in [ClaimTemplates \X Ordinals -> ClaimStates]
  /\ \A c \in ClaimTemplates \X Ordinals : claims[c] # "none" => claims'[c] # "none"

\* The sync of w goes on to t; the others stay where they are.
GoesOn(w, t) ==
  /\ sync' = [sync EXCEPT ![w] = t]
  /\ SyncOK(t)
  /\ ClaimsMade(t, claims')

SyncStep == sync' = sync \/ \E w \in Workers, t \in Syncs : GoesOn(w, t)

Described ==
  /\ sts' \in StatefulSets \cup {Absent}
  /\ left' \in 0..MaxDisturbances
  /\ PodStep
  /\ ClaimStep
  /\ SyncStep

-----------------------------------------------------------------------------
(* The decisions of a sync. *)

\* Highest picks the highest: what is left up to MaxOrdinal has a least element.
LEMMA HighestMember ==
  ASSUME NEW S, S \subseteq Ordinals, S # {}
  PROVE  Highest(S) \in S /\ \A p \in S : p <= Highest(S)
<1> DEFINE gaps == {MaxOrdinal - o : o \in S}
<1>1. S \subseteq Nat /\ \A o \in S : o <= MaxOrdinal
  BY OrdinalAssumption DEF Ordinals
<1>2. gaps \subseteq Nat /\ gaps # {}
  <2>1. \A o \in S : MaxOrdinal - o \in Nat
    BY <1>1, OrdinalAssumption
  <2> QED BY <2>1
<1>3. PICK g \in gaps : \A h \in gaps : ~(<<h, g>> \in OpToRel(<, Nat))
  BY <1>2, WFMin, NatLessThanWellFounded
<1>4. \A h \in gaps : g <= h
  <2> SUFFICES ASSUME NEW h \in gaps PROVE g <= h
    OBVIOUS
  <2>1. g \in Nat /\ h \in Nat
    BY <1>2
  <2>2. ~(h < g)
    BY <1>3, <2>1, Zenon DEF OpToRel
  <2> QED BY <2>1, <2>2
<1>5. PICK o \in S : g = MaxOrdinal - o
  OBVIOUS
<1>6. \A p \in S : p <= o
  <2> SUFFICES ASSUME NEW p \in S PROVE p <= o
    OBVIOUS
  <2>1. MaxOrdinal - p \in gaps
    OBVIOUS
  <2>2. g <= MaxOrdinal - p
    BY <2>1, <1>4
  <2> QED BY <2>2, <1>5, <1>1, OrdinalAssumption
<1> QED BY <1>6 DEF Highest

LEMMA NoSyncOK == SyncOK(NoSync) /\ NoSync.phase = "idle"
<1>1. 0 \in Ordinals
  BY OrdinalAssumption DEF Ordinals
<1> QED BY <1>1 DEF NoSync, SyncOK, Syncs, NoPods

LEMMA TakeDownOK ==
  ASSUME NEW s \in Syncs, s.copy # Absent
  PROVE  SyncOK(TakeDown(s)) /\ TakeDown(s).phase \in {"idle", "delete"}
<1> DEFINE candidates == IF Condemned(s) # {} THEN Condemned(s) ELSE Outdated(s)
           victim     == Highest(candidates)
           t          == [s EXCEPT !.phase = "delete", !.victim = victim, !.ordinal = 0]
<1>1. CASE candidates = {} \/ s.listed[victim].phase # "running"
  BY <1>1, NoSyncOK DEF TakeDown
<1>2. CASE ~(candidates = {} \/ s.listed[victim].phase # "running")
  <2>1. candidates \subseteq Ordinals
    BY DEF Condemned, Outdated
  <2>2. victim \in Ordinals
    BY <1>2, <2>1, HighestMember
  <2>3. 0 \in Ordinals
    BY OrdinalAssumption DEF Ordinals
  <2>4. TakeDown(s) = t
    BY <1>2 DEF TakeDown
  <2>5. t \in Syncs /\ t.phase = "delete" /\ t.copy = s.copy /\ t.victim = victim
    BY <2>2, <2>3 DEF Syncs
  <2>6. victim # Absent
    BY <2>2, TokenAssumption
  <2> HIDE DEF t, victim, candidates
  <2> QED BY <2>4, <2>5, <2>6 DEF SyncOK
<1> QED BY <1>1, <1>2

\* A sync comes to an ordinal with all claims still to look up.
LEMMA DesiredOK ==
  ASSUME NEW s \in Syncs, s.copy # Absent, NEW o \in Nat
  PROVE  /\ SyncOK(Desired(s, o))
         /\ Desired(s, o).phase # "claim"
         /\ Desired(s, o).phase = "desired" => Desired(s, o).todo = ClaimTemplates
<1> DEFINE t == [s EXCEPT !.phase = "desired", !.ordinal = o, !.todo = ClaimTemplates]
<1>1. s.copy \in StatefulSets /\ s.copy.replicas \in Ordinals
  BY SizeAssumption DEF Syncs, StatefulSets
<1>2. CASE o > EndOrdinal(s.copy)
  BY <1>2, TakeDownOK DEF Desired
<1>3. CASE o <= EndOrdinal(s.copy) /\ s.listed[o] # Absent /\ s.listed[o].phase # "running"
  <2>1. Desired(s, o) = NoSync
    BY <1>1, <1>3 DEF Desired, EndOrdinal, Ordinals
  <2> QED BY <2>1, NoSyncOK
<1>4. CASE o <= EndOrdinal(s.copy) /\ ~(s.listed[o] # Absent /\ s.listed[o].phase # "running")
  <2>1. o < s.copy.replicas /\ o \in Ordinals
    BY <1>1, <1>4, OrdinalAssumption DEF EndOrdinal, Ordinals
  <2>2. Desired(s, o) = t
    BY <1>1, <1>4 DEF Desired, EndOrdinal, Ordinals
  <2>3. /\ t \in Syncs /\ t.phase = "desired" /\ t.copy = s.copy
        /\ t.ordinal = o /\ t.todo = ClaimTemplates
    BY <2>1 DEF Syncs
  <2> HIDE DEF t
  <2> QED BY <2>1, <2>2, <2>3 DEF SyncOK
<1> QED BY <1>1, <1>2, <1>3, <1>4 DEF EndOrdinal, Ordinals

LEMMA ReleaseStraysOK ==
  ASSUME NEW s \in Syncs, s.copy # Absent
  PROVE  /\ SyncOK(ReleaseStrays(s))
         /\ ReleaseStrays(s).phase # "claim"
         /\ ReleaseStrays(s).phase = "desired" => ReleaseStrays(s).todo = ClaimTemplates
<1>1. CASE Strays(s) # {}
  <2> DEFINE t == [s EXCEPT !.phase = "release"]
  <2>1. ReleaseStrays(s) = t
    BY <1>1 DEF ReleaseStrays
  <2>2. t \in Syncs /\ t.phase = "release" /\ t.copy = s.copy
    BY DEF Syncs
  <2> HIDE DEF t
  <2> QED BY <2>1, <2>2 DEF SyncOK
<1>2. CASE Strays(s) = {}
  BY <1>2, DesiredOK DEF ReleaseStrays
<1> QED BY <1>1, <1>2

\* A sync that has claims to look up, or none of an ordinal, vouches for nothing yet.
LEMMA NothingMade ==
  ASSUME NEW t, NEW known,
         \/ t.phase \notin {"desired", "claim"}
         \/ t.todo = ClaimTemplates
  PROVE  ClaimsMade(t, known)
BY DEF ClaimsMade

-----------------------------------------------------------------------------
(* The steps of a sync. *)

\* A removed pod goes or keeps its name; none appears.
LEMMA RemovePodStep ==
  ASSUME StoreTypes, NEW n \in Names, pods[n] # Absent,
         NEW phase \in {"retired", "stopping"}, RemovePod(n, phase)
  PROVE  PodStep
<1>1. pods[n] \in Pods
  BY DEF StoreTypes
<1>2. [pods[n] EXCEPT !.phase = phase] \in Pods
  BY <1>1 DEF Pods
<1>3. \/ pods' = pods
      \/ \E left_behind \in Pods \cup {Absent} : pods' = [pods EXCEPT ![n] = left_behind]
  BY <1>2 DEF RemovePod
<1> QED BY <1>3 DEF PodStep, StoreTypes, Names

LEMMA SameStore ==
  ASSUME StoreTypes
  PROVE  /\ sts' = sts => sts' \in StatefulSets \cup {Absent}
         /\ left' = left => left' \in 0..MaxDisturbances
         /\ pods' = pods => PodStep
         /\ claims' = claims => ClaimStep
         /\ Disturb => left' \in 0..MaxDisturbances
<1>1. Disturb => left' \in 0..MaxDisturbances
  BY BoundAssumption DEF Disturb, StoreTypes
<1> QED BY <1>1 DEF StoreTypes, PodStep, ClaimStep

LEMMA FinishStep ==
  ASSUME NEW w \in Workers, Finish(w)
  PROVE  SyncStep
<1>1. SyncOK(NoSync) /\ ClaimsMade(NoSync, claims')
  BY NoSyncOK, NothingMade
<1>2. NoSync \in Syncs
  BY <1>1 DEF SyncOK
<1> QED BY <1>1, <1>2 DEF Finish, SyncStep, GoesOn

LEMMA GoOnStep ==
  ASSUME NEW w \in Workers, NEW t, GoOn(w, t), SyncOK(t), ClaimsMade(t, claims')
  PROVE  SyncStep
BY DEF GoOn, SyncStep, GoesOn, SyncOK

LEMMA ReadSetStep ==
  ASSUME Inv, NEW w \in Workers, ReadSet(w)
  PROVE  Described
<1> DEFINE t == [NoSync EXCEPT !.phase = "list", !.copy = sts]
<1>1. sts \in StatefulSets /\ sts # Absent
  BY DEF ReadSet, Inv, StoreTypes
<1>2. t \in Syncs /\ t.phase = "list" /\ t.copy = sts
  BY <1>1, NoSyncOK DEF SyncOK, Syncs, NoSync
<1>3. GoOn(w, t)
  BY DEF ReadSet
<1>4. SyncOK(t) /\ ClaimsMade(t, claims')
  <2> HIDE DEF t
  <2> QED BY <1>1, <1>2, NothingMade DEF SyncOK
<1> QED BY <1>3, <1>4, GoOnStep, SameStore DEF ReadSet, Inv, Described

LEMMA ListPodsStep ==
  ASSUME Inv, NEW w \in Workers, ListPods(w)
  PROVE  Described
<1> DEFINE listed == [n \in Names |-> IF n \in Owned(sync[w].copy.uid) THEN pods[n] ELSE Absent]
           s == [sync[w] EXCEPT !.listed = listed]
           t == IF s.copy.deleting THEN NoSync ELSE ReleaseStrays(s)
<1>1. sync[w] \in Syncs /\ sync[w].copy # Absent
  BY DEF ListPods, Worker, Inv, SyncsOK, SyncOK
<1>2. listed \in [Names -> Pods \cup {Absent}]
  BY DEF Inv, StoreTypes
<1>3. s \in Syncs /\ s.copy # Absent
  <2> HIDE DEF listed
  <2> QED BY <1>1, <1>2 DEF Syncs
<1>4. GoOn(w, t)
  BY DEF ListPods
<1>5. SyncOK(t) /\ ClaimsMade(t, claims')
  <2> HIDE DEF s
  <2>1. SyncOK(NoSync) /\ ClaimsMade(NoSync, claims')
    BY NoSyncOK, NothingMade
  <2>2. SyncOK(ReleaseStrays(s)) /\ ClaimsMade(ReleaseStrays(s), claims')
    <3>1. /\ SyncOK(ReleaseStrays(s))
          /\ ReleaseStrays(s).phase # "claim"
          /\ ReleaseStrays(s).phase = "desired" => ReleaseStrays(s).todo = ClaimTemplates
      BY <1>3, ReleaseStraysOK
    <3> QED BY <3>1, NothingMade
  <2> QED BY <2>1, <2>2
<1>6. SyncStep
  <2> HIDE DEF t
  <2> QED BY <1>4, <1>5, GoOnStep
<1> QED BY <1>6, SameStore DEF ListPods, Inv, Described

\* Writing over a pod that is there makes none appear.
LEMMA OverwriteStep ==
  ASSUME StoreTypes, NEW n \in Names, pods[n] # Absent, NEW p \in Pods,
         pods' = [pods EXCEPT ![n] = p]
  PROVE  PodStep
BY DEF StoreTypes, PodStep, Names

LEMMA ReleasePodStep ==
  ASSUME Inv, NEW w \in Workers, ReleasePod(w)
  PROVE  Described
<1>1. sync[w] \in Syncs /\ sync[w].copy # Absent
  BY DEF ReleasePod, Worker, Inv, SyncsOK, SyncOK
<1>2. PICK n \in Strays(sync[w]) :
        \/ /\ \/ pods' = pods
              \/ /\ pods[n] # Absent
                 /\ pods' = [pods EXCEPT ![n] = [sync[w].listed[n] EXCEPT
                               !.owner = NoOwner, !.phase = pods[n].phase]]
           /\ GoOn(w, ReleaseStrays([sync[w] EXCEPT !.listed[n] = Absent]))
           /\ claims' = claims
           /\ left' = left
        \/ Finish(w) /\ UNCHANGED <<pods, claims, left>>
        \/ Refused(w)
  BY DEF ReleasePod
<1>3. n \in Names /\ sync[w].listed[n] \in Pods
  BY <1>1 DEF Strays, Names, Syncs
<1>4. sts' = sts
  BY DEF ReleasePod
<1>5. ASSUME GoOn(w, ReleaseStrays([sync[w] EXCEPT !.listed[n] = Absent]))
      PROVE  SyncStep
  <2> DEFINE s == [sync[w] EXCEPT !.listed[n] = Absent]
  <2>1. s \in Syncs /\ s.copy # Absent
    BY <1>1 DEF Syncs
  <2>2. GoOn(w, ReleaseStrays(s))
    BY <1>5
  <2> HIDE DEF s
  <2>3. /\ SyncOK(ReleaseStrays(s))
        /\ ReleaseStrays(s).phase # "claim"
        /\ ReleaseStrays(s).phase = "desired" => ReleaseStrays(s).todo = ClaimTemplates
    BY <2>1, ReleaseStraysOK
  <2>4. ClaimsMade(ReleaseStrays(s), claims')
    BY <2>3, NothingMade
  <2> QED BY <2>2, <2>3, <2>4, GoOnStep
<1>6. SyncStep
  BY <1>2, <1>5, FinishStep DEF Refused
<1>7. PodStep
  <2>1. CASE pods' = pods
    BY <2>1, SameStore DEF Inv
  <2>2. CASE /\ pods[n] # Absent
             /\ pods' = [pods EXCEPT ![n] = [sync[w].listed[n] EXCEPT
                           !.owner = NoOwner, !.phase = pods[n].phase]]
    <3> DEFINE p == [sync[w].listed[n] EXCEPT !.owner = NoOwner, !.phase = pods[n].phase]
    <3>1. pods[n] \in Pods
      BY <1>3, <2>2 DEF Inv, StoreTypes
    <3>2. p \in Pods
      BY <1>3, <3>1 DEF Pods
    <3> HIDE DEF p
    <3> QED BY <1>3, <2>2, <3>2, OverwriteStep DEF Inv, p
  <2> QED BY <1>2, <2>1, <2>2 DEF Refused
<1> QED BY <1>2, <1>4, <1>6, <1>7, SameStore DEF Inv, Described, Refused

LEMMA GetClaimStep ==
  ASSUME Inv, NEW w \in Workers, GetClaim(w)
  PROVE  Described
<1>1. PICK t \in sync[w].todo :
        GoOn(w, IF ClaimExists(<<t, sync[w].ordinal>>)
                THEN [sync[w] EXCEPT !.todo = @ \ {t}]
                ELSE [sync[w] EXCEPT !.phase = "claim", !.claim = t])
  BY DEF GetClaim
<1>2. /\ SyncOK(sync[w]) /\ sync[w] \in Syncs /\ sync[w].phase = "desired"
      /\ sync[w].copy # Absent /\ ClaimsMade(sync[w], claims)
      /\ t \in ClaimTemplates
  BY DEF GetClaim, Worker, Inv, SyncsOK, SyncOK, Syncs
<1>3. UNCHANGED <<sts, pods, claims, left>>
  BY DEF GetClaim
<1>4. CASE ClaimExists(<<t, sync[w].ordinal>>)
  <2> DEFINE s == [sync[w] EXCEPT !.todo = @ \ {t}]
  <2>1. /\ s \in Syncs /\ s.phase = "desired" /\ s.copy = sync[w].copy
        /\ s.ordinal = sync[w].ordinal /\ s.todo = sync[w].todo \ {t}
    BY <1>2 DEF Syncs
  <2>2. GoOn(w, s)
    BY <1>1, <1>4
  <2> HIDE DEF s
  <2>3. SyncOK(s)
    BY <1>2, <2>1 DEF SyncOK
  <2>4. ClaimsMade(s, claims')
    BY <1>2, <1>3, <1>4, <2>1 DEF ClaimsMade, ClaimExists
  <2>5. SyncStep
    BY <2>2, <2>3, <2>4, GoOnStep
  <2> QED BY <1>3, <2>5, SameStore DEF Inv, Described
<1>5. CASE ~ClaimExists(<<t, sync[w].ordinal>>)
  <2> DEFINE s == [sync[w] EXCEPT !.phase = "claim", !.claim = t]
  <2>1. /\ s \in Syncs /\ s.phase = "claim" /\ s.copy = sync[w].copy /\ s.claim = t
        /\ s.ordinal = sync[w].ordinal /\ s.todo = sync[w].todo
    BY <1>2 DEF Syncs
  <2>2. GoOn(w, s)
    BY <1>1, <1>5
  <2> HIDE DEF s
  <2>3. SyncOK(s)
    BY <1>2, <2>1, TokenAssumption DEF SyncOK
  <2>4. ClaimsMade(s, claims')
    BY <1>2, <1>3, <2>1 DEF ClaimsMade
  <2>5. SyncStep
    BY <2>2, <2>3, <2>4, GoOnStep
  <2> QED BY <1>3, <2>5, SameStore DEF Inv, Described
<1> QED BY <1>4, <1>5

LEMMA CreateClaimStep ==
  ASSUME Inv, NEW w \in Workers, CreateClaim(w)
  PROVE  Described
<1> DEFINE c == <<sync[w].claim, sync[w].ordinal>>
<1>1. /\ SyncOK(sync[w]) /\ sync[w] \in Syncs /\ sync[w].phase = "claim"
      /\ sync[w].copy # Absent /\ ClaimsMade(sync[w], claims)
      /\ c \in ClaimTemplates \X Ordinals
  BY DEF CreateClaim, Worker, Inv, SyncsOK, SyncOK, Syncs
<1>2. sts' = sts
  BY DEF CreateClaim
<1>3. CASE Refused(w)
  BY <1>2, <1>3, FinishStep, SameStore DEF Refused, Inv, Described
<1>4. CASE /\ claims' = [claims EXCEPT ![c] = IF ClaimExists(c) THEN @ ELSE "present"]
           /\ GoOn(w, ClaimDone(sync[w]))
           /\ UNCHANGED <<pods, left>>
  <2> DEFINE s == ClaimDone(sync[w])
  <2>1. /\ s \in Syncs /\ s.phase = "desired" /\ s.copy = sync[w].copy
        /\ s.ordinal = sync[w].ordinal /\ s.todo = sync[w].todo \ {sync[w].claim}
    BY <1>1 DEF Syncs, ClaimDone
  <2>2. ClaimStep /\ claims'[c] # "none"
    BY <1>1, <1>4 DEF ClaimStep, Inv, StoreTypes, ClaimStates, ClaimExists
  <2> HIDE DEF s
  <2>3. SyncOK(s)
    BY <1>1, <2>1 DEF SyncOK
  <2>4. ClaimsMade(s, claims')
    <3> SUFFICES ASSUME NEW t \in ClaimTemplates \ s.todo
                 PROVE  claims'[<<t, s.ordinal>>] # "none"
      BY DEF ClaimsMade
    <3>1. CASE t = sync[w].claim
      BY <2>1, <2>2, <3>1
    <3>2. CASE t # sync[w].claim
      <4>1. claims[<<t, s.ordinal>>] # "none" /\ <<t, s.ordinal>> \in ClaimTemplates \X Ordinals
        BY <1>1, <2>1, <3>2 DEF ClaimsMade
      <4> QED BY <2>2, <4>1 DEF ClaimStep
    <3> QED BY <3>1, <3>2
  <2>5. SyncStep
    BY <1>4, <2>3, <2>4, GoOnStep DEF s
  <2> QED BY <1>2, <1>4, <2>2, <2>5, SameStore DEF Inv, Described
<1> QED BY <1>3, <1>4 DEF CreateClaim

LEMMA NewPodType ==
  ASSUME NEW set \in StatefulSets, NEW n \in Names, FreePodUIDs(n) # {}
  PROVE  NewPod(set, n) \in Pods
<1>1. (CHOOSE uid \in FreePodUIDs(n) : TRUE) \in PodUIDs
  BY DEF FreePodUIDs
<1> QED BY <1>1 DEF NewPod, Pods, StatefulSets

LEMMA CreatePodStep ==
  ASSUME Inv, NEW w \in Workers, CreatePod(w)
  PROVE  Described
<1> DEFINE o == sync[w].ordinal
<1>1. /\ sync[w] \in Syncs /\ sync[w].copy \in StatefulSets /\ o \in Ordinals /\ o \in Names
      /\ \A t \in ClaimTemplates : claims[<<t, o>>] # "none"
  BY DEF CreatePod, ClaimsDone, Worker, Inv, SyncsOK, SyncOK, Syncs, ClaimsMade, Names
<1>2. PodStep
  <2>1. CASE pods' = pods
    BY <2>1, SameStore DEF Inv
  <2>2. CASE FreePodUIDs(o) # {} /\ pods' = [pods EXCEPT ![o] = NewPod(sync[w].copy, o)]
    <3>1. NewPod(sync[w].copy, o) \in Pods
      BY <1>1, <2>2, NewPodType
    <3> QED BY <1>1, <2>2, <3>1 DEF PodStep, Inv, StoreTypes
  <2> QED BY <2>1, <2>2 DEF CreatePod
<1> QED BY <1>2, FinishStep, SameStore DEF CreatePod, Inv, Described

LEMMA UpdatePodStep ==
  ASSUME Inv, NEW w \in Workers, UpdatePod(w)
  PROVE  Described
<1> DEFINE s == sync[w]
           o == s.ordinal
           p == [s.listed[o] EXCEPT !.labelled = TRUE, !.phase = pods[o].phase]
<1>1. /\ s \in Syncs /\ s.copy # Absent /\ o \in Ordinals /\ o \in Names
      /\ s.listed[o] \in Pods /\ sts' = sts /\ claims' = claims
  <2>1. s \in Syncs /\ s.copy # Absent /\ s.listed[o] # Absent
    BY DEF UpdatePod, ClaimsDone, Worker, Inv, SyncsOK, SyncOK
  <2>2. sts' = sts /\ claims' = claims
    BY DEF UpdatePod, Refused
  <2> HIDE DEF s
  <2> QED BY <2>1, <2>2 DEF Syncs, Names
<1>2. /\ left' \in 0..MaxDisturbances
      /\ \/ GoOn(w, Desired(s, o + 1))
         \/ Finish(w)
      /\ \/ pods' = pods
         \/ pods[o] # Absent /\ pods' = [pods EXCEPT ![o] = p]
  BY SameStore DEF UpdatePod, Refused, Inv, StoreTypes
<1>3. SyncStep
  <2>1. /\ SyncOK(Desired(s, o + 1))
        /\ Desired(s, o + 1).phase # "claim"
        /\ Desired(s, o + 1).phase = "desired" => Desired(s, o + 1).todo = ClaimTemplates
    <3>1. o + 1 \in Nat
      BY <1>1, OrdinalAssumption DEF Ordinals
    <3> HIDE DEF s
    <3> QED BY <1>1, <3>1, DesiredOK
  <2>2. ClaimsMade(Desired(s, o + 1), claims')
    BY <2>1, NothingMade
  <2> QED BY <1>2, <2>1, <2>2, GoOnStep, FinishStep
<1>4. PodStep
  <2>1. CASE pods' = pods
    BY <2>1, SameStore DEF Inv
  <2>2. CASE pods[o] # Absent /\ pods' = [pods EXCEPT ![o] = p]
    <3>1. p \in Pods
      BY <1>1, <2>2 DEF Inv, StoreTypes, Pods
    <3> HIDE DEF p
    <3> QED BY <1>1, <2>2, <3>1, OverwriteStep DEF Inv
  <2> QED BY <1>2, <2>1, <2>2
<1> QED BY <1>1, <1>2, <1>3, <1>4, SameStore DEF Inv, Described

LEMMA DeletePodStep ==
  ASSUME Inv, NEW w \in Workers, DeletePod(w)
  PROVE  Described
<1>1. sync[w].victim \in Names
  BY DEF DeletePod, Worker, Inv, SyncsOK, SyncOK, Syncs, Names
<1>2. PodStep
  <2>1. CASE pods' = pods
    BY <2>1, SameStore DEF Inv
  <2>2. CASE pods[sync[w].victim] # Absent /\ RemovePod(sync[w].victim, "retired")
    BY <1>1, <2>2, RemovePodStep DEF Inv
  <2> QED BY <2>1, <2>2 DEF DeletePod, Refused
<1> QED BY <1>2, FinishStep, SameStore DEF DeletePod, Refused, Inv, Described

-----------------------------------------------------------------------------
(* The steps of users and of the rest of the cluster. *)

LEMMA SetUserStep ==
  ASSUME Inv, CreateSet \/ UpdateSet \/ DeleteSet
  PROVE  Described
<1>1. sts' \in StatefulSets \cup {Absent}
  <2>1. CASE CreateSet
    <3>1. (CHOOSE uid \in FreeSetUIDs : TRUE) \in SetUIDs
      BY <2>1 DEF CreateSet, FreeSetUIDs
    <3> QED BY <2>1, <3>1 DEF CreateSet, StatefulSets
  <2>2. CASE UpdateSet
    BY <2>2 DEF UpdateSet, Inv, StoreTypes, StatefulSets
  <2>3. CASE DeleteSet
    BY <2>3 DEF DeleteSet, Inv, StoreTypes, StatefulSets
  <2> QED BY <2>1, <2>2, <2>3
<1>2. /\ Disturb /\ pods' = pods /\ claims' = claims /\ sync' = sync
  BY DEF CreateSet, UpdateSet, DeleteSet
<1> QED BY <1>1, <1>2, SameStore DEF Inv, Described, SyncStep

LEMMA PodUserStep ==
  ASSUME Inv, CreateStray \/ EditLabels \/ DeleteAnyPod
  PROVE  Described
<1>1. PodStep
  <2>1. CASE CreateStray
    <3>1. PICK n \in StrayNames \ Stored, t \in Templates :
            /\ FreePodUIDs(n) # {}
            /\ pods' = [pods EXCEPT ![n] = [NewPod(sts, n) EXCEPT !.labelled = FALSE, !.template = t]]
      BY <2>1 DEF CreateStray
    <3>2. n \in Names /\ n \notin Ordinals
      BY OrdinalAssumption DEF Names
    <3>3. sts \in StatefulSets
      BY <2>1 DEF CreateStray, Inv, StoreTypes
    <3>4. [NewPod(sts, n) EXCEPT !.labelled = FALSE, !.template = t] \in Pods
      BY <3>1, <3>2, <3>3, NewPodType DEF Pods
    <3> QED BY <3>1, <3>2, <3>4 DEF PodStep, Inv, StoreTypes, Names
  <2>2. CASE EditLabels
    <3>1. PICK n \in Stored : pods' = [pods EXCEPT ![n].labelled = ~@]
      BY <2>2 DEF EditLabels
    <3>2. n \in Names /\ pods[n] # Absent /\ pods[n] \in Pods
      BY DEF Stored, Inv, StoreTypes
    <3> DEFINE p == [pods[n] EXCEPT !.labelled = ~@]
    <3>3. p \in Pods
      BY <3>2 DEF Pods
    <3>4. pods' = [pods EXCEPT ![n] = p]
      BY <3>1
    <3> HIDE DEF p
    <3> QED BY <3>2, <3>3, <3>4, OverwriteStep DEF Inv
  <2>3. CASE DeleteAnyPod
    BY <2>3, RemovePodStep DEF DeleteAnyPod, Stored, Inv
  <2> QED BY <2>1, <2>2, <2>3
<1>2. /\ Disturb /\ sts' = sts /\ claims' = claims /\ sync' = sync
  BY DEF CreateStray, EditLabels, DeleteAnyPod
<1> QED BY <1>1, <1>2, SameStore DEF Inv, Described, SyncStep

LEMMA DeleteClaimStep ==
  ASSUME Inv, DeleteClaim
  PROVE  Described
<1>1. ClaimStep
  BY DEF DeleteClaim, ClaimStep, Inv, StoreTypes, ClaimStates
<1>2. /\ Disturb /\ sts' = sts /\ pods' = pods /\ sync' = sync
  BY DEF DeleteClaim
<1> QED BY <1>1, <1>2, SameStore DEF Inv, Described, SyncStep

LEMMA ClusterStep ==
  ASSUME Inv, Cluster
  PROVE  Described
<1>1. ASSUME NEW n \in Names, CollectPod(n) PROVE Described
  BY <1>1, RemovePodStep, SameStore DEF CollectPod, Inv, Described, SyncStep
<1>2. ASSUME NEW n \in Names, PodStops(n) PROVE Described
  <2>1. PodStep
    BY <1>2 DEF PodStops, PodStep, Inv, StoreTypes, Names
  <2> QED BY <1>2, <2>1, SameStore DEF PodStops, Inv, Described, SyncStep
<1>3. ASSUME NEW c \in ClaimTemplates \X Ordinals, ClaimGoes(c) PROVE Described
  <2>1. ClaimStep
    BY <1>3 DEF ClaimGoes, ClaimStep, Inv, StoreTypes, ClaimStates
  <2> QED BY <1>3, <2>1, SameStore DEF ClaimGoes, Inv, Described, SyncStep
<1>4. ASSUME FinishForegroundDeletion PROVE Described
  BY <1>4, SameStore DEF FinishForegroundDeletion, Inv, Described, SyncStep
<1> QED BY <1>1, <1>2, <1>3, <1>4 DEF Cluster

-----------------------------------------------------------------------------
(* The invariant. *)

LEMMA NextDescribed ==
  ASSUME Inv, Next
  PROVE  Described
<1>1. ASSUME NEW w \in Workers, ReadSet(w) \/ Step(w) PROVE Described
  BY <1>1, ReadSetStep, ListPodsStep, ReleasePodStep, GetClaimStep, CreateClaimStep,
     CreatePodStep, UpdatePodStep, DeletePodStep DEF Step
<1>2. ASSUME Users PROVE Described
  BY <1>2, SetUserStep, PodUserStep, DeleteClaimStep DEF Users
<1> QED BY <1>1, <1>2, ClusterStep DEF Next

LEMMA InvInit == Init => Inv
<1> SUFFICES ASSUME Init PROVE Inv
  OBVIOUS
<1>1. StoreTypes
  BY BoundAssumption DEF Init, StoreTypes, NoPods, ClaimStates
<1>2. \A w \in Workers : sync[w] = NoSync
  BY DEF Init
<1>3. SyncsOK
  BY <1>2, NoSyncOK DEF Init, SyncsOK
<1>4. \A w \in Workers : ClaimsMade(sync[w], claims)
  BY <1>2, NoSyncOK DEF ClaimsMade
<1>5. ClaimsBeforePods
  BY DEF Init, ClaimsBeforePods, NoPods, Names
<1> QED BY <1>1, <1>3, <1>4, <1>5 DEF Inv

LEMMA InvStep == Inv /\ [Next]_vars => Inv'
<1>1. Inv /\ UNCHANGED vars => Inv'
  <2> SUFFICES ASSUME Inv, UNCHANGED vars PROVE Inv'
    OBVIOUS
  <2>1. sts' = sts /\ pods' = pods /\ claims' = claims /\ sync' = sync /\ left' = left
    BY DEF vars
  <2> QED BY <2>1 DEF Inv, StoreTypes, SyncsOK, ClaimsBeforePods
<1>2. Inv /\ Next => Inv'
  <2> SUFFICES ASSUME Inv, Described PROVE Inv'
    BY NextDescribed
  <2>1. StoreTypes'
    BY DEF Described, PodStep, ClaimStep, StoreTypes
  <2>2. SyncsOK' /\ \A w \in Workers : ClaimsMade(sync[w], claims)'
    <3>1. \A s \in Syncs : ClaimsMade(s, claims) => ClaimsMade(s, claims')
      BY DEF Described, ClaimStep, ClaimsMade, Syncs
    <3>2. sync = [w \in Workers |-> sync[w]] /\ \A w \in Workers : SyncOK(sync[w])
      BY DEF Inv, SyncsOK
    <3>3. \A w \in Workers : ClaimsMade(sync[w], claims')
      BY <3>1, <3>2 DEF Inv, SyncOK
    <3>4. CASE sync' = sync
      BY <3>2, <3>3, <3>4 DEF SyncsOK
    <3>5. CASE \E w \in Workers, t \in Syncs : GoesOn(w, t)
      <4>1. PICK w \in Workers, t \in Syncs : GoesOn(w, t)
        BY <3>5
      <4>2. /\ sync' = [v \in Workers |-> sync'[v]]
            /\ \A v \in Workers : sync'[v] = IF v = w THEN t ELSE sync[v]
        BY <3>2, <4>1 DEF GoesOn
      <4> QED BY <3>2, <3>3, <4>1, <4>2 DEF GoesOn, SyncsOK
    <3> QED BY <3>4, <3>5 DEF Described, SyncStep
  <2>3. ClaimsBeforePods'
    BY DEF Described, PodStep, ClaimStep, Inv, ClaimsBeforePods
  <2> QED BY <2>1, <2>2, <2>3 DEF Inv
<1> QED BY <1>1, <1>2

LEMMA InvAlways == Spec => []Inv
BY InvInit, InvStep, PTL DEF Spec

-----------------------------------------------------------------------------
(* The theorems. *)

\* Every value stays in its type, and a sync is only ever at an ordinal that its copy
\* of the set asks for: neither reconcileDesiredPods nor the choice of the pod to take
\* down leaves the ordinals, however many syncs run.
THEOREM TypeCorrect == Spec => []TypeOK
<1>1. Inv => TypeOK
  BY DEF Inv, StoreTypes, SyncsOK, SyncOK, TypeOK
<1> QED BY <1>1, InvAlways, PTL

\* With any number of syncs side by side and any claims failing or going, no pod of an
\* ordinal exists before all its claims were created (createPersistentVolumeClaims
\* comes before createStatefulPod, and its errors end the sync).
THEOREM ClaimsFirst == Spec => []ClaimsBeforePods
<1>1. Inv => ClaimsBeforePods
  BY DEF Inv
<1> QED BY <1>1, InvAlways, PTL

\* A sync's step is the step of its phase.
LEMMA StepOfPhase ==
  ASSUME Inv, Next, NEW w \in Workers, sync'[w] # sync[w]
  PROVE  /\ Worker(w, "release") => ReleasePod(w)
         /\ Worker(w, "desired") => GetClaim(w) \/ CreatePod(w) \/ UpdatePod(w)
<1>1. sync = [v \in Workers |-> sync[v]]
  BY DEF Inv, SyncsOK
<1>2. \A v \in Workers \ {w} : ~(ReadSet(v) \/ Step(v))
  <2> SUFFICES ASSUME NEW v \in Workers \ {w}, ReadSet(v) \/ Step(v) PROVE FALSE
    OBVIOUS
  <2>1. \E t : sync' = [sync EXCEPT ![v] = t]
    BY DEF ReadSet, Step, ListPods, ReleasePod, GetClaim, CreateClaim, CreatePod, UpdatePod,
           DeletePod, GoOn, Finish, Refused
  <2> QED BY <1>1, <2>1
<1>3. ~Users /\ ~Cluster
  BY DEF Users, CreateSet, UpdateSet, DeleteSet, CreateStray, EditLabels, DeleteAnyPod,
         DeleteClaim, Cluster, CollectPod, PodStops, ClaimGoes, FinishForegroundDeletion
<1>4. ReadSet(w) \/ Step(w)
  BY <1>2, <1>3 DEF Next
<1>5. /\ ReadSet(w) => sync[w].phase = "idle"
      /\ ListPods(w) => sync[w].phase = "list"
      /\ ReleasePod(w) => sync[w].phase = "release"
      /\ GetClaim(w) \/ CreatePod(w) \/ UpdatePod(w) => sync[w].phase = "desired"
      /\ CreateClaim(w) => sync[w].phase = "claim"
      /\ DeletePod(w) => sync[w].phase = "delete"
  BY DEF ReadSet, ListPods, ReleasePod, GetClaim, CreateClaim, CreatePod, UpdatePod,
         DeletePod, ClaimsDone, Worker
<1>6. /\ Worker(w, "release") => sync[w].phase = "release"
      /\ Worker(w, "desired") => sync[w].phase = "desired"
  BY DEF Worker
<1> QED BY <1>4, <1>5, <1>6 DEF Step

\* A release changes the owner and a relabelling the labels, nothing else.
LEMMA WholeCopySpares ==
  ASSUME Inv, Next, NEW w \in Workers, NEW n \in Names,
         sync'[w] # sync[w], pods'[n] # pods[n]
  PROVE  /\ Worker(w, "release") => pods'[n] = [pods[n] EXCEPT !.owner = NoOwner]
         /\ pods[n] # Absent /\ Worker(w, "desired") =>
              pods'[n] = [pods[n] EXCEPT !.labelled = TRUE]
<1>1. /\ pods = [m \in Names |-> pods[m]]
      /\ \A m \in Names : pods[m] # Absent => pods[m] \in Pods
  BY DEF Inv, StoreTypes
<1>2. sync[w] \in Syncs
  BY DEF Inv, SyncsOK, SyncOK
<1>3. CASE Worker(w, "release")
  <2>1. ReleasePod(w)
    BY <1>3, StepOfPhase
  <2>2. PICK m \in Strays(sync[w]) :
          /\ pods[m] # Absent
          /\ ~UpdateConflict(w, m)
          /\ pods' = [pods EXCEPT ![m] = [sync[w].listed[m] EXCEPT !.owner = NoOwner,
                                                                    !.phase = pods[m].phase]]
    BY <2>1 DEF ReleasePod, Refused
  <2>3. m \in Names /\ m = n /\ sync[w].listed[m] = pods[m]
    BY <1>1, <2>2 DEF UpdateConflict, Strays, Names
  <2>4. pods'[n] = [pods[n] EXCEPT !.owner = NoOwner]
    BY <1>1, <2>2, <2>3 DEF Pods
  <2> QED BY <1>3, <2>4 DEF Worker
<1>4. CASE Worker(w, "desired") /\ pods[n] # Absent
  <2> DEFINE o == sync[w].ordinal
  <2>1. /\ pods[o] # Absent
        /\ ~UpdateConflict(w, o)
        /\ pods' = [pods EXCEPT ![o] = [sync[w].listed[o] EXCEPT !.labelled = TRUE,
                                                                  !.phase = pods[o].phase]]
    <3>1. GetClaim(w) \/ CreatePod(w) \/ UpdatePod(w)
      BY <1>4, StepOfPhase
    <3>2. ~GetClaim(w)
      BY DEF GetClaim
    <3>3. ~CreatePod(w)
      BY <1>1, <1>4 DEF CreatePod
    <3> QED BY <3>1, <3>2, <3>3 DEF UpdatePod, Refused
  <2>2. o \in Names /\ o = n /\ sync[w].listed[o] = pods[o]
    BY <1>1, <1>2, <2>1 DEF UpdateConflict, Syncs, Names
  <2>3. pods'[n] = [pods[n] EXCEPT !.labelled = TRUE]
    BY <1>1, <2>1, <2>2 DEF Pods
  <2> QED BY <1>4, <2>3 DEF Worker
<1> QED BY <1>3, <1>4

\* releasePod and updateStatefulPod send the whole copy that was listed, long before
\* and with other syncs and users writing since: what they wrote is never reverted.
THEOREM CopiesSpareTheRest == Spec => UpdateSparesTheRest
<1>1. Inv /\ [Next]_vars =>
        [\A w \in Workers, n \in Names :
           /\ sync'[w] # sync[w]
           /\ pods'[n] # pods[n]
           => /\ Worker(w, "release") => pods'[n] = [pods[n] EXCEPT !.owner = NoOwner]
              /\ pods[n] # Absent /\ Worker(w, "desired") =>
                   pods'[n] = [pods[n] EXCEPT !.labelled = TRUE]]_vars
  BY WholeCopySpares DEF vars
<1> QED BY <1>1, InvAlways, PTL DEF Spec, UpdateSparesTheRest
=============================================================================
