------------------------ MODULE ServiceAccountProofs ------------------------
(***************************************************************************)
(* Proofs about ServiceAccountController, for any namespaces and any list  *)
(* of accounts that every namespace should have, one listed twice or an    *)
(* empty list included.                                                    *)
(***************************************************************************)
EXTENDS ServiceAccountController, FiniteSetTheorems, TLAPS

\* What holds of a sync by itself: it is at an account of the list when it runs.
SyncOK(s) ==
  /\ s \in Syncs
  /\ s.phase # "idle" => s.at \in 1..Len(Ensured)

Inv ==
  /\ namespaces \in [Namespaces -> {"Absent", "Active", "Terminating"}]
  /\ accounts \in [Namespaces -> SUBSET Accounts]
  /\ sync \in [Namespaces -> Syncs]
  /\ \A n \in Namespaces : SyncOK(sync[n])
  /\ left \in 0..MaxDisturbances

-----------------------------------------------------------------------------
(* The type invariant. *)

LEMMA ListType ==
  /\ Len(Ensured) \in Nat
  /\ \A i \in 1..Len(Ensured) : Ensured[i] \in Accounts
  /\ \A a \in Accounts : \E i \in 1..Len(Ensured) : a = Ensured[i]
<1>1. Ensured \in Seq(Range(Ensured))
  BY EnsuredAssumption
<1>2. Len(Ensured) \in Nat /\ DOMAIN Ensured = 1..Len(Ensured)
  BY <1>1
<1> QED BY <1>2 DEF Accounts, Range

LEMMA AccountsFinite == IsFiniteSet(Accounts)
<1>1. Ensured \in Surjection(1..Len(Ensured), Accounts)
  <2>1. Ensured \in Seq(Range(Ensured))
    BY EnsuredAssumption
  <2> QED BY <2>1 DEF Surjection, Accounts, Range
<1>2. IsFiniteSet(1..Len(Ensured))
  BY ListType, FS_Interval
<1> QED BY <1>1, <1>2, FS_Surjection

LEMMA NoSyncOK == SyncOK(NoSync)
  BY ListType DEF SyncOK, NoSync, Syncs

\* A sync goes on to the next account, or it is through with the list.
LEMMA GoOnOK ==
  ASSUME NEW s \in Syncs
  PROVE  /\ SyncOK(GoOn(s))
         /\ GoOn(s).phase # "idle" =>
              GoOn(s).phase = "get" /\ s.at < Len(Ensured) /\ GoOn(s).at = s.at + 1
         /\ GoOn(s).phase = "idle" => s.at = Len(Ensured) /\ GoOn(s) = NoSync
<1>1. s.at \in 0..Len(Ensured) /\ Len(Ensured) \in Nat
  BY ListType DEF Syncs
<1>2. CASE s.at < Len(Ensured)
  <2>1. GoOn(s) = [phase |-> "get", at |-> s.at + 1]
    BY <1>2 DEF GoOn
  <2>2. s.at + 1 \in 1..Len(Ensured) /\ s.at + 1 \in 0..Len(Ensured)
    BY <1>1, <1>2
  <2> QED BY <1>2, <2>1, <2>2 DEF SyncOK, Syncs
<1>3. CASE ~(s.at < Len(Ensured))
  <2>1. GoOn(s) = NoSync /\ s.at = Len(Ensured)
    BY <1>1, <1>3 DEF GoOn
  <2> QED BY <2>1, NoSyncOK DEF NoSync
<1> QED BY <1>2, <1>3

LEMMA InvInit == Init => Inv
  BY NoSyncOK, BoundAssumption DEF Init, Inv, SyncOK

\* What a step of n's sync does to the sync and the accounts.
Moves(n, t) ==
  /\ sync' = [sync EXCEPT ![n] = t]
  /\ SyncOK(t)
  /\ namespaces' = namespaces

LEMMA ReadMoves ==
  ASSUME Inv, NEW n \in Namespaces, ReadNamespace(n)
  PROVE  Moves(n, GoOn(NoSync)) /\ accounts' = accounts /\ left' = left
  BY NoSyncOK, GoOnOK DEF ReadNamespace, Moves, SyncOK

\* A lookup finds the account and goes on, or turns to the create.
LEMMA GetMoves ==
  ASSUME Inv, NEW n \in Namespaces, GetAccount(n)
  PROVE  /\ accounts' = accounts /\ left' = left
         /\ \/ Ensured[sync[n].at] \in accounts[n] /\ Moves(n, GoOn(sync[n]))
            \/ Moves(n, [sync[n] EXCEPT !.phase = "create"])
<1>1. SyncOK(sync[n]) /\ sync[n].phase = "get" /\ sync[n] \in Syncs
  BY DEF Inv, GetAccount
<1>2. SyncOK([sync[n] EXCEPT !.phase = "create"])
  BY <1>1 DEF SyncOK, Syncs
<1>3. SyncOK(GoOn(sync[n]))
  BY <1>1, GoOnOK
<1> QED BY <1>2, <1>3 DEF GetAccount, Moves

\* A create leaves the account there and goes on, or fails and ends the sync.
LEMMA CreateMoves ==
  ASSUME Inv, NEW n \in Namespaces, CreateAccount(n)
  PROVE  \/ /\ Moves(n, GoOn(sync[n]))
            /\ accounts' = [accounts EXCEPT ![n] = @ \cup {Ensured[sync[n].at]}]
            /\ left' = left
         \/ Moves(n, NoSync) /\ accounts' = accounts /\ Disturb
<1>1. SyncOK(sync[n]) /\ sync[n] \in Syncs
  BY DEF Inv
<1> QED BY <1>1, GoOnOK, NoSyncOK DEF CreateAccount, Moves

LEMMA UsersMove ==
  ASSUME Inv, NEW n \in Namespaces, Users(n)
  PROVE  /\ sync' = sync /\ Disturb
         /\ \E phase \in {"Absent", "Active", "Terminating"} :
              namespaces' = [namespaces EXCEPT ![n] = phase]
         /\ \E A \in SUBSET Accounts : accounts' = [accounts EXCEPT ![n] = A]
<1>1. namespaces' = namespaces =>
        \E phase \in {"Absent", "Active", "Terminating"} :
          namespaces' = [namespaces EXCEPT ![n] = phase]
  BY DEF Inv
<1>2. accounts' = accounts => \E A \in SUBSET Accounts : accounts' = [accounts EXCEPT ![n] = A]
  BY DEF Inv
<1>3. CASE CreateNamespace(n)
  BY <1>2, <1>3 DEF CreateNamespace
<1>4. CASE DeleteNamespace(n)
  BY <1>2, <1>4 DEF DeleteNamespace
<1>5. ASSUME NEW a \in Accounts, UserCreatesAccount(n, a)
      PROVE  /\ sync' = sync /\ Disturb /\ namespaces' = namespaces
             /\ \E A \in SUBSET Accounts : accounts' = [accounts EXCEPT ![n] = A]
  <2>1. accounts[n] \cup {a} \in SUBSET Accounts
    BY DEF Inv
  <2> QED BY <1>5, <2>1 DEF UserCreatesAccount
<1>6. ASSUME NEW a \in Accounts, UserDeletesAccount(n, a)
      PROVE  /\ sync' = sync /\ Disturb /\ namespaces' = namespaces
             /\ \E A \in SUBSET Accounts : accounts' = [accounts EXCEPT ![n] = A]
  <2>1. accounts[n] \ {a} \in SUBSET Accounts
    BY DEF Inv
  <2> QED BY <1>6, <2>1 DEF UserDeletesAccount
<1> QED BY <1>1, <1>3, <1>4, <1>5, <1>6 DEF Users

LEMMA LeftType ==
  ASSUME Inv, left' = left \/ Disturb
  PROVE  left' \in 0..MaxDisturbances
  BY BoundAssumption DEF Inv, Disturb

LEMMA MovesKept ==
  ASSUME Inv, NEW n \in Namespaces, NEW t, Moves(n, t), left' = left \/ Disturb,
         accounts' \in [Namespaces -> SUBSET Accounts]
  PROVE  Inv'
<1>1. \A k \in Namespaces : sync'[k] = IF k = n THEN t ELSE sync[k]
  BY DEF Inv, Moves
<1>2. \A k \in Namespaces : SyncOK(sync'[k])
  BY <1>1 DEF Inv, Moves
<1>3. sync' \in [Namespaces -> Syncs]
  BY DEF Inv, Moves, SyncOK
<1> QED BY <1>2, <1>3, LeftType DEF Inv, Moves

\* The steps of namespace n.
Steps(n) ==
  \/ ReadNamespace(n) \/ GetAccount(n) \/ CreateAccount(n)
  \/ Users(n)
  \/ FinishNamespace(n)
  \/ \E a \in Accounts : DeleteContent(n, a)

LEMMA StepsKept ==
  ASSUME Inv, NEW n \in Namespaces, Steps(n)
  PROVE  Inv'
<1>1. CASE ReadNamespace(n)
  BY <1>1, ReadMoves, MovesKept DEF Inv
<1>2. CASE GetAccount(n)
  BY <1>2, GetMoves, MovesKept DEF Inv
<1>3. CASE CreateAccount(n)
  <2>1. Ensured[sync[n].at] \in Accounts
    BY <1>3, ListType DEF Inv, SyncOK, CreateAccount
  <2>2. accounts[n] \cup {Ensured[sync[n].at]} \in SUBSET Accounts
    BY <2>1 DEF Inv
  <2>3. \/ Moves(n, GoOn(sync[n])) /\ left' = left
           /\ accounts' = [accounts EXCEPT ![n] = accounts[n] \cup {Ensured[sync[n].at]}]
        \/ Moves(n, NoSync) /\ accounts' = accounts /\ Disturb
    BY <1>3, CreateMoves
  <2>4. accounts' \in [Namespaces -> SUBSET Accounts]
    BY <2>2, <2>3 DEF Inv
  <2> QED BY <2>3, <2>4, MovesKept
<1>4. CASE Users(n)
  <2>1. sync' = sync /\ left' \in 0..MaxDisturbances
    BY <1>4, UsersMove, LeftType
  <2>2. /\ namespaces' \in [Namespaces -> {"Absent", "Active", "Terminating"}]
        /\ accounts' \in [Namespaces -> SUBSET Accounts]
    BY <1>4, UsersMove DEF Inv
  <2> QED BY <2>1, <2>2 DEF Inv
<1>5. CASE FinishNamespace(n)
  BY <1>5 DEF FinishNamespace, Inv
<1>6. ASSUME NEW a \in Accounts, DeleteContent(n, a)
      PROVE  Inv'
  <2>1. accounts[n] \ {a} \in SUBSET Accounts
    BY DEF Inv
  <2> QED BY <1>6, <2>1 DEF DeleteContent, Inv
<1> QED BY <1>1, <1>2, <1>3, <1>4, <1>5, <1>6 DEF Steps

LEMMA InvKept == Inv /\ [Next]_vars => Inv'
<1> SUFFICES ASSUME Inv, [Next]_vars PROVE Inv'
  OBVIOUS
<1>1. CASE UNCHANGED vars
  BY <1>1 DEF vars, Inv
<1>2. CASE Next
  BY <1>2, StepsKept DEF Next, Step, Steps
<1> QED BY <1>1, <1>2

LEMMA Invariant == Spec => []Inv
  BY InvInit, InvKept, PTL DEF Spec

\* For any list of accounts: the state is well typed, and no sync runs past the list.
THEOREM TypeCorrect == Spec => []TypeOK
<1>1. Inv => TypeOK
  BY DEF Inv, TypeOK
<1> QED BY <1>1, Invariant, PTL

-----------------------------------------------------------------------------
(* A sync misses nothing. *)

\* The accounts that the sync of n has gone past are there.
Passed(n) ==
  sync[n].phase # "idle" =>
    \A i \in 1..Len(Ensured) : i < sync[n].at => Ensured[i] \in accounts[n]

\* No account of n goes.
Kept(n) == accounts[n] \subseteq accounts'[n]

\* A step of another namespace.
LEMMA Elsewhere ==
  ASSUME Inv, NEW n \in Namespaces, NEW m \in Namespaces \ {n}, Steps(m)
  PROVE  sync'[n] = sync[n] /\ accounts'[n] = accounts[n] /\ namespaces'[n] = namespaces[n]
<1>1. CASE ReadNamespace(m) \/ GetAccount(m) \/ CreateAccount(m)
  BY <1>1 DEF ReadNamespace, GetAccount, CreateAccount, Inv
<1>2. CASE Users(m)
  BY <1>2, UsersMove DEF Inv
<1>3. CASE FinishNamespace(m) \/ \E a \in Accounts : DeleteContent(m, a)
  BY <1>3 DEF FinishNamespace, DeleteContent, Inv
<1> QED BY <1>1, <1>2, <1>3 DEF Steps

\* Going on past an account that is there.
LEMMA GoOnPassed ==
  ASSUME Inv, NEW n \in Namespaces, Passed(n), sync[n].phase # "idle",
         sync' = [sync EXCEPT ![n] = GoOn(sync[n])],
         Kept(n), Ensured[sync[n].at] \in accounts'[n]
  PROVE  /\ Passed(n)'
         /\ sync'[n].phase = "idle" => Accounts \subseteq accounts'[n]
<1>1. /\ sync[n] \in Syncs /\ sync[n].at \in 1..Len(Ensured) /\ sync'[n] = GoOn(sync[n])
      /\ Len(Ensured) \in Nat
  BY ListType DEF Inv, SyncOK
<1>2. \A i \in 1..Len(Ensured) : i <= sync[n].at => Ensured[i] \in accounts'[n]
  <2>1. \A i \in 1..Len(Ensured) : i <= sync[n].at => i < sync[n].at \/ i = sync[n].at
    BY <1>1
  <2> QED BY <2>1 DEF Passed, Kept
<1>3. CASE sync'[n].phase = "idle"
  <2>1. sync[n].at = Len(Ensured)
    BY <1>1, <1>3, GoOnOK
  <2>2. \A i \in 1..Len(Ensured) : Ensured[i] \in accounts'[n]
    BY <1>1, <1>2, <2>1
  <2> QED BY <1>3, <2>2, ListType DEF Passed
<1>4. CASE sync'[n].phase # "idle"
  <2>1. sync'[n].at = sync[n].at + 1
    BY <1>1, <1>4, GoOnOK
  <2>2. \A i \in 1..Len(Ensured) : i < sync'[n].at => i <= sync[n].at
    BY <1>1, <2>1
  <2> QED BY <1>2, <1>4, <2>2 DEF Passed
<1> QED BY <1>3, <1>4

\* The end of a sync that no request refused.
Completes(n) == sync[n].phase # "idle" /\ sync'[n].phase = "idle" /\ left' = left

LEMMA PassedKept ==
  ASSUME Inv, NEW n \in Namespaces, Passed(n), [Next]_vars, [Kept(n)]_vars
  PROVE  Passed(n)' /\ (Completes(n) => accounts'[n] = Accounts)
<1>1. Inv' /\ accounts'[n] \subseteq Accounts
  BY InvKept DEF Inv
<1>2. Kept(n)
  BY DEF vars, Kept
<1>3. CASE sync'[n] = sync[n]
  BY <1>2, <1>3 DEF Passed, Kept, Completes
<1>4. CASE sync'[n] # sync[n]
  <2>1. PICK m \in Namespaces : Steps(m)
    BY <1>4 DEF Next, vars, Step, Steps
  <2>2. m = n
    BY <1>4, <2>1, Elsewhere
  <2>3. ReadNamespace(n) \/ GetAccount(n) \/ CreateAccount(n)
    BY <1>4, <2>1, <2>2, UsersMove DEF Steps, FinishNamespace, DeleteContent
  <2>4. CASE ReadNamespace(n)
    <3>1. sync[n].phase = "idle" /\ sync'[n] = GoOn(NoSync)
      BY <2>4 DEF ReadNamespace, Inv
    <3>2. sync'[n].phase # "idle" => sync'[n].at = 1
      BY <3>1, NoSyncOK, GoOnOK DEF SyncOK, NoSync
    <3>3. \A i \in 1..Len(Ensured) : ~(i < 1)
      BY ListType
    <3> QED BY <3>1, <3>2, <3>3 DEF Passed, Completes
  <2>5. CASE GetAccount(n)
    <3>1. sync[n].phase = "get" /\ accounts' = accounts
      BY <2>5 DEF GetAccount
    <3>2. CASE /\ Ensured[sync[n].at] \in accounts[n]
               /\ sync' = [sync EXCEPT ![n] = GoOn(sync[n])]
      <4>1. Passed(n)' /\ (sync'[n].phase = "idle" => Accounts \subseteq accounts'[n])
        BY <1>2, <3>1, <3>2, GoOnPassed
      <4> QED BY <1>1, <4>1 DEF Completes
    <3>3. CASE sync' = [sync EXCEPT ![n] = [sync[n] EXCEPT !.phase = "create"]]
      <4>1. sync'[n].at = sync[n].at /\ sync'[n].phase = "create"
        BY <3>3 DEF Inv, Syncs
      <4> QED BY <3>1, <4>1 DEF Passed, Completes
    <3> QED BY <2>5, <3>2, <3>3, GetMoves DEF Moves
  <2>6. CASE CreateAccount(n)
    <3>1. sync[n].phase = "create"
      BY <2>6 DEF CreateAccount
    <3>2. CASE /\ sync' = [sync EXCEPT ![n] = GoOn(sync[n])]
               /\ accounts' = [accounts EXCEPT ![n] = @ \cup {Ensured[sync[n].at]}]
      <4>1. Ensured[sync[n].at] \in accounts'[n]
        BY <3>2 DEF Inv
      <4>2. Passed(n)' /\ (sync'[n].phase = "idle" => Accounts \subseteq accounts'[n])
        BY <1>2, <3>1, <3>2, <4>1, GoOnPassed
      <4> QED BY <1>1, <4>2 DEF Completes
    <3>3. CASE sync' = [sync EXCEPT ![n] = NoSync] /\ Disturb
      <4>1. sync'[n].phase = "idle" /\ left' # left
        BY <3>3, BoundAssumption DEF Inv, NoSync, Disturb
      <4> QED BY <4>1 DEF Passed, Completes
    <3> QED BY <2>6, <3>2, <3>3, CreateMoves DEF Moves
  <2> QED BY <2>3, <2>4, <2>5, <2>6
<1> QED BY <1>3, <1>4

\* A sync looks the accounts up one by one, each at a moment of its own, while users and
\* other syncs act, and takes AlreadyExists for a success.  If no account of its
\* namespace is removed meanwhile and no request of it refused, all of them are there
\* when it is through, those it found and those it created.
THEOREM SyncMissesNothing ==
  ASSUME NEW n \in Namespaces
  PROVE  Spec =>
    [](sync[n].phase = "idle" /\ [][Kept(n)]_vars =>
         [][Completes(n) => accounts'[n] = Accounts]_vars)
<1>1. sync[n].phase = "idle" => Passed(n)
  BY DEF Passed
<1>2. Inv /\ Passed(n) /\ [Next]_vars /\ [Kept(n)]_vars =>
        Passed(n)' /\ [Completes(n) => accounts'[n] = Accounts]_vars
  BY PassedKept
<1> QED BY <1>1, <1>2, Invariant, PTL DEF Spec

-----------------------------------------------------------------------------
(* A deleted namespace runs down. *)

\* The accounts that the namespace controller may have to delete, and the calls that
\* the sync still makes, each weighed with the account it may leave behind.
Ahead(s) ==
  IF s.phase = "idle" THEN 0
  ELSE 3 * (Len(Ensured) - s.at) + (IF s.phase = "get" THEN 3 ELSE 2)

Work(n) == Cardinality(accounts[n]) + Ahead(sync[n])

LEMMA AheadType ==
  ASSUME NEW s, SyncOK(s)
  PROVE  Ahead(s) \in Nat
<1>1. CASE s.phase = "idle"
  BY <1>1 DEF Ahead
<1>2. CASE s.phase # "idle"
  <2>1. Len(Ensured) - s.at \in Nat
    BY <1>2, ListType DEF SyncOK
  <2> QED BY <1>2, <2>1 DEF Ahead
<1> QED BY <1>1, <1>2

\* Going on leaves three for each account after this one.
LEMMA AheadGoOn ==
  ASSUME NEW s, SyncOK(s), s.phase # "idle"
  PROVE  /\ Ahead(GoOn(s)) = 3 * (Len(Ensured) - s.at)
         /\ Ahead(s) = Ahead(GoOn(s)) + (IF s.phase = "get" THEN 3 ELSE 2)
         /\ Ahead(GoOn(s)) \in Nat
<1>1. s \in Syncs /\ s.at \in 1..Len(Ensured) /\ Len(Ensured) \in Nat
  BY ListType DEF SyncOK
<1>2. Len(Ensured) - s.at \in Nat
  BY <1>1
<1>3. Ahead(GoOn(s)) = 3 * (Len(Ensured) - s.at)
  <2>1. CASE GoOn(s).phase = "idle"
    BY <1>1, <2>1, GoOnOK DEF Ahead
  <2>2. CASE GoOn(s).phase # "idle"
    <3>1. GoOn(s).phase = "get" /\ GoOn(s).at = s.at + 1
      BY <1>1, <2>2, GoOnOK
    <3>2. Ahead(GoOn(s)) = 3 * (Len(Ensured) - (s.at + 1)) + 3
      BY <3>1 DEF Ahead
    <3> QED BY <1>1, <3>2
  <2> QED BY <2>1, <2>2
<1> QED BY <1>2, <1>3 DEF Ahead

\* What stays of a namespace that is being deleted.
StillGoes(n) == namespaces[n] = "Terminating" /\ namespaces'[n] = "Terminating"

Changes(n) == sync'[n] # sync[n] \/ accounts'[n] # accounts[n]

LEMMA OneMore ==
  ASSUME NEW S, IsFiniteSet(S), NEW x
  PROVE  Cardinality(S \cup {x}) \in Nat /\ Cardinality(S \cup {x}) <= Cardinality(S) + 1
<1>1. /\ IsFiniteSet(S \cup {x})
      /\ Cardinality(S \cup {x}) = Cardinality(S) \/ Cardinality(S \cup {x}) = Cardinality(S) + 1
  BY FS_AddElement
<1>2. Cardinality(S) \in Nat /\ Cardinality(S \cup {x}) \in Nat
  BY <1>1, FS_CardinalityType
<1> QED BY <1>1, <1>2

LEMMA StepsRunDown ==
  ASSUME Inv, NEW n \in Namespaces, Steps(n), StillGoes(n), ~Users(n), Changes(n)
  PROVE  Work(n)' < Work(n)
<1> DEFINE size == Cardinality(accounts[n])
<1>1. /\ SyncOK(sync[n]) /\ accounts[n] \in SUBSET Accounts /\ IsFiniteSet(accounts[n])
      /\ SyncOK(sync'[n])
  <2>1. Inv'
    BY StepsKept
  <2>2. accounts[n] \in SUBSET Accounts
    BY DEF Inv
  <2> QED BY <2>1, <2>2, AccountsFinite, FS_Subset DEF Inv
<1>2. size \in Nat
  BY <1>1, FS_CardinalityType
<1>3. Ahead(sync[n]) \in Nat /\ Ahead(sync'[n]) \in Nat
  BY <1>1, AheadType
<1>4. Work(n) = size + Ahead(sync[n])
  BY DEF Work
<1>5. Work(n)' = Cardinality(accounts'[n]) + Ahead(sync'[n])
  BY DEF Work, Ahead
<1> HIDE DEF size
<1>6. CASE GetAccount(n)
  <2>1. accounts' = accounts /\ sync[n].phase = "get"
    BY <1>6 DEF GetAccount
  <2>2. Work(n)' = size + Ahead(sync'[n])
    BY <1>5, <2>1 DEF size
  <2>3. sync'[n] = GoOn(sync[n]) \/ sync'[n] = [sync[n] EXCEPT !.phase = "create"]
    BY <1>6, GetMoves DEF Moves, Inv
  <2>4. CASE sync'[n] = GoOn(sync[n])
    <3>1. Ahead(sync[n]) = Ahead(sync'[n]) + 3
      BY <1>1, <2>1, <2>4, AheadGoOn
    <3> QED BY <1>2, <1>3, <1>4, <2>2, <3>1
  <2>5. CASE sync'[n] = [sync[n] EXCEPT !.phase = "create"]
    <3>1. sync'[n].phase = "create" /\ sync'[n].at = sync[n].at
      BY <1>1, <2>5 DEF SyncOK, Syncs
    <3>2. Len(Ensured) - sync[n].at \in Nat
      BY <1>1, <2>1, ListType DEF SyncOK
    <3>3. Ahead(sync[n]) = Ahead(sync'[n]) + 1
      BY <2>1, <3>1, <3>2 DEF Ahead
    <3> QED BY <1>2, <1>3, <1>4, <2>2, <3>3
  <2> QED BY <2>3, <2>4, <2>5
<1>7. CASE CreateAccount(n)
  <2>1. sync[n].phase = "create"
    BY <1>7 DEF CreateAccount
  <2>2. Ahead(sync[n]) = Ahead(GoOn(sync[n])) + 2 /\ Ahead(GoOn(sync[n])) \in Nat
    BY <1>1, <2>1, AheadGoOn
  <2>3. CASE /\ sync'[n] = GoOn(sync[n])
             /\ accounts'[n] = accounts[n] \cup {Ensured[sync[n].at]}
    <3>1. /\ Cardinality(accounts'[n]) \in Nat
          /\ Cardinality(accounts'[n]) <= size + 1
      BY <1>1, <2>3, OneMore DEF size
    <3> QED BY <1>2, <1>4, <1>5, <2>2, <2>3, <3>1
  <2>4. CASE sync'[n] = NoSync /\ accounts' = accounts
    <3>1. Ahead(sync'[n]) = 0
      BY <2>4 DEF Ahead, NoSync
    <3>2. Work(n)' = size
      BY <1>2, <1>5, <2>4, <3>1 DEF size
    <3> QED BY <1>2, <1>4, <2>2, <3>2
  <2> QED BY <1>7, <2>3, <2>4, CreateMoves DEF Moves, Inv
<1>8. ASSUME NEW a \in Accounts, DeleteContent(n, a)
      PROVE  Work(n)' < Work(n)
  <2>1. accounts'[n] = accounts[n] \ {a} /\ a \in accounts[n] /\ sync' = sync
    BY <1>8 DEF DeleteContent, Inv
  <2>2. Cardinality(accounts'[n]) = size - 1
    BY <1>1, <2>1, FS_RemoveElement DEF size
  <2> QED BY <1>2, <1>3, <1>4, <1>5, <2>1, <2>2
<1>9. ~ReadNamespace(n) /\ ~FinishNamespace(n)
  <2>1. FinishNamespace(n) => namespaces'[n] = "Absent"
    BY DEF FinishNamespace, Inv
  <2> QED BY <2>1 DEF ReadNamespace, NeedsSync, StillGoes
<1> QED BY <1>6, <1>7, <1>8, <1>9 DEF Steps

\* The account a late sync leaves in a deleted namespace does not undo the work of the
\* namespace controller: every step that is not a user's, of the sync or of the
\* controller, refused or not, leaves less to do than there was, and the sync of a
\* deleted namespace never starts again.  Together with fairness this is why
\* NamespacesGo holds.
THEOREM TerminatingRunsDown ==
  ASSUME NEW n \in Namespaces
  PROVE  Spec =>
    [](Work(n) \in Nat)
    /\ [][StillGoes(n) /\ Changes(n) /\ ~Users(n) => Work(n)' < Work(n)]_vars
<1>1. Inv => Work(n) \in Nat
  <2> SUFFICES ASSUME Inv PROVE Work(n) \in Nat
    OBVIOUS
  <2>1. accounts[n] \in SUBSET Accounts /\ SyncOK(sync[n])
    BY DEF Inv
  <2>2. Cardinality(accounts[n]) \in Nat
    BY <2>1, AccountsFinite, FS_Subset, FS_CardinalityType
  <2> QED BY <2>1, <2>2, AheadType DEF Work
<1>2. Inv /\ [Next]_vars =>
        [StillGoes(n) /\ Changes(n) /\ ~Users(n) => Work(n)' < Work(n)]_vars
  <2> SUFFICES ASSUME Inv, Next, StillGoes(n), Changes(n), ~Users(n)
               PROVE  Work(n)' < Work(n)
    BY DEF vars
  <2>1. PICK m \in Namespaces : Steps(m)
    BY DEF Next, Step, Steps
  <2>2. m = n
    BY <2>1, Elsewhere DEF Changes
  <2> QED BY <2>1, <2>2, StepsRunDown
<1> QED BY <1>1, <1>2, Invariant, PTL DEF Spec
=============================================================================
