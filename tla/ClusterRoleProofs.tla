-------------------------- MODULE ClusterRoleProofs --------------------------
(***************************************************************************)
(* Proofs about ClusterRoleAggregation, for any number of roles, selectors *)
(* and rules, cycles of roles that select each other included.             *)
(*                                                                         *)
(* The rules a sync collects are a fold in a fold.  The first part proves  *)
(* what such a fold computes: that it has a value at all, by induction on  *)
(* the length of the sequence, and then what it finds.                     *)
(***************************************************************************)
EXTENDS ClusterRoleAggregation, FiniteSetTheorems, WellFoundedInduction, TLAPS

-----------------------------------------------------------------------------
(* Folds of sequences. *)

\* Induction, with a set for the property.
LEMMA Induction ==
  ASSUME NEW S, 0 \in S, \A n \in Nat : n \in S => n + 1 \in S
  PROVE  Nat \subseteq S
<1> DEFINE T == Nat \ S
<1> SUFFICES ASSUME T # {} PROVE FALSE
  OBVIOUS
<1>1. PICK m \in T : \A k \in T : ~(<<k, m>> \in OpToRel(<, Nat))
  BY WFMin, NatLessThanWellFounded
<1>2. m \in Nat /\ m # 0 /\ m - 1 \in Nat
  OBVIOUS
<1>3. m - 1 \notin T
  <2>1. m - 1 < m
    BY <1>2
  <2>2. <<m - 1, m>> \in OpToRel(<, Nat)
    BY <1>2, <2>1, Zenon DEF OpToRel
  <2> QED BY <1>1, <2>2
<1>4. m - 1 + 1 = m
  BY <1>2
<1> QED BY <1>2, <1>3, <1>4

LEMMA MaxOfInterval ==
  ASSUME NEW n \in Nat, NEW s \in SUBSET (1..n), n \in s
  PROVE  Max(s) = n
<1>1. \A y \in s : n >= y
  OBVIOUS
<1>2. \A x \in s : (\A y \in s : x >= y) => x = n
  OBVIOUS
<1> QED BY <1>1, <1>2 DEF Max

LEMMA MaxMember ==
  ASSUME NEW n \in Nat, NEW s \in SUBSET (1..n), s # {}
  PROVE  Max(s) \in s
<1> DEFINE gaps == {n - x : x \in s}
<1>1. gaps \subseteq Nat /\ gaps # {}
  <2>1. \A x \in s : n - x \in Nat
    OBVIOUS
  <2> QED BY <2>1
<1>2. PICK g \in gaps : \A h \in gaps : ~(<<h, g>> \in OpToRel(<, Nat))
  BY <1>1, WFMin, NatLessThanWellFounded
<1>3. PICK x \in s : g = n - x
  OBVIOUS
<1>4. \A y \in s : x >= y
  <2> SUFFICES ASSUME NEW y \in s PROVE x >= y
    OBVIOUS
  <2>1. n - y \in gaps /\ n - y \in Nat /\ g \in Nat
    BY <1>1
  <2>2. ~(n - y < g)
    BY <1>2, <2>1, Zenon DEF OpToRel
  <2> QED BY <1>3, <2>1, <2>2
<1> QED BY <1>4 DEF Max

\* A fold of a sequence runs over the sets of its positions, the last first.
Folds(g, n, base, step) ==
  g = [s \in SUBSET (1..n) |-> IF s = {} THEN base ELSE step[<<Max(s), g[s \ {Max(s)}]>>]]

LEMMA FoldsExtend ==
  ASSUME NEW N \in Nat, NEW n \in Nat, n < N, NEW Y, NEW base \in Y,
         NEW step \in [(1..N) \X Y -> Y],
         NEW g \in [SUBSET (1..n) -> Y], Folds(g, n, base, step)
  PROVE  \E h \in [SUBSET (1..(n + 1)) -> Y] : Folds(h, n + 1, base, step)
<1> DEFINE m == n + 1
           h == [s \in SUBSET (1..m) |-> IF m \in s THEN step[<<m, g[s \ {m}]>>] ELSE g[s]]
<1>1. m \in Nat /\ m \in 1..N /\ m \notin 1..n
  OBVIOUS
<1>2. \A s \in SUBSET (1..m) : s \ {m} \in SUBSET (1..n) /\ (m \notin s => s \in SUBSET (1..n))
  OBVIOUS
<1>3. h \in [SUBSET (1..m) -> Y]
  <2> HIDE DEF m
  <2> QED BY <1>1, <1>2
<1>4. ASSUME NEW s \in SUBSET (1..m), s # {}
      PROVE  h[s] = step[<<Max(s), h[s \ {Max(s)}]>>]
  <2>1. CASE m \in s
    <3>1. Max(s) = m
      BY <1>1, <2>1, MaxOfInterval
    <3>2. s \ {m} \in SUBSET (1..m) /\ m \notin s \ {m}
      OBVIOUS
    <3>3. h[s \ {m}] = g[s \ {m}]
      BY <3>2
    <3>4. h[s] = step[<<m, g[s \ {m}]>>]
      BY <2>1
    <3> QED BY <3>1, <3>3, <3>4
  <2>2. CASE m \notin s
    <3>1. s \in SUBSET (1..n)
      BY <1>2, <2>2
    <3>2. g[s] = step[<<Max(s), g[s \ {Max(s)}]>>]
      BY <1>4, <3>1 DEF Folds
    <3>3. s \ {Max(s)} \in SUBSET (1..m) /\ m \notin s \ {Max(s)}
      BY <2>2
    <3>4. h[s \ {Max(s)}] = g[s \ {Max(s)}] /\ h[s] = g[s]
      BY <2>2, <3>3
    <3> QED BY <3>2, <3>4
  <2> QED BY <2>1, <2>2
<1>5. h[{}] = base
  <2>1. g[{}] = base
    BY DEF Folds
  <2> QED BY <2>1
<1>6. Folds(h, m, base, step)
  <2> DEFINE k == [s \in SUBSET (1..m) |-> IF s = {} THEN base ELSE step[<<Max(s), h[s \ {Max(s)}]>>]]
  <2>1. \A s \in SUBSET (1..m) : h[s] = k[s]
    BY <1>4, <1>5
  <2>2. DOMAIN h = SUBSET (1..m) /\ DOMAIN k = SUBSET (1..m)
    OBVIOUS
  <2>3. h = k
    <3>1. h = [s \in SUBSET (1..m) |-> h[s]] /\ k = [s \in SUBSET (1..m) |-> k[s]]
      OBVIOUS
    <3> HIDE DEF h, k
    <3> QED BY <2>1, <3>1
  <2> QED BY <2>3 DEF Folds
<1> QED BY <1>3, <1>6

LEMMA FoldsExist ==
  ASSUME NEW N \in Nat, NEW Y, NEW base \in Y, NEW step \in [(1..N) \X Y -> Y]
  PROVE  \E g \in [SUBSET (1..N) -> Y] : Folds(g, N, base, step)
<1> DEFINE S == {n \in Nat : n <= N => \E g \in [SUBSET (1..n) -> Y] : Folds(g, n, base, step)}
<1>1. 0 \in S
  <2> DEFINE g == [s \in SUBSET (1..0) |-> base]
  <2>1. SUBSET (1..0) = {{}}
    OBVIOUS
  <2>2. g \in [SUBSET (1..0) -> Y]
    OBVIOUS
  <2>3. Folds(g, 0, base, step)
    BY <2>1 DEF Folds
  <2> QED BY <2>2, <2>3
<1>2. ASSUME NEW n \in Nat, n \in S
      PROVE  n + 1 \in S
  <2>1. ASSUME n + 1 <= N
        PROVE  \E g \in [SUBSET (1..(n + 1)) -> Y] : Folds(g, n + 1, base, step)
    <3>1. n < N /\ n <= N
      BY <2>1
    <3>2. PICK g \in [SUBSET (1..n) -> Y] : Folds(g, n, base, step)
      BY <1>2, <3>1
    <3> QED BY <3>1, <3>2, FoldsExtend
  <2>2. n + 1 \in Nat
    OBVIOUS
  <2> QED BY <2>1, <2>2, Zenon
<1> HIDE DEF S
<1>3. Nat \subseteq S
  BY <1>1, <1>2, Induction
<1>4. N <= N => \E g \in [SUBSET (1..N) -> Y] : Folds(g, N, base, step)
  BY <1>3, Zenon DEF S
<1>5. N <= N
  OBVIOUS
<1> QED BY <1>4, <1>5, Zenon

\* Over the sets of the first positions, such a fold is a recursion over the positions.
LEMMA FoldsInOrder ==
  ASSUME NEW N \in Nat, NEW base, NEW step, NEW g, Folds(g, N, base, step)
  PROVE  /\ g[1..0] = base
         /\ \A i \in 1..N : g[1..i] = step[<<i, g[1..(i - 1)]>>]
<1>1. 1..0 = {}
  OBVIOUS
<1>2. g[1..0] = base
  BY <1>1 DEF Folds
<1>3. ASSUME NEW i \in 1..N
      PROVE  g[1..i] = step[<<i, g[1..(i - 1)]>>]
  <2>1. 1..i \in SUBSET (1..N) /\ 1..i # {} /\ i \in 1..i /\ i \in Nat
    OBVIOUS
  <2>2. Max(1..i) = i
    BY <2>1, MaxOfInterval
  <2>3. (1..i) \ {i} = 1..(i - 1)
    OBVIOUS
  <2>4. g[1..i] = step[<<Max(1..i), g[(1..i) \ {Max(1..i)}]>>]
    BY <2>1 DEF Folds
  <2> QED BY <2>2, <2>3, <2>4
<1> QED BY <1>2, <1>3

\* Recursion over the positions of a sequence.
Runs(f, N, base, step) == f[0] = base /\ \A i \in 1..N : f[i] = step[<<i, f[i - 1]>>]

LEMMA Recursion ==
  ASSUME NEW N \in Nat, NEW Y, NEW base \in Y, NEW step \in [(1..N) \X Y -> Y]
  PROVE  \E f \in [0..N -> Y] : Runs(f, N, base, step)
<1>1. PICK g \in [SUBSET (1..N) -> Y] : Folds(g, N, base, step)
  BY FoldsExist
<1>2. /\ g[1..0] = base
      /\ \A i \in 1..N : g[1..i] = step[<<i, g[1..(i - 1)]>>]
  BY <1>1, FoldsInOrder
<1> DEFINE f == [i \in 0..N |-> g[1..i]]
<1>3. \A i \in 0..N : 1..i \in SUBSET (1..N) /\ f[i] = g[1..i]
  OBVIOUS
<1>4. f \in [0..N -> Y]
  BY <1>3
<1>5. \A i \in 1..N : i \in 0..N /\ i - 1 \in 0..N
  OBVIOUS
<1> HIDE DEF f
<1>6. f[0] = base
  BY <1>2, <1>3
<1>7. \A i \in 1..N : f[i] = step[<<i, f[i - 1]>>]
  BY <1>2, <1>3, <1>5
<1> QED BY <1>4, <1>6, <1>7 DEF Runs

-----------------------------------------------------------------------------
(* What a sync collects. *)

LEMMA RangeFinite ==
  ASSUME NEW s, s \in Seq(Rules)
  PROVE  IsFiniteSet(Range(s))
<1>1. s \in Surjection(1..Len(s), Range(s))
  BY DEF Surjection, Range
<1>2. IsFiniteSet(1..Len(s))
  BY FS_Interval
<1> QED BY <1>1, <1>2, FS_Surjection

LEMMA AddRuleOK ==
  ASSUME NEW found \in Seq(Rules), NEW rule \in Rules
  PROVE  /\ AddRule(found, rule) \in Seq(Rules)
         /\ Range(AddRule(found, rule)) = Range(found) \cup {rule}
         /\ NoRepetition(found) => NoRepetition(AddRule(found, rule))
<1>1. CASE rule \in Range(found)
  BY <1>1 DEF AddRule
<1>2. CASE rule \notin Range(found)
  <2> DEFINE more == Append(found, rule)
  <2>1. /\ AddRule(found, rule) = more
        /\ more \in Seq(Rules) /\ Len(more) = Len(found) + 1
        /\ DOMAIN more = 1..(Len(found) + 1)
    BY <1>2 DEF AddRule
  <2>2. \A i \in 1..Len(found) : more[i] = found[i]
    OBVIOUS
  <2>3. more[Len(found) + 1] = rule
    OBVIOUS
  <2>4. Range(more) = Range(found) \cup {rule}
    <3>1. DOMAIN found = 1..Len(found) /\ Len(found) \in Nat
      OBVIOUS
    <3> HIDE DEF more
    <3>2. 1..(Len(found) + 1) = (1..Len(found)) \cup {Len(found) + 1}
      BY <3>1
    <3> QED BY <2>1, <2>2, <2>3, <3>1, <3>2 DEF Range
  <2> HIDE DEF more
  <2>5. Cardinality(Range(found) \cup {rule}) = Cardinality(Range(found)) + 1
    BY <1>2, RangeFinite, FS_AddElement
  <2>6. NoRepetition(found) => NoRepetition(more)
    BY <2>1, <2>4, <2>5 DEF NoRepetition
  <2> QED BY <2>1, <2>4, <2>6
<1> QED BY <1>1, <1>2

\* Adding a role's rules adds all of them and nothing else.
LEMMA AddRulesOK ==
  ASSUME NEW found \in Seq(Rules), NEW rules \in Seq(Rules)
  PROVE  /\ AddRules(found, rules) \in Seq(Rules)
         /\ Range(AddRules(found, rules)) = Range(found) \cup Range(rules)
         /\ NoRepetition(found) => NoRepetition(AddRules(found, rules))
<1> DEFINE N == Len(rules)
           step == [p \in (1..N) \X Seq(Rules) |-> AddRule(p[2], rules[p[1]])]
           fold == CHOOSE iter : iter = [s \in SUBSET (1..N) |->
                     IF s = {} THEN found ELSE AddRule(iter[s \ {Max(s)}], rules[Max(s)])]
<1>1. N \in Nat /\ DOMAIN rules = 1..N /\ \A i \in 1..N : rules[i] \in Rules
  OBVIOUS
<1>2. AddRules(found, rules) = fold[1..N]
  BY <1>1 DEF AddRules, FoldLeft, MapThenFoldSet
<1> HIDE DEF N
<1>3. step \in [(1..N) \X Seq(Rules) -> Seq(Rules)]
  BY <1>1, AddRuleOK
<1>4. PICK g \in [SUBSET (1..N) -> Seq(Rules)] : Folds(g, N, found, step)
  BY <1>1, <1>3, FoldsExist
<1>5. g = [s \in SUBSET (1..N) |->
             IF s = {} THEN found ELSE AddRule(g[s \ {Max(s)}], rules[Max(s)])]
  <2>1. ASSUME NEW s \in SUBSET (1..N), s # {}
        PROVE  step[<<Max(s), g[s \ {Max(s)}]>>] = AddRule(g[s \ {Max(s)}], rules[Max(s)])
    <3>1. Max(s) \in 1..N /\ g[s \ {Max(s)}] \in Seq(Rules)
      BY <1>1, <2>1, MaxMember
    <3> QED BY <3>1
  <2> HIDE DEF step
  <2> QED BY <1>4, <2>1 DEF Folds
<1>6. fold = [s \in SUBSET (1..N) |->
                IF s = {} THEN found ELSE AddRule(fold[s \ {Max(s)}], rules[Max(s)])]
  BY <1>5
<1> HIDE DEF fold, step
<1>7. fold[1..0] = found
  <2>1. 1..0 = {} /\ 1..0 \in SUBSET (1..N)
    OBVIOUS
  <2> QED BY <1>6, <2>1
<1>8. ASSUME NEW i \in Nat, i + 1 <= N
      PROVE  fold[1..(i + 1)] = AddRule(fold[1..i], rules[i + 1])
  <2> DEFINE s == 1..(i + 1)
  <2>1. s \in SUBSET (1..N) /\ i + 1 \in s /\ i + 1 \in Nat
    BY <1>1, <1>8
  <2>2. Max(s) = i + 1
    BY <2>1, MaxOfInterval
  <2>3. s \ {i + 1} = 1..i
    OBVIOUS
  <2> HIDE DEF s
  <2>4. s # {}
    BY <2>1
  <2>5. fold[s] = AddRule(fold[s \ {Max(s)}], rules[Max(s)])
    BY <1>6, <2>1, <2>4
  <2> QED BY <2>2, <2>3, <2>5 DEF s
<1> DEFINE Right(i) == /\ fold[1..i] \in Seq(Rules)
                       /\ Range(fold[1..i]) = Range(found) \cup {rules[j] : j \in 1..i}
                       /\ NoRepetition(found) => NoRepetition(fold[1..i])
           S == {i \in Nat : i <= N => Right(i)}
<1>9. 0 \in S
  BY <1>7
<1>10. ASSUME NEW i \in Nat, i \in S
       PROVE  i + 1 \in S
  <2>1. ASSUME i + 1 <= N
        PROVE  Right(i + 1)
    <3>1. Right(i) /\ rules[i + 1] \in Rules
      BY <1>1, <1>10, <2>1
    <3>2. 1..(i + 1) = (1..i) \cup {i + 1}
      OBVIOUS
    <3>3. fold[1..(i + 1)] = AddRule(fold[1..i], rules[i + 1])
      BY <1>8, <2>1
    <3>4. {rules[j] : j \in 1..(i + 1)} = {rules[j] : j \in 1..i} \cup {rules[i + 1]}
      BY <3>2
    <3> DEFINE before == fold[1..i]
    <3>5. before \in Seq(Rules) /\ Range(before) = Range(found) \cup {rules[j] : j \in 1..i}
      BY <3>1
    <3>6. NoRepetition(found) => NoRepetition(before)
      BY <3>1
    <3>7. fold[1..(i + 1)] = AddRule(before, rules[i + 1])
      BY <3>3
    <3> HIDE DEF before
    <3>8. /\ AddRule(before, rules[i + 1]) \in Seq(Rules)
          /\ Range(AddRule(before, rules[i + 1])) = Range(before) \cup {rules[i + 1]}
          /\ NoRepetition(before) => NoRepetition(AddRule(before, rules[i + 1]))
      BY <3>1, <3>5, AddRuleOK
    <3> QED BY <3>4, <3>5, <3>6, <3>7, <3>8
  <2>2. i + 1 \in Nat
    OBVIOUS
  <2> QED BY <2>1, <2>2
<1> HIDE DEF S
<1>11. N \in S
  BY <1>1, <1>9, <1>10, Induction
<1>12. Right(N)
  BY <1>1, <1>11 DEF S
<1>13. Range(rules) = {rules[j] : j \in 1..N}
  BY <1>1 DEF Range
<1> QED BY <1>2, <1>12, <1>13

\* So does adding the rules of one role after the other.
LEMMA AddListsOK ==
  ASSUME NEW found \in Seq(Rules), NEW lists \in [Names -> Seq(Rules)]
  PROVE  /\ FoldLeft(AddRules, found, lists) \in Seq(Rules)
         /\ Range(FoldLeft(AddRules, found, lists)) = Range(found) \cup (UNION {Range(lists[k]) : k \in Names})
         /\ NoRepetition(found) => NoRepetition(FoldLeft(AddRules, found, lists))
<1> DEFINE N == RoleCount
           step == [p \in (1..N) \X Seq(Rules) |-> AddRules(p[2], lists[p[1]])]
           fold == CHOOSE iter : iter = [s \in SUBSET (1..N) |->
                     IF s = {} THEN found ELSE AddRules(iter[s \ {Max(s)}], lists[Max(s)])]
<1>1. N \in Nat /\ DOMAIN lists = 1..N /\ \A i \in 1..N : lists[i] \in Seq(Rules)
  BY NameAssumption DEF Names
<1>2. FoldLeft(AddRules, found, lists) = fold[1..N]
  BY <1>1 DEF FoldLeft, MapThenFoldSet
<1> HIDE DEF N
<1>3. step \in [(1..N) \X Seq(Rules) -> Seq(Rules)]
  BY <1>1, AddRulesOK
<1>4. PICK g \in [SUBSET (1..N) -> Seq(Rules)] : Folds(g, N, found, step)
  BY <1>1, <1>3, FoldsExist
<1>5. g = [s \in SUBSET (1..N) |->
             IF s = {} THEN found ELSE AddRules(g[s \ {Max(s)}], lists[Max(s)])]
  <2>1. ASSUME NEW s \in SUBSET (1..N), s # {}
        PROVE  step[<<Max(s), g[s \ {Max(s)}]>>] = AddRules(g[s \ {Max(s)}], lists[Max(s)])
    <3>1. Max(s) \in 1..N /\ g[s \ {Max(s)}] \in Seq(Rules)
      BY <1>1, <2>1, MaxMember
    <3> QED BY <3>1
  <2> HIDE DEF step
  <2> QED BY <1>4, <2>1 DEF Folds
<1>6. fold = [s \in SUBSET (1..N) |->
                IF s = {} THEN found ELSE AddRules(fold[s \ {Max(s)}], lists[Max(s)])]
  BY <1>5
<1> HIDE DEF fold, step
<1>7. fold[1..0] = found
  <2>1. 1..0 = {} /\ 1..0 \in SUBSET (1..N)
    OBVIOUS
  <2> QED BY <1>6, <2>1
<1>8. ASSUME NEW i \in Nat, i + 1 <= N
      PROVE  fold[1..(i + 1)] = AddRules(fold[1..i], lists[i + 1])
  <2> DEFINE s == 1..(i + 1)
  <2>1. s \in SUBSET (1..N) /\ i + 1 \in s /\ i + 1 \in Nat
    BY <1>1, <1>8
  <2>2. Max(s) = i + 1
    BY <2>1, MaxOfInterval
  <2>3. s \ {i + 1} = 1..i
    OBVIOUS
  <2> HIDE DEF s
  <2>4. s # {}
    BY <2>1
  <2>5. fold[s] = AddRules(fold[s \ {Max(s)}], lists[Max(s)])
    BY <1>6, <2>1, <2>4
  <2> QED BY <2>2, <2>3, <2>5 DEF s
<1> DEFINE Right(i) == /\ fold[1..i] \in Seq(Rules)
                       /\ Range(fold[1..i]) = Range(found) \cup (UNION {Range(lists[j]) : j \in 1..i})
                       /\ NoRepetition(found) => NoRepetition(fold[1..i])
           S == {i \in Nat : i <= N => Right(i)}
<1>9. 0 \in S
  BY <1>7
<1>10. ASSUME NEW i \in Nat, i \in S
       PROVE  i + 1 \in S
  <2>1. ASSUME i + 1 <= N
        PROVE  Right(i + 1)
    <3>1. Right(i) /\ lists[i + 1] \in Seq(Rules)
      BY <1>1, <1>10, <2>1
    <3>2. 1..(i + 1) = (1..i) \cup {i + 1}
      OBVIOUS
    <3>3. fold[1..(i + 1)] = AddRules(fold[1..i], lists[i + 1])
      BY <1>8, <2>1
    <3>4. UNION {Range(lists[j]) : j \in 1..(i + 1)}
             = (UNION {Range(lists[j]) : j \in 1..i}) \cup Range(lists[i + 1])
      <4>1. {Range(lists[j]) : j \in 1..(i + 1)}
              = {Range(lists[j]) : j \in 1..i} \cup {Range(lists[i + 1])}
        BY <3>2
      <4> QED BY <4>1
    <3> DEFINE before == fold[1..i]
    <3>5. before \in Seq(Rules) /\ Range(before) = Range(found) \cup (UNION {Range(lists[j]) : j \in 1..i})
      BY <3>1
    <3>6. NoRepetition(found) => NoRepetition(before)
      BY <3>1
    <3>7. fold[1..(i + 1)] = AddRules(before, lists[i + 1])
      BY <3>3
    <3> HIDE DEF before
    <3>8. /\ AddRules(before, lists[i + 1]) \in Seq(Rules)
          /\ Range(AddRules(before, lists[i + 1])) = Range(before) \cup Range(lists[i + 1])
          /\ NoRepetition(before) => NoRepetition(AddRules(before, lists[i + 1]))
      BY <3>1, <3>5, AddRulesOK
    <3>9. Range(AddRules(before, lists[i + 1]))
            = Range(found) \cup (UNION {Range(lists[j]) : j \in 1..(i + 1)})
      BY <3>4, <3>5, <3>8
    <3> QED BY <3>6, <3>7, <3>8, <3>9
  <2>2. i + 1 \in Nat
    OBVIOUS
  <2> QED BY <2>1, <2>2
<1> HIDE DEF S
<1>11. N \in S
  BY <1>1, <1>9, <1>10, Induction
<1>12. Right(N)
  BY <1>1, <1>11 DEF S
<1>13. Names = 1..N
  BY DEF Names, N
<1> QED BY <1>2, <1>12, <1>13

\* The rules of a selector's roles: exactly they are added.
LEMMA CollectOK ==
  ASSUME roles \in [Names -> Roles \cup {Absent}], NEW n, NEW label,
         NEW found \in Seq(Rules)
  PROVE  /\ Collect(n, label, found) \in Seq(Rules)
         /\ Range(Collect(n, label, found))
              = Range(found) \cup (UNION {Range(roles[k].rules) : k \in Sources(n, label)})
         /\ NoRepetition(found) => NoRepetition(Collect(n, label, found))
<1> DEFINE lists == RulesBySource(n, label)
<1>1. Sources(n, label) \subseteq Names /\ \A k \in Sources(n, label) : roles[k] \in Roles
  BY DEF Sources, Stored
<1>2. \A k \in Sources(n, label) : roles[k].rules \in Seq(Rules)
  BY <1>1 DEF Roles
<1>3. lists \in [Names -> Seq(Rules)]
  BY <1>2 DEF RulesBySource
<1>4. Range(<<>>) = {}
  BY DEF Range
<1>5. (UNION {Range(lists[k]) : k \in Names})
        = (UNION {Range(roles[k].rules) : k \in Sources(n, label)})
  <2>1. \A k \in Names :
          Range(lists[k]) = IF k \in Sources(n, label) THEN Range(roles[k].rules) ELSE {}
    BY <1>4 DEF RulesBySource
  <2> HIDE DEF lists
  <2> QED BY <1>1, <2>1
<1> HIDE DEF lists
<1>6. /\ FoldLeft(AddRules, found, lists) \in Seq(Rules)
      /\ Range(FoldLeft(AddRules, found, lists)) = Range(found) \cup (UNION {Range(lists[k]) : k \in Names})
      /\ NoRepetition(found) => NoRepetition(FoldLeft(AddRules, found, lists))
  BY <1>3, AddListsOK
<1> QED BY <1>5, <1>6 DEF Collect, lists

-----------------------------------------------------------------------------
(* The type invariant. *)

\* What holds of the sync of role n by itself.
SyncOK(n, s) ==
  /\ s \in Syncs
  /\ NoRepetition(s.found)
  /\ s.done <= Len(Selectors[n])
  /\ s.phase # "idle" => s.copy \in Roles
  /\ s.phase = "list" => s.done < Len(Selectors[n])
  /\ s.phase = "update" => s.done = Len(Selectors[n]) /\ s.found # s.copy.rules

Inv ==
  /\ roles \in [Names -> Roles \cup {Absent}]
  /\ sync \in [Names -> Syncs]
  /\ \A n \in Names : SyncOK(n, sync[n])
  /\ left \in 0..MaxDisturbances

LEMMA SelectorsType ==
  ASSUME NEW n \in Names
  PROVE  /\ Selectors[n] \in Seq(Labels)
         /\ Len(Selectors[n]) \in Nat
         /\ \A i \in 1..Len(Selectors[n]) : Selectors[n][i] \in Labels
  BY SelectorAssumption

LEMMA NoSyncOK ==
  ASSUME NEW n \in Names
  PROVE  SyncOK(n, NoSync)
<1>1. NoSync \in Syncs
  BY DEF NoSync, Syncs
<1>2. Range(<<>>) = {}
  BY DEF Range
<1>3. NoRepetition(<<>>)
  BY <1>2, FS_EmptySet DEF NoRepetition
<1> QED BY <1>1, <1>3, SelectorsType DEF SyncOK, NoSync

LEMMA UserRolesType ==
  ASSUME NEW n \in Names
  PROVE  UserRoles(n) \subseteq Roles
<1>1. MayCarry[n] \subseteq Labels
  BY CarryAssumption
<1> QED BY <1>1, RuleAssumption DEF UserRoles, Roles

LEMMA InvInit == Init => Inv
<1> SUFFICES ASSUME Init PROVE Inv
  OBVIOUS
<1>1. \A n \in Names : roles[n] \in Roles \cup {Absent}
  BY UserRolesType DEF Init
<1>2. roles \in [Names -> Roles \cup {Absent}]
  BY <1>1 DEF Init
<1>3. \A n \in Names : sync[n] = NoSync
  BY DEF Init
<1>4. \A n \in Names : SyncOK(n, sync[n])
  BY <1>3, NoSyncOK
<1>5. sync \in [Names -> Syncs]
  BY NoSyncOK DEF Init, SyncOK
<1>6. left \in 0..MaxDisturbances
  BY BoundAssumption DEF Init
<1> QED BY <1>2, <1>4, <1>5, <1>6 DEF Inv

\* A step of one sync that leaves it in order, and the stored roles too.
LEMMA OneSync ==
  ASSUME Inv, NEW n \in Names, NEW t, SyncOK(n, t), sync' = [sync EXCEPT ![n] = t],
         roles' \in [Names -> Roles \cup {Absent}], left' \in 0..MaxDisturbances
  PROVE  Inv'
<1>1. \A k \in Names : sync'[k] = IF k = n THEN t ELSE sync[k]
  BY DEF Inv
<1>2. \A k \in Names : SyncOK(k, sync'[k])
  BY <1>1 DEF Inv
<1>3. sync' \in [Names -> Syncs]
  BY DEF Inv, SyncOK
<1> QED BY <1>2, <1>3 DEF Inv

LEMMA ReadKept ==
  ASSUME Inv, NEW n \in Names, ReadRole(n)
  PROVE  Inv'
<1> DEFINE t == [NoSync EXCEPT !.phase = "list", !.copy = roles[n]]
<1>1. /\ t.phase = "list" /\ t.copy = roles[n] /\ t.done = 0 /\ t.found = <<>>
      /\ sync' = [sync EXCEPT ![n] = t] /\ roles' = roles /\ left' = left
  BY DEF NoSync, ReadRole
<1>2. roles[n] \in Roles
  BY DEF Inv, ReadRole
<1>3. t \in Syncs
  <2>1. NoSync \in Syncs
    BY NoSyncOK DEF SyncOK
  <2> QED BY <1>2, <2>1 DEF Syncs
<1>4. Len(Selectors[n]) > 0
  BY SelectorsType DEF ReadRole, Aggregating
<1>5. NoRepetition(<<>>)
  BY NoSyncOK DEF SyncOK, NoSync
<1> HIDE DEF t
<1>6. SyncOK(n, t)
  BY <1>1, <1>2, <1>3, <1>4, <1>5, SelectorsType DEF SyncOK
<1> QED BY <1>1, <1>6, OneSync DEF Inv

\* What a list leaves of the sync.
Listed(n) ==
  LET i     == sync[n].done + 1
      found == Collect(n, Selectors[n][i], sync[n].found)
      next  == [sync[n] EXCEPT !.done = i, !.found = found]
  IN  IF i < Len(Selectors[n]) THEN next
      ELSE IF found = sync[n].copy.rules THEN NoSync
      ELSE [next EXCEPT !.phase = "update"]

LEMMA ListedOK ==
  ASSUME Inv, NEW n \in Names, sync[n].phase = "list"
  PROVE  SyncOK(n, Listed(n))
<1> DEFINE s     == sync[n]
           i     == s.done + 1
           found == Collect(n, Selectors[n][i], s.found)
           next  == [s EXCEPT !.done = i, !.found = found]
           last  == [next EXCEPT !.phase = "update"]
<1>1. SyncOK(n, s) /\ s \in Syncs /\ s.done \in Nat /\ s.found \in Seq(Rules)
  BY DEF Inv, Syncs
<1>2. /\ s.done < Len(Selectors[n]) /\ i \in 1..Len(Selectors[n]) /\ i \in Nat
      /\ Len(Selectors[n]) \in Nat
  BY <1>1, SelectorsType DEF SyncOK
<1>3. found \in Seq(Rules) /\ NoRepetition(found)
  BY <1>1, CollectOK DEF Inv, SyncOK
<1>4. /\ next \in Syncs /\ next.phase = "list" /\ next.done = i /\ next.found = found
      /\ next.copy = s.copy
  BY <1>1, <1>2, <1>3 DEF Syncs
<1>5. /\ last \in Syncs /\ last.phase = "update" /\ last.done = i /\ last.found = found
      /\ last.copy = s.copy
  BY <1>1, <1>2, <1>3 DEF Syncs
<1>6. Listed(n) = IF i < Len(Selectors[n]) THEN next
                  ELSE IF found = s.copy.rules THEN NoSync ELSE last
  BY DEF Listed
<1>7. s.copy \in Roles
  BY <1>1 DEF SyncOK
<1> HIDE DEF next, last, found, i, s
<1>8. i < Len(Selectors[n]) => SyncOK(n, next)
  BY <1>2, <1>3, <1>4, <1>7 DEF SyncOK
<1>9. ~(i < Len(Selectors[n])) /\ found # s.copy.rules => SyncOK(n, last)
  BY <1>2, <1>3, <1>5, <1>7 DEF SyncOK
<1> QED BY <1>6, <1>8, <1>9, NoSyncOK

LEMMA ListKept ==
  ASSUME Inv, NEW n \in Names, ListRoles(n)
  PROVE  Inv' /\ sync' = [sync EXCEPT ![n] = Listed(n)]
<1>1. /\ sync[n].phase = "list" /\ roles' = roles /\ left' = left
      /\ sync' = [sync EXCEPT ![n] = Listed(n)]
  BY DEF ListRoles, Listed
<1> QED BY <1>1, ListedOK, OneSync DEF Inv

LEMMA LeftType ==
  ASSUME Inv, UNCHANGED left \/ Disturb
  PROVE  left' \in 0..MaxDisturbances
  BY BoundAssumption DEF Inv, Disturb

\* What an update writes.
LEMMA UpdateWrites ==
  ASSUME Inv, NEW n \in Names, UpdateRole(n)
  PROVE  /\ sync[n].phase = "update" /\ sync' = [sync EXCEPT ![n] = NoSync]
         /\ UNCHANGED left \/ Disturb
         /\ \/ roles' = roles
            \/ /\ roles[n] \in Roles
               /\ roles[n] = sync[n].copy
               /\ roles' = [roles EXCEPT ![n] = [roles[n] EXCEPT !.rules = sync[n].found]]
<1>1. roles[n] # Absent => roles[n] \in Roles
  BY DEF Inv
<1> QED BY <1>1 DEF UpdateRole, UpdateConflict, Finish

LEMMA UpdateKept ==
  ASSUME Inv, NEW n \in Names, UpdateRole(n)
  PROVE  Inv'
<1>1. sync' = [sync EXCEPT ![n] = NoSync] /\ left' \in 0..MaxDisturbances
  BY UpdateWrites, LeftType
<1>2. roles' \in [Names -> Roles \cup {Absent}]
  <2>1. sync[n].found \in Seq(Rules)
    BY DEF Inv, Syncs
  <2>2. roles[n] \in Roles => [roles[n] EXCEPT !.rules = sync[n].found] \in Roles
    BY <2>1 DEF Roles
  <2> QED BY <2>2, UpdateWrites DEF Inv
<1> QED BY <1>1, <1>2, NoSyncOK, OneSync

LEMMA UsersKept ==
  ASSUME Inv, NEW n \in Names, Users(n)
  PROVE  Inv' /\ sync' = sync
<1>1. sync' = sync /\ Disturb
  BY DEF Users, CreateRole, DeleteRole, EditRules, EditLabels
<1>2. \E role \in Roles \cup {Absent} : roles' = [roles EXCEPT ![n] = role]
  <2>1. CASE CreateRole(n)
    BY <2>1, UserRolesType DEF CreateRole
  <2>2. CASE DeleteRole(n)
    BY <2>2 DEF DeleteRole
  <2>3. CASE EditRules(n)
    <3>1. PICK rules \in Seq(Rules) : roles' = [roles EXCEPT ![n].rules = rules]
      BY <2>3, RuleAssumption DEF EditRules
    <3>2. roles[n] \in Roles
      BY <2>3 DEF EditRules, Inv
    <3>3. [roles[n] EXCEPT !.rules = rules] \in Roles
      BY <3>2 DEF Roles
    <3> QED BY <3>1, <3>3
  <2>4. CASE EditLabels(n)
    <3>1. PICK labels \in SUBSET MayCarry[n] : roles' = [roles EXCEPT ![n].labels = labels]
      BY <2>4 DEF EditLabels
    <3>2. roles[n] \in Roles /\ labels \in SUBSET Labels
      BY <2>4, <3>1, CarryAssumption DEF EditLabels, Inv
    <3>3. [roles[n] EXCEPT !.labels = labels] \in Roles
      BY <3>2 DEF Roles
    <3> QED BY <3>1, <3>3
  <2> QED BY <2>1, <2>2, <2>3, <2>4 DEF Users
<1>3. roles' \in [Names -> Roles \cup {Absent}]
  BY <1>2 DEF Inv
<1>4. left' \in 0..MaxDisturbances
  BY <1>1, LeftType
<1> QED BY <1>1, <1>3, <1>4 DEF Inv

LEMMA InvKept == Inv /\ [Next]_vars => Inv'
<1> SUFFICES ASSUME Inv, [Next]_vars PROVE Inv'
  OBVIOUS
<1>1. CASE UNCHANGED vars
  BY <1>1 DEF vars, Inv
<1>2. CASE Next
  BY <1>2, ReadKept, ListKept, UpdateKept, UsersKept DEF Next, Step
<1> QED BY <1>1, <1>2

LEMMA Invariant == Spec => []Inv
  BY InvInit, InvKept, PTL DEF Spec

\* For any roles, labels, selectors and rules: the state is well typed, no sync runs
\* past the selectors of its role, and what a sync has found repeats no rule,
\* although it comes from several lists taken at different moments.
THEOREM TypeCorrect == Spec => []TypeOK
<1>1. Inv => TypeOK
  BY DEF Inv, SyncOK, TypeOK
<1> QED BY <1>1, Invariant, PTL

\* An update leaves the labels of its role alone and brings no deleted role back, for
\* the stored role is the one the sync read.
THEOREM UpdatesSpareLabels == Spec => LabelsSpared
<1>1. Inv /\ [Next]_vars =>
        [\A n \in Names :
           sync[n].phase = "update" /\ sync'[n] # sync[n] /\ roles'[n] # roles[n] =>
             roles[n] # Absent /\ roles'[n].labels = roles[n].labels]_vars
  <2> SUFFICES ASSUME Inv, Next, NEW n \in Names, sync[n].phase = "update",
                      sync'[n] # sync[n], roles'[n] # roles[n]
               PROVE  roles[n] # Absent /\ roles'[n].labels = roles[n].labels
    BY DEF vars
  <2>1. PICK m \in Names : ReadRole(m) \/ Step(m) \/ Users(m)
    BY DEF Next
  <2>2. ~Users(m)
    BY UsersKept
  <2>3. m = n
    BY <2>1, <2>2 DEF ReadRole, Step, ListRoles, UpdateRole, Finish, Inv
  <2>4. UpdateRole(n)
    BY <2>1, <2>2, <2>3 DEF ReadRole, Step, ListRoles
  <2>5. /\ roles[n] \in Roles
        /\ roles' = [roles EXCEPT ![n] = [roles[n] EXCEPT !.rules = sync[n].found]]
    BY <2>4, UpdateWrites
  <2> QED BY <2>5, TokenAssumption DEF Roles, Inv
<1> QED BY <1>1, Invariant, PTL DEF Spec, LabelsSpared

-----------------------------------------------------------------------------
(* Syncs while the other roles stay as they are. *)

\* What each selector of role n lists.
Listings(n) == [label \in Labels |-> RulesBySource(n, label)]

\* What a sync of role n has found after each of its selectors, if the lists are these.
FoundUpTo(n, lists) ==
  LET upTo[i \in 0..Len(Selectors[n])] ==
        IF i = 0 THEN <<>> ELSE FoldLeft(AddRules, upTo[i - 1], lists[Selectors[n][i]])
  IN  upTo

\* The rules of role n, in the order in which a sync would find them now.
Wanted(n) == FoundUpTo(n, Listings(n))[Len(Selectors[n])]

LEMMA ListingsType ==
  ASSUME Inv, NEW n \in Names
  PROVE  Listings(n) \in [Labels -> [Names -> Seq(Rules)]]
<1>1. ASSUME NEW label \in Labels, NEW k \in Names
      PROVE  RulesBySource(n, label)[k] \in Seq(Rules)
  BY DEF RulesBySource, Sources, Stored, Inv, Roles
<1>2. \A label \in Labels : RulesBySource(n, label) \in [Names -> Seq(Rules)]
  BY <1>1 DEF RulesBySource
<1> QED BY <1>2 DEF Listings

LEMMA FoundUpToOK ==
  ASSUME NEW n \in Names, NEW lists \in [Labels -> [Names -> Seq(Rules)]]
  PROVE  LET found == FoundUpTo(n, lists)
             N     == Len(Selectors[n])
         IN  /\ found[0] = <<>>
             /\ \A i \in 0..N : found[i] \in Seq(Rules)
             /\ \A i \in 1..N : found[i] = FoldLeft(AddRules, found[i - 1], lists[Selectors[n][i]])
<1> DEFINE N     == Len(Selectors[n])
           next(i, before) == FoldLeft(AddRules, before, lists[Selectors[n][i]])
           step  == [p \in (1..N) \X Seq(Rules) |-> next(p[1], p[2])]
           found == FoundUpTo(n, lists)
<1>1. N \in Nat /\ \A i \in 1..N : lists[Selectors[n][i]] \in [Names -> Seq(Rules)]
  BY SelectorsType
<1> HIDE DEF N
<1>2. step \in [(1..N) \X Seq(Rules) -> Seq(Rules)]
  BY <1>1, AddListsOK
<1>3. <<>> \in Seq(Rules)
  OBVIOUS
<1>4. PICK f \in [0..N -> Seq(Rules)] : Runs(f, N, <<>>, step)
  BY <1>1, <1>2, <1>3, Recursion
<1>5. f = [i \in 0..N |-> IF i = 0 THEN <<>> ELSE next(i, f[i - 1])]
  <2>1. ASSUME NEW i \in 0..N
        PROVE  f[i] = IF i = 0 THEN <<>> ELSE next(i, f[i - 1])
    <3>1. CASE i = 0
      BY <1>4, <3>1 DEF Runs
    <3>2. CASE i # 0
      <4>1. i \in 1..N /\ f[i - 1] \in Seq(Rules)
        BY <1>1, <3>2
      <4>2. step[<<i, f[i - 1]>>] = next(i, f[i - 1])
        BY <4>1
      <4> QED BY <1>4, <3>2, <4>1, <4>2 DEF Runs
    <3> QED BY <3>1, <3>2
  <2> QED BY <2>1
<1>6. found = [i \in 0..N |-> IF i = 0 THEN <<>> ELSE next(i, found[i - 1])]
  BY <1>5 DEF FoundUpTo, N
<1> HIDE DEF found
<1>7. found[0] = <<>>
  BY <1>1, <1>6
<1>8. ASSUME NEW i \in 1..N
       PROVE  found[i] = next(i, found[i - 1])
  <2>1. i \in 0..N /\ i # 0
    BY <1>1
  <2> QED BY <1>6, <2>1
<1> DEFINE S == {i \in Nat : i <= N => found[i] \in Seq(Rules)}
<1>9. 0 \in S
  BY <1>3, <1>7
<1>10. ASSUME NEW i \in Nat, i \in S
       PROVE  i + 1 \in S
  <2>1. ASSUME i + 1 <= N
        PROVE  found[i + 1] \in Seq(Rules)
    <3>1. found[i] \in Seq(Rules) /\ i + 1 \in 1..N /\ i + 1 - 1 = i
      BY <1>1, <1>10, <2>1
    <3>2. found[i + 1] = next(i + 1, found[i])
      BY <1>8, <3>1
    <3> QED BY <1>1, <3>1, <3>2, AddListsOK
  <2>2. i + 1 \in Nat
    OBVIOUS
  <2> QED BY <2>1, <2>2
<1> HIDE DEF S
<1>11. Nat \subseteq S
  BY <1>9, <1>10, Induction
<1>12. \A i \in 0..N : found[i] \in Seq(Rules)
  BY <1>1, <1>11 DEF S
<1> QED BY <1>7, <1>8, <1>12 DEF found, N

\* It has found what the selectors so far list, nothing else and nothing twice.
LEMMA FoundUpToRange ==
  ASSUME NEW n \in Names, NEW lists \in [Labels -> [Names -> Seq(Rules)]],
         NEW m \in 0..Len(Selectors[n])
  PROVE  LET found == FoundUpTo(n, lists)
         IN  /\ NoRepetition(found[m])
             /\ \A r : r \in Range(found[m]) <=>
                  \E j \in 1..m, k \in Names : r \in Range(lists[Selectors[n][j]][k])
<1> DEFINE N     == Len(Selectors[n])
           found == FoundUpTo(n, lists)
           list(j) == lists[Selectors[n][j]]
           Right(i) == /\ NoRepetition(found[i])
                       /\ \A r : r \in Range(found[i]) <=>
                            \E j \in 1..i, k \in Names : r \in Range(list(j)[k])
           S == {i \in Nat : i <= N => Right(i)}
<1>1. /\ found[0] = <<>> /\ \A i \in 0..N : found[i] \in Seq(Rules)
      /\ \A i \in 1..N : found[i] = FoldLeft(AddRules, found[i - 1], list(i))
  BY FoundUpToOK
<1>2. N \in Nat /\ \A j \in 1..N : list(j) \in [Names -> Seq(Rules)]
  BY SelectorsType
<1> HIDE DEF N, found, list
<1>3. 0 \in S
  <2>1. Range(<<>>) = {} /\ NoRepetition(<<>>)
    BY NoSyncOK DEF Range, SyncOK, NoSync
  <2> QED BY <1>1, <2>1
<1>4. ASSUME NEW i \in Nat, i \in S
      PROVE  i + 1 \in S
  <2>1. ASSUME i + 1 <= N
        PROVE  Right(i + 1)
    <3>1. /\ Right(i) /\ found[i] \in Seq(Rules) /\ i + 1 \in 1..N
          /\ found[i + 1] = FoldLeft(AddRules, found[i], list(i + 1))
          /\ list(i + 1) \in [Names -> Seq(Rules)]
      <4>1. i \in 0..N /\ i + 1 \in 1..N /\ i + 1 - 1 = i /\ i <= N
        BY <1>2, <2>1
      <4> QED BY <1>1, <1>2, <1>4, <4>1
    <3>2. /\ Range(found[i + 1])
               = Range(found[i]) \cup (UNION {Range(list(i + 1)[k]) : k \in Names})
          /\ NoRepetition(found[i]) => NoRepetition(found[i + 1])
      BY <3>1, AddListsOK
    <3>3. \A j : j \in 1..(i + 1) <=> j \in 1..i \/ j = i + 1
      OBVIOUS
    <3>4. \A r : r \in Range(found[i + 1]) <=>
            \E j \in 1..(i + 1), k \in Names : r \in Range(list(j)[k])
      <4> TAKE r
      <4>1. r \in Range(found[i]) <=> \E j \in 1..i, k \in Names : r \in Range(list(j)[k])
        BY <3>1
      <4>2. r \in Range(found[i + 1]) <=>
              r \in Range(found[i]) \/ \E k \in Names : r \in Range(list(i + 1)[k])
        BY <3>2
      <4> QED BY <3>3, <4>1, <4>2, Zenon
    <3> QED BY <3>1, <3>2, <3>4
  <2>2. i + 1 \in Nat
    OBVIOUS
  <2> QED BY <2>1, <2>2
<1> HIDE DEF S
<1>5. m \in S /\ m \in Nat /\ m <= N
  <2>1. Nat \subseteq S
    BY <1>3, <1>4, Induction
  <2> QED BY <1>2, <2>1 DEF N
<1>6. Right(m)
  BY <1>5 DEF S
<1> QED BY <1>6 DEF found, list

\* What a sync would find now is what the role is granted, each rule once.
LEMMA WantedIsGranted ==
  ASSUME Inv, NEW n \in Names
  PROVE  Range(Wanted(n)) = Granted(n) /\ NoRepetition(Wanted(n))
<1> DEFINE N == Len(Selectors[n])
           lists == Listings(n)
<1>1. N \in Nat /\ N \in 0..N /\ \A j \in 1..N : Selectors[n][j] \in Labels
  BY SelectorsType
<1>2. lists \in [Labels -> [Names -> Seq(Rules)]]
  BY ListingsType
<1>3. /\ NoRepetition(Wanted(n))
      /\ \A r : r \in Range(Wanted(n)) <=>
            \E j \in 1..N, k \in Names : r \in Range(lists[Selectors[n][j]][k])
  BY <1>1, <1>2, FoundUpToRange DEF Wanted
<1>4. Range(<<>>) = {}
  BY DEF Range
<1>5. \A j \in 1..N, k \in Names :
        Range(lists[Selectors[n][j]][k]) =
          IF k \in Stored \ {n} /\ Selectors[n][j] \in roles[k].labels
          THEN Range(roles[k].rules) ELSE {}
  BY <1>1, <1>4 DEF Listings, RulesBySource, Sources
<1>6. DOMAIN Selectors[n] = 1..N
  BY SelectorsType
<1>7. \A k \in Stored \ {n} : Range(Selectors[n]) \cap roles[k].labels # {} <=>
        \E j \in 1..N : Selectors[n][j] \in roles[k].labels
  BY <1>6 DEF Range
<1>8. Stored \subseteq Names
  BY DEF Stored
<1> HIDE DEF lists, N
<1>9. \A r : r \in Granted(n) <=>
        \E k \in Stored \ {n} :
          (\E j \in 1..N : Selectors[n][j] \in roles[k].labels) /\ r \in Range(roles[k].rules)
  BY <1>7 DEF Granted
<1>10. \A r : r \in Range(Wanted(n)) <=> r \in Granted(n)
  BY <1>3, <1>5, <1>8, <1>9
<1> QED BY <1>3, <1>10

\* No role but n changes.
OthersStay(n) == \A k \in Names \ {n} : roles'[k] = roles[k]

\* A sync has found what it would find if it started again now.
UpToDate(n) ==
  sync[n].phase # "idle" => sync[n].found = FoundUpTo(n, Listings(n))[sync[n].done]

\* Role n is stored with the rules a sync would find, in that order.
Settled(n) == roles[n] # Absent /\ roles[n].rules = Wanted(n)

LEMMA ListingsStay ==
  ASSUME NEW n \in Names, OthersStay(n)
  PROVE  Listings(n)' = Listings(n) /\ Wanted(n)' = Wanted(n)
<1>1. ASSUME NEW label
      PROVE  RulesBySource(n, label)' = RulesBySource(n, label)
  <2>1. Sources(n, label)' = Sources(n, label)
    BY DEF Sources, Stored, OthersStay
  <2>2. \A k \in Sources(n, label) : roles'[k] = roles[k]
    BY DEF Sources, Stored, OthersStay
  <2> QED BY <2>1, <2>2 DEF RulesBySource
<1>2. Listings(n)' = Listings(n)
  BY <1>1 DEF Listings
<1> QED BY <1>2 DEF Wanted, FoundUpTo

LEMMA UpToDateKept ==
  ASSUME Inv, NEW n \in Names, UpToDate(n), [Next]_vars, [OthersStay(n)]_vars
  PROVE  UpToDate(n)'
<1>1. Listings(n)' = Listings(n)
  <2>1. CASE UNCHANGED vars
    <3>1. OthersStay(n)
      BY <2>1 DEF vars, OthersStay
    <3> QED BY <3>1, ListingsStay
  <2> QED BY <2>1, ListingsStay
<1> DEFINE lists == Listings(n)
<1>2. lists \in [Labels -> [Names -> Seq(Rules)]] /\ lists' = lists
  BY <1>1, ListingsType
<1> HIDE DEF lists
<1>3. SUFFICES ASSUME sync'[n].phase # "idle"
               PROVE  sync'[n].found = FoundUpTo(n, lists)[sync'[n].done]
  BY <1>2 DEF UpToDate, lists
<1>4. CASE sync'[n] = sync[n]
  BY <1>3, <1>4 DEF UpToDate, lists
<1>5. CASE sync'[n] # sync[n]
  <2>1. PICK m \in Names : ReadRole(m) \/ Step(m) \/ Users(m)
    BY <1>5 DEF Next, vars
  <2>2. m = n /\ ~Users(m)
    BY <1>5, <2>1, UsersKept DEF ReadRole, Step, ListRoles, UpdateRole, Finish, Inv
  <2>3. CASE ReadRole(n)
    <3>1. sync'[n] = [NoSync EXCEPT !.phase = "list", !.copy = roles[n]]
      BY <2>3 DEF ReadRole, Inv
    <3>2. sync'[n].done = 0 /\ sync'[n].found = <<>>
      BY <3>1 DEF NoSync
    <3> QED BY <1>2, <3>2, FoundUpToOK
  <2>4. CASE ListRoles(n)
    <3> DEFINE i == sync[n].done + 1
               F == FoundUpTo(n, lists)
    <3>1. sync[n].phase = "list" /\ sync'[n] = Listed(n)
      BY <2>4, ListKept DEF ListRoles, Inv
    <3>2. sync[n] \in Syncs /\ sync[n].done \in Nat /\ sync[n].done < Len(Selectors[n])
      BY <3>1 DEF Inv, SyncOK, Syncs
    <3>3. i \in 1..Len(Selectors[n]) /\ i - 1 = sync[n].done
      BY <3>2, SelectorsType
    <3>4. Selectors[n][i] \in Labels
      BY <3>3, SelectorsType
    <3>5. sync[n].found = F[i - 1]
      BY <3>1, <3>3 DEF UpToDate, lists
    <3>6. F[i] = FoldLeft(AddRules, F[i - 1], lists[Selectors[n][i]])
      BY <1>2, <3>3, FoundUpToOK
    <3>7. lists[Selectors[n][i]] = RulesBySource(n, Selectors[n][i])
      BY <3>4 DEF lists, Listings
    <3> HIDE DEF F
    <3>8. Collect(n, Selectors[n][i], sync[n].found) = F[i]
      BY <3>5, <3>6, <3>7 DEF Collect
    <3>9. sync'[n].done = i /\ sync'[n].found = Collect(n, Selectors[n][i], sync[n].found)
      BY <1>3, <3>1, <3>2 DEF Listed, NoSync, Syncs
    <3> QED BY <3>8, <3>9 DEF F
  <2>5. CASE UpdateRole(n)
    BY <1>3, <2>5, UpdateWrites DEF NoSync, Inv
  <2> QED BY <2>1, <2>2, <2>3, <2>4, <2>5 DEF Step
<1> QED BY <1>4, <1>5

\* A sync that is up to date when it comes to write has found just what its role is
\* granted.
LEMMA UpToDateUpdate ==
  ASSUME Inv, NEW n \in Names, UpToDate(n), sync[n].phase = "update"
  PROVE  /\ sync[n].found = Wanted(n)
         /\ Range(sync[n].found) = Granted(n)
         /\ NoRepetition(sync[n].found)
<1>1. sync[n].done = Len(Selectors[n])
  BY DEF Inv, SyncOK
<1> QED BY <1>1, WantedIsGranted DEF UpToDate, Wanted

\* What it writes settles the role.
LEMMA UpToDateSettles ==
  ASSUME Inv, NEW n \in Names, UpToDate(n), UpdateRole(n), roles' # roles
  PROVE  Settled(n)'
<1>1. /\ sync[n].phase = "update" /\ roles[n] \in Roles
      /\ roles' = [roles EXCEPT ![n] = [roles[n] EXCEPT !.rules = sync[n].found]]
  BY UpdateWrites
<1>2. OthersStay(n)
  BY <1>1 DEF OthersStay, Inv
<1>3. Wanted(n)' = Wanted(n) /\ sync[n].found = Wanted(n)
  BY <1>1, <1>2, ListingsStay, UpToDateUpdate
<1>4. roles'[n] \in Roles /\ roles'[n].rules = sync[n].found
  <2>1. sync[n].found \in Seq(Rules)
    BY DEF Inv, Syncs
  <2> QED BY <1>1, <2>1 DEF Roles, Inv
<1>5. roles'[n] # Absent
  BY <1>4, TokenAssumption DEF Roles
<1> QED BY <1>3, <1>4, <1>5 DEF Settled

\* Each selector is evaluated by a list of its own, at a moment of its own.  If the
\* other roles stay as they are from the start of a sync, what it comes to write is
\* all the same exactly what its role is granted, without repetition and in an order
\* that the stored roles alone determine; and that is what the write leaves stored.
THEOREM QuietSyncIsExact ==
  ASSUME NEW n \in Names
  PROVE  Spec =>
    [](sync[n].phase = "idle" /\ [][OthersStay(n)]_vars =>
         /\ [](sync[n].phase = "update" =>
                 /\ sync[n].found = Wanted(n)
                 /\ Range(sync[n].found) = Granted(n)
                 /\ NoRepetition(sync[n].found))
         /\ [][UpdateRole(n) /\ roles' # roles => Settled(n)']_vars)
<1>1. sync[n].phase = "idle" => UpToDate(n)
  BY DEF UpToDate
<1>2. Inv /\ UpToDate(n) /\ [Next]_vars /\ [OthersStay(n)]_vars => UpToDate(n)'
  BY UpToDateKept
<1>3. Inv /\ UpToDate(n) =>
        (sync[n].phase = "update" =>
          /\ sync[n].found = Wanted(n)
          /\ Range(sync[n].found) = Granted(n)
          /\ NoRepetition(sync[n].found))
  BY UpToDateUpdate
<1>4. Inv /\ UpToDate(n) => [UpdateRole(n) /\ roles' # roles => Settled(n)']_vars
  BY UpToDateSettles
<1> QED BY <1>1, <1>2, <1>3, <1>4, Invariant, PTL DEF Spec

\* A settled role whose sync is at rest, or at work on what is stored.
AtRest(n) ==
  /\ Settled(n)
  /\ UpToDate(n)
  /\ sync[n].phase # "update"
  /\ sync[n].phase = "list" => sync[n].copy = roles[n]

LEMMA AtRestKept ==
  ASSUME Inv, NEW n \in Names, AtRest(n), [Next]_vars, [OthersStay(n) /\ ~Users(n)]_vars
  PROVE  AtRest(n)'
<1>1. [OthersStay(n)]_vars
  OBVIOUS
<1>2. UpToDate(n)'
  BY <1>1, UpToDateKept DEF AtRest
<1>3. CASE UNCHANGED vars
  BY <1>3 DEF vars, AtRest, Settled, UpToDate, Wanted, Listings, RulesBySource, Sources, Stored
<1>4. CASE ~UNCHANGED vars
  <2>1. PICK m \in Names : ReadRole(m) \/ Step(m) \/ Users(m)
    BY <1>4 DEF Next
  <2>2. OthersStay(n) /\ ~Users(n)
    BY <1>4
  <2>3. roles'[n] = roles[n]
    BY <2>1, <2>2 DEF AtRest, ReadRole, Step, ListRoles, UpdateRole, Users, CreateRole,
                      DeleteRole, EditRules, EditLabels, Inv
  <2>4. Settled(n)'
    BY <2>2, <2>3, ListingsStay DEF AtRest, Settled
  <2>5. /\ sync'[n].phase # "update"
        /\ sync'[n].phase = "list" => sync'[n].copy = roles[n]
    <3>1. CASE sync'[n] = sync[n]
      BY <3>1 DEF AtRest
    <3>2. CASE sync'[n] # sync[n]
      <4>1. ReadRole(n) \/ ListRoles(n)
        BY <2>1, <3>2, UsersKept
           DEF AtRest, ReadRole, Step, ListRoles, UpdateRole, Finish, Inv
      <4>2. CASE ReadRole(n)
        <5>1. sync'[n] = [NoSync EXCEPT !.phase = "list", !.copy = roles[n]]
          BY <4>2 DEF ReadRole, Inv
        <5> QED BY <5>1 DEF NoSync
      <4>3. CASE ListRoles(n)
        <5>1. sync[n].phase = "list" /\ sync'[n] = Listed(n) /\ sync[n] \in Syncs
          BY <4>3, ListKept DEF ListRoles, Inv
        <5>2. sync[n].copy = roles[n] /\ roles[n].rules = Wanted(n)
          BY <5>1 DEF AtRest, Settled
        <5>3. ASSUME sync'[n].phase = "update"
              PROVE  FALSE
          <6>1. SyncOK(n, sync'[n]) /\ Inv'
            BY <4>3, ListKept DEF Inv
          <6>2. sync'[n].found = Wanted(n)
            BY <2>2, <5>3, <6>1, <1>2, ListingsStay DEF SyncOK, UpToDate, Wanted
          <6>3. sync'[n].copy = sync[n].copy
            BY <5>1, <5>3 DEF Listed, Syncs, NoSync
          <6> QED BY <5>2, <5>3, <6>1, <6>2, <6>3 DEF SyncOK
        <5>4. sync'[n].phase = "list" => sync'[n].copy = sync[n].copy
          BY <5>1 DEF Listed, Syncs, NoSync
        <5> QED BY <5>2, <5>3, <5>4
      <4> QED BY <4>1, <4>2, <4>3
    <3> QED BY <3>1, <3>2
  <2> QED BY <1>2, <2>3, <2>4, <2>5 DEF AtRest
<1> QED BY <1>3, <1>4

\* Rules are compared in their order, so syncs could answer each other for ever.  They
\* do not: a role that is stored with what its sync would find stays so, and its syncs
\* come to no further write, until a user or the sync of another role changes something.
THEOREM SettledStays ==
  ASSUME NEW n \in Names
  PROVE  Spec =>
    [](sync[n].phase = "idle" /\ Settled(n) /\ [][OthersStay(n) /\ ~Users(n)]_vars =>
         [](Settled(n) /\ sync[n].phase # "update"))
<1>1. sync[n].phase = "idle" /\ Settled(n) => AtRest(n)
  BY DEF AtRest, UpToDate
<1>2. Inv /\ AtRest(n) /\ [Next]_vars /\ [OthersStay(n) /\ ~Users(n)]_vars => AtRest(n)'
  BY AtRestKept
<1>3. AtRest(n) => Settled(n) /\ sync[n].phase # "update"
  BY DEF AtRest
<1> QED BY <1>1, <1>2, <1>3, Invariant, PTL DEF Spec

\* All roles at once: settled with no sync under way, and at rest.
AllSettled ==
  \A n \in Names : sync[n].phase = "idle" /\ (n \in Aggregating \cap Stored => Settled(n))

AllAtRest ==
  \A n \in Names : IF n \in Aggregating \cap Stored THEN AtRest(n) ELSE sync[n].phase = "idle"

LEMMA AllAtRestKept ==
  ASSUME Inv, AllAtRest, [Next]_vars, [\A n \in Names : ~Users(n)]_vars
  PROVE  AllAtRest'
<1>1. CASE UNCHANGED vars
  BY <1>1 DEF vars, AllAtRest, AtRest, Settled, UpToDate, Wanted, Listings, RulesBySource,
              Sources, Stored
<1>2. CASE ~UNCHANGED vars
  <2>1. PICK m \in Names : ReadRole(m) \/ Step(m)
    BY <1>2 DEF Next
  <2>2. sync[m].phase # "update"
    BY DEF AllAtRest, AtRest
  <2>3. ReadRole(m) \/ ListRoles(m)
    BY <2>1, <2>2 DEF Step, UpdateRole
  <2>4. roles' = roles
    BY <2>3 DEF ReadRole, ListRoles
  <2>5. m \in Aggregating \cap Stored
    BY <2>3 DEF AllAtRest, ReadRole, ListRoles, Stored
  <2>6. Stored' = Stored
    BY <2>4 DEF Stored
  <2>7. ASSUME NEW n \in Aggregating \cap Stored
        PROVE  AtRest(n)'
    <3>1. n \in Names /\ AtRest(n)
      BY DEF AllAtRest, Aggregating
    <3>2. OthersStay(n) /\ ~Users(n)
      BY <1>2, <2>4, <3>1 DEF OthersStay
    <3> QED BY <3>1, <3>2, AtRestKept
  <2>8. ASSUME NEW n \in Names, n \notin Aggregating \cap Stored
        PROVE  sync'[n].phase = "idle"
    <3>1. sync'[n] = sync[n]
      BY <2>3, <2>5, <2>8 DEF ReadRole, ListRoles, Inv
    <3> QED BY <2>8, <3>1 DEF AllAtRest
  <2> QED BY <2>6, <2>7, <2>8 DEF AllAtRest
<1> QED BY <1>1, <1>2

\* The roles as a whole, those that select each other included: once every aggregating
\* role is settled and no sync is under way, what Converges promises holds and goes on
\* to hold until a user acts; no sync undoes what another one wrote.
THEOREM ConvergedStays ==
  Spec =>
    [](AllSettled /\ [][\A n \in Names : ~Users(n)]_vars => []Converged)
<1>1. AllSettled => AllAtRest
  BY DEF AllSettled, AllAtRest, AtRest, UpToDate
<1>2. Inv /\ AllAtRest /\ [Next]_vars /\ [\A n \in Names : ~Users(n)]_vars => AllAtRest'
  BY AllAtRestKept
<1>3. Inv /\ AllAtRest => Converged
  <2> SUFFICES ASSUME Inv, AllAtRest, NEW n \in Aggregating \cap Stored
               PROVE  /\ Range(roles[n].rules) = Granted(n)
                      /\ NoRepetition(roles[n].rules)
                      /\ sync[n].phase # "update"
    BY DEF Converged
  <2>1. n \in Names /\ AtRest(n)
    BY DEF AllAtRest, Aggregating
  <2> QED BY <2>1, WantedIsGranted DEF AtRest, Settled
<1> QED BY <1>1, <1>2, <1>3, Invariant, PTL DEF Spec
=============================================================================
