------------------------ MODULE ClusterRoleAggregation ------------------------
(***************************************************************************)
(* The simplified ClusterRole aggregation controller                       *)
(* (controllers/clusterroleaggregation).  A sync of an aggregating role    *)
(* lists, one selector after the other, the roles with a label, collects   *)
(* their rules without repetition, and overwrites the role's own rules if  *)
(* they differ.  Roles that aggregate may be aggregated in turn, and users *)
(* edit all of them meanwhile.                                             *)
(*                                                                         *)
(* The work queue runs one sync per key at a time and different keys side  *)
(* by side, so there is a sync per role.  Resource versions are left out:  *)
(* an Update succeeds when its copy is what is stored.                     *)
(***************************************************************************)
EXTENDS Integers, FiniteSets, SequencesExt

CONSTANTS
  RoleCount,        \* roles are named 1..RoleCount, in the order of their names
  Labels,           \* labels that aggregation rules select by
  Selectors,        \* clusterRoleSelectors of each role: a label each
  MayCarry,         \* the labels that users give each role
  Rules,            \* policy rules
  RuleLists,        \* lists of rules that users write
  MaxDisturbances,  \* bound: steps taken by users and failures of requests
  Absent

Names == 1..RoleCount

ASSUME NameAssumption == RoleCount \in Nat
ASSUME SelectorAssumption == Selectors \in [Names -> Seq(Labels)]
ASSUME CarryAssumption == MayCarry \in [Names -> SUBSET Labels]
ASSUME RuleAssumption == RuleLists \subseteq Seq(Rules)
ASSUME BoundAssumption == MaxDisturbances \in Nat

\* Roles that have an aggregation rule.
Aggregating == {n \in Names : Selectors[n] # <<>>}

NoRepetition(s) == Cardinality(Range(s)) = Len(s)

Roles == [labels : SUBSET Labels, rules : Seq(Rules)]

ASSUME TokenAssumption == Absent \notin [labels : SUBSET Labels, rules : Seq(Rules)]

\* A sync: its copy of the role, the selectors it has evaluated, the rules it found.
Syncs ==
  [phase : {"idle", "list", "update"}, copy : Roles \cup {Absent}, done : Nat,
   found : Seq(Rules)]

VARIABLES
  roles,  \* the role stored under each name, or Absent
  sync,   \* the sync of each role
  left    \* disturbances that may still happen

vars == <<roles, sync, left>>

\* What a sync has found repeats no rule.
TypeOK ==
  /\ roles \in [Names -> Roles \cup {Absent}]
  /\ sync \in [Names -> Syncs]
  /\ \A n \in Names : NoRepetition(sync[n].found) /\ sync[n].done <= Len(Selectors[n])
  /\ left \in 0..MaxDisturbances

NoSync == [phase |-> "idle", copy |-> Absent, done |-> 0, found |-> <<>>]

UserRoles(n) == [labels : SUBSET MayCarry[n], rules : RuleLists]

\* The controller starts with the roles that are there.
Init ==
  /\ roles \in [Names -> UNION {UserRoles(n) : n \in Names} \cup {Absent}]
  /\ \A n \in Names : roles[n] \in UserRoles(n) \cup {Absent}
  /\ sync = [n \in Names |-> NoSync]
  /\ left = MaxDisturbances

\* Another step of a user, or another refused request.
Disturb == left > 0 /\ left' = left - 1

Finish(n) == sync' = [sync EXCEPT ![n] = NoSync]

-----------------------------------------------------------------------------
(* A sync. *)

Stored == {n \in Names : roles[n] # Absent}

\* Fault: the aggregating role's own rules count too.
SourcesFault(n, label) == {k \in Stored : label \in roles[k].labels}

\* The roles that a selector of role n adds: never n itself.
Sources(n, label) == {k \in Stored \ {n} : label \in roles[k].labels}

\* Fault: rules are not compared.
AddRuleFault(found, rule) == Append(found, rule)

\* ruleExists.
AddRule(found, rule) == IF rule \in Range(found) THEN found ELSE Append(found, rule)

AddRules(found, rules) == FoldLeft(AddRule, found, rules)

\* The rules that a selector of role n adds, by the name of the role they come from.
RulesBySource(n, label) ==
  [k \in Names |-> IF k \in Sources(n, label) THEN roles[k].rules ELSE <<>>]

\* One selector's part of syncClusterRole: role by role in the order of their names.
Collect(n, label, found) == FoldLeft(AddRules, found, RulesBySource(n, label))

\* A role that is gone or has no aggregation rule needs no sync.
ReadRole(n) ==
  /\ n \in Aggregating
  /\ sync[n].phase = "idle"
  /\ roles[n] # Absent
  /\ sync' = [sync EXCEPT ![n] = [NoSync EXCEPT !.phase = "list", !.copy = roles[n]]]
  /\ UNCHANGED <<roles, left>>

\* Each selector has a list of its own.  After the last, equal rules end the sync.
ListRoles(n) ==
  /\ sync[n].phase = "list"
  /\ LET s     == sync[n]
         i     == s.done + 1
         found == Collect(n, Selectors[n][i], s.found)
         next  == [s EXCEPT !.done = i, !.found = found]
     IN  sync' = [sync EXCEPT ![n] =
           IF i < Len(Selectors[n]) THEN next
           ELSE IF found = s.copy.rules THEN NoSync
           ELSE [next EXCEPT !.phase = "update"]]
  /\ UNCHANGED <<roles, left>>

\* Fault: no version is a conflict, as for a client that retries.
UpdateConflictFault(n) == FALSE

\* The stored role is no longer the version that was read.
UpdateConflict(n) == roles[n] # sync[n].copy

\* The copy with the new rules; any error ends the sync.
UpdateRole(n) ==
  /\ sync[n].phase = "update"
  /\ \/ /\ roles[n] # Absent
        /\ ~UpdateConflict(n)
        /\ roles' = [roles EXCEPT ![n] = [sync[n].copy EXCEPT !.rules = sync[n].found]]
        /\ UNCHANGED left
     \/ /\ roles[n] = Absent \/ UpdateConflict(n)
        /\ UNCHANGED <<roles, left>>
     \/ Disturb /\ UNCHANGED roles
  /\ Finish(n)

Step(n) == ListRoles(n) \/ UpdateRole(n)

-----------------------------------------------------------------------------
(* Users. *)

CreateRole(n) ==
  /\ Disturb
  /\ roles[n] = Absent
  /\ \E role \in UserRoles(n) : roles' = [roles EXCEPT ![n] = role]
  /\ UNCHANGED sync

DeleteRole(n) ==
  /\ Disturb
  /\ roles[n] # Absent
  /\ roles' = [roles EXCEPT ![n] = Absent]
  /\ UNCHANGED sync

\* Other rules, also for a role whose rules are aggregated.
EditRules(n) ==
  /\ Disturb
  /\ roles[n] # Absent
  /\ \E rules \in RuleLists \ {roles[n].rules} : roles' = [roles EXCEPT ![n].rules = rules]
  /\ UNCHANGED sync

EditLabels(n) ==
  /\ Disturb
  /\ roles[n] # Absent
  /\ \E labels \in (SUBSET MayCarry[n]) \ {roles[n].labels} :
       roles' = [roles EXCEPT ![n].labels = labels]
  /\ UNCHANGED sync

Users(n) == CreateRole(n) \/ DeleteRole(n) \/ EditRules(n) \/ EditLabels(n)

Next == \E n \in Names : ReadRole(n) \/ Step(n) \/ Users(n)

Spec == Init /\ [][Next]_vars

\* Every role is synced again and again, and a sync that runs goes on.
FairSpec ==
  /\ Spec
  /\ \A n \in Names : WF_vars(ReadRole(n)) /\ WF_vars(Step(n))

-----------------------------------------------------------------------------
(* Properties. *)

\* The update sends the whole role as it was read: labels that a user gave or took
\* since, by which other roles select it, are not reverted, and it brings no role
\* back that was deleted.
LabelsSpared ==
  [][\A n \in Names :
       sync[n].phase = "update" /\ sync'[n] # sync[n] /\ roles'[n] # roles[n] =>
         roles[n] # Absent /\ roles'[n].labels = roles[n].labels]_vars

\* The rules that role n should have, whatever their order.
Granted(n) ==
  UNION {Range(roles[k].rules) :
           k \in {j \in Stored \ {n} : Range(Selectors[n]) \cap roles[j].labels # {}}}

\* Every aggregating role has what it should have and is not about to be written.
Converged ==
  \A n \in Aggregating \cap Stored :
    /\ Range(roles[n].rules) = Granted(n)
    /\ NoRepetition(roles[n].rules)
    /\ sync[n].phase # "update"

\* Once users and failures stop, every aggregating role comes to have exactly the
\* rules of the roles it selects and is not written again: what was granted arrives
\* and what was revoked goes, through chains of aggregating roles, and although the
\* lists of one sync show different moments.  (Roles that select each other would
\* keep a revoked rule alive between them; the instance has no such cycle.)
Converges == <>[]Converged
=============================================================================
