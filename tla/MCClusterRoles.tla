---------------------------- MODULE MCClusterRoles ----------------------------
(* Small instances of ClusterRoleAggregation for TLC. *)
EXTENDS ClusterRoleAggregation

CONSTANTS view, edit, r1, r2

\* Role 1 is plain and may carry both labels; role 2 aggregates what is labelled for
\* viewing; role 3 aggregates both labels, and so takes rules from role 1 directly and
\* through role 2.  Role 3 may carry a label that it selects itself.
SelectorsOf == [n \in 1..3 |-> CASE n = 1 -> <<>> [] n = 2 -> <<view>> [] n = 3 -> <<edit, view>>]

LabelsOf == [n \in 1..3 |-> CASE n = 1 -> {view, edit} [] n = 2 -> {edit} [] n = 3 -> {edit}]

RuleListsOf == {<<>>, <<r1>>, <<r2, r1>>}
=============================================================================
