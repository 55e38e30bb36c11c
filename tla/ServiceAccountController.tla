----------------------- MODULE ServiceAccountController -----------------------
(***************************************************************************)
(* The simplified ServiceAccount controller (controllers/serviceaccount):  *)
(* a sync of a namespace that looks up the accounts every namespace should *)
(* have, one after the other, and creates what is missing, while users     *)
(* create and delete namespaces and accounts, and the namespace controller *)
(* empties the namespaces that are being deleted.                          *)
(*                                                                         *)
(* The API model admits an account whatever the state of its namespace, so *)
(* a create that follows an outdated read of the namespace succeeds too.   *)
(***************************************************************************)
EXTENDS Integers, SequencesExt

CONSTANTS
  Namespaces,       \* names of namespaces
  Ensured,          \* serviceAccountsToEnsure: the list of accounts
  MaxDisturbances   \* bound: steps taken by users and failures of requests

ASSUME EnsuredAssumption == Ensured \in Seq(Range(Ensured))
ASSUME BoundAssumption == MaxDisturbances \in Nat

Accounts == Range(Ensured)

\* A sync: the place in the list of the account it is at.
Syncs == [phase : {"idle", "get", "create"}, at : 0..Len(Ensured)]

VARIABLES
  namespaces,  \* status.phase of each namespace, or "Absent"
  accounts,    \* the ServiceAccounts stored in each namespace
  sync,        \* the sync of each namespace
  left         \* disturbances that may still happen

vars == <<namespaces, accounts, sync, left>>

NoSync == [phase |-> "idle", at |-> 0]

\* A sync never runs past the list.
TypeOK ==
  /\ namespaces \in [Namespaces -> {"Absent", "Active", "Terminating"}]
  /\ accounts \in [Namespaces -> SUBSET Accounts]
  /\ sync \in [Namespaces -> Syncs]
  /\ left \in 0..MaxDisturbances

Init ==
  /\ namespaces = [n \in Namespaces |-> "Absent"]
  /\ accounts = [n \in Namespaces |-> {}]
  /\ sync = [n \in Namespaces |-> NoSync]
  /\ left = MaxDisturbances

\* Another step of a user, or another refused request.
Disturb == left > 0 /\ left' = left - 1

-----------------------------------------------------------------------------
(* A sync, call by call. *)

\* Fault: an account that is found ends the sync.
GoOnFault(s) == NoSync

\* The next account of the list, or the end of it.
GoOn(s) == IF s.at < Len(Ensured) THEN [phase |-> "get", at |-> s.at + 1] ELSE NoSync

\* Fault: any namespace that exists gets its accounts.
NeedsSyncFault(n) == namespaces[n] # "Absent"

NeedsSync(n) == namespaces[n] = "Active"

\* A namespace that is not there or not active needs no sync.
ReadNamespace(n) ==
  /\ sync[n].phase = "idle"
  /\ NeedsSync(n)
  /\ sync' = [sync EXCEPT ![n] = GoOn(NoSync)]
  /\ UNCHANGED <<namespaces, accounts, left>>

\* The sync goes on to a create if the account is not found.
GetAccount(n) ==
  /\ sync[n].phase = "get"
  /\ sync' = [sync EXCEPT ![n] =
       IF Ensured[sync[n].at] \in accounts[n] THEN GoOn(@) ELSE [@ EXCEPT !.phase = "create"]]
  /\ UNCHANGED <<namespaces, accounts, left>>

\* AlreadyExists is as good as a success; the first other error ends the sync.
CreateAccount(n) ==
  /\ sync[n].phase = "create"
  /\ \/ /\ accounts' = [accounts EXCEPT ![n] = @ \cup {Ensured[sync[n].at]}]
        /\ sync' = [sync EXCEPT ![n] = GoOn(@)]
        /\ UNCHANGED left
     \/ /\ Disturb
        /\ sync' = [sync EXCEPT ![n] = NoSync]
        /\ UNCHANGED accounts
  /\ UNCHANGED namespaces

Step(n) == GetAccount(n) \/ CreateAccount(n)

-----------------------------------------------------------------------------
(* Users. *)

CreateNamespace(n) ==
  /\ Disturb
  /\ namespaces[n] = "Absent"
  /\ namespaces' = [namespaces EXCEPT ![n] = "Active"]
  /\ UNCHANGED <<accounts, sync>>

DeleteNamespace(n) ==
  /\ Disturb
  /\ namespaces[n] = "Active"
  /\ namespaces' = [namespaces EXCEPT ![n] = "Terminating"]
  /\ UNCHANGED <<accounts, sync>>

UserCreatesAccount(n, a) ==
  /\ Disturb
  /\ a \notin accounts[n]
  /\ accounts' = [accounts EXCEPT ![n] = @ \cup {a}]
  /\ UNCHANGED <<namespaces, sync>>

UserDeletesAccount(n, a) ==
  /\ Disturb
  /\ a \in accounts[n]
  /\ accounts' = [accounts EXCEPT ![n] = @ \ {a}]
  /\ UNCHANGED <<namespaces, sync>>

Users(n) ==
  \/ CreateNamespace(n)
  \/ DeleteNamespace(n)
  \/ \E a \in Accounts : UserCreatesAccount(n, a) \/ UserDeletesAccount(n, a)

-----------------------------------------------------------------------------
(* The namespace controller. *)

DeleteContent(n, a) ==
  /\ namespaces[n] = "Terminating"
  /\ a \in accounts[n]
  /\ accounts' = [accounts EXCEPT ![n] = @ \ {a}]
  /\ UNCHANGED <<namespaces, sync, left>>

\* A namespace goes when it has been found empty.
FinishNamespace(n) ==
  /\ namespaces[n] = "Terminating"
  /\ accounts[n] = {}
  /\ namespaces' = [namespaces EXCEPT ![n] = "Absent"]
  /\ UNCHANGED <<accounts, sync, left>>

Next ==
  \E n \in Namespaces :
    \/ ReadNamespace(n) \/ Step(n)
    \/ Users(n)
    \/ FinishNamespace(n)
    \/ \E a \in Accounts : DeleteContent(n, a)

Spec == Init /\ [][Next]_vars

\* Every namespace is synced again and again, a sync that runs goes on, and the
\* namespace controller does its work.
FairSpec ==
  /\ Spec
  /\ \A n \in Namespaces :
       /\ WF_vars(ReadNamespace(n))
       /\ WF_vars(Step(n))
       /\ WF_vars(FinishNamespace(n))
       /\ \A a \in Accounts : WF_vars(DeleteContent(n, a))

-----------------------------------------------------------------------------
(* Properties. *)

\* Once users and failures stop, every active namespace has every account and keeps
\* it: those after a refused create too, and those that were deleted after the sync
\* had looked at them.
AccountsArrive ==
  <>[]\A n \in Namespaces : namespaces[n] = "Active" => accounts[n] = Accounts

\* Although a sync may put accounts into a namespace that was deleted since the sync
\* read it, the namespace controller gets every namespace empty and gone.
NamespacesGo == <>[]\A n \in Namespaces : namespaces[n] # "Terminating"
=============================================================================
