# kubernetes-verification in TLA+

This directory specifies the Go code of the repository in TLA+: the in-memory
Kubernetes API model, the simplified controllers that run against it, and the
small IAM model. The repository proves its controllers in Rocq one sync at a time
(`src/src/proof`), under exclusive ownership of what a sync touches. The
specifications here look at what happens between the API calls of a sync: other
syncs, users, the kubelet and failing requests take steps there.

`PROJECT.json` lists, for each definition, the source lines it models, and for
each hazard of the code the properties that cover it.

## Inventory

| component | source | state | operations | interacts through |
|---|---|---|---|---|
| API model | `kubernetes_model/apimodel/api_model.go`, `patch.go` | the object map, UIDs and resource versions ever generated, one mutex | create, update, updateStatus, patch, delete, get, list, index, for nine kinds | called by everything below |
| transactions | `kubernetes_model/apimodel/transaction.go` | none of its own | deleteTx, updateTx, updateStatusTx: read the live version, write against it, retry on Conflict | take the API model's mutex twice per attempt |
| ReplicaSet controller | `controllers/replicaset`, `controllers/common` | none between syncs; a sync holds a copy of the set, a list of pods and a status | syncReplicaSet: slow-start creation, deletion, status with one retry | lists and writes through the API model; goroutines for each create and delete |
| StatefulSet controller | `controllers/statefulset` | none between syncs | syncStatefulSet: release of misnamed pods, ordered creation with claims, one deletion or replacement a sync | the API model |
| Deployment controller | `controllers/deployment` | none between syncs | syncDeployment: find or create the new ReplicaSet, scale it up, scale the old ones to 0 | the API model; its writes are input of the ReplicaSet controller |
| ClusterRole aggregation | `controllers/clusterroleaggregation` | none between syncs | syncClusterRole: collect the rules of selected roles, update when different | the API model; its output is its own input when roles aggregate each other |
| ServiceAccount controller | `controllers/serviceaccount` | none between syncs | syncNamespace: create missing accounts in active namespaces | the API model |
| IAM model | `iam_model/state.go` | identities with attached policies, policies, used policy IDs, one mutex | create identity or policy, attach, detach, snapshot | called by the reconciler |
| IAM reconciler | `iam_model/example` | a snapshot and a plan during a run | ReconcileIdentityAccess | many API calls, each under the mutex, none across |
| trusted client and listers | `src/src/trusted_code` | none | bind client-go and the listers to the API model for the proofs | reads are reads of the map; Update and UpdateStatus are the transactions |
| Rocq development, comparison tests, generators, scripts | `src/src`, `apimodel/pbtesting`, `scripts` | - | - | not part of the running system |

What is hard, and so what the properties are about:

- **A call works on an old copy.** Between a client's read and its write the object
  may be changed, start terminating, disappear, or be replaced by another one under
  the same name. UIDs, versions and preconditions exist for this.
- **A transaction is not atomic.** Others write between its read and its write, and
  it goes round again.
- **A sync is many calls.** Pods come and go between its list and its deletes,
  the spec changes before its status is written, any call may fail, and several
  create calls run at once.
- **Deletion is a protocol**, over grace periods, finalizers and repeated
  requests, and every write path has to notice when its last condition is met.
- **Convergence.** The controllers promise an end, if left alone; old lists, partial
  failures and other callers are what could prevent it.

## Modules

| module | models | run as |
|---|---|---|
| `ObjectLifecycle` | abstract: what the API model promises about the life of an object | refined by `ApiServer` |
| `ApiServer` | the API model and its transactions | `MCApiServer` |
| `ApiServerProofs` | theorems about `ApiServer` | tlapm |
| `ReplicaSetController` | syncs of one ReplicaSet, and their environment | `MCReplicaSet` |
| `ReplicaSetProofs` | theorems about `ReplicaSetController` | tlapm |
| `StatefulSetController` | syncs of one StatefulSet, its pods and claims, and their environment | `MCStatefulSet` |
| `StatefulSetProofs` | theorems about `StatefulSetController` | tlapm |
| `StatefulSetOrderProofs` | theorems on a StatefulSet with one sync at a time: pods down, progress, stability | tlapm |
| `DeploymentController` | syncs of one Deployment, its ReplicaSets, and their environment | `MCDeployment` |
| `DeploymentProofs` | theorems about `DeploymentController` | tlapm |
| `ClusterRoleAggregation` | a sync of every aggregating role, and users | `MCClusterRoles` |
| `ClusterRoleProofs` | theorems about `ClusterRoleAggregation` | tlapm |
| `ServiceAccountController` | a sync of every namespace, users and the namespace controller | `MCServiceAccounts` |
| `ServiceAccountProofs` | theorems about `ServiceAccountController` | tlapm |
| `IamModel` | the IAM store | - |
| `IamReconcile` | callers of ReconcileIdentityAccess over `IamModel`, and users | `MCIam` |
| `IamProofs` | theorems about `IamReconcile` | tlapm |

Operators named `...Fault` are plausible bugs of the definition that follows them.
No specification uses them; `PROJECT.json` pairs each with the property that must
fail once it takes the definition's place.

### ApiServer

`m` is the object map, `usedUID` and `usedRV` the two sets of `State`, `tx` the
call each client has in progress. A call that holds the mutex throughout is one
action (`Create`, `Delete`, `Patch`, `WriteUpdate`, `WriteDelete`); a transaction's
attempt is two, `ReadFor...` and `Write...`, and `Retry` starts the next attempt
with the caller's object, as the loop does. `BeginUpdate` and `BeginDelete` are the
client's read and its choice of a change; the copy stays in `tx[c].copy`, and any
number of steps may pass until the write.

An object keeps what the properties tell apart: UID, version, generation, spec,
status, finalizers, the deletion mark and the grace period. Labels and owner
references behave as finalizers do in a write and have no field. Conversion,
defaulting, admission and field validation are upstream's: they show as the choice
to refuse a request (`Fail`, and a `Create` that only uses up a UID). The two rules
of update validation that matter to the protocol are explicit in `ValidUpdate`.
`EffectiveGrace` is checkGracefulDelete with its four outcomes; a pod that is
unscheduled or finished is deleted at once, and since neither spec nor status says
which pods these are, both outcomes are open.

### ReplicaSetController

`rs` and `pods` are what the API model stores, `sync[w]` the local variables of
the sync that goroutine `w` runs, `left` the disturbances still to come. A sync is
`ReadReplicaSet`, `ListPods` (with the branch manageReplicas takes), then one step
per create call or delete goroutine, then `WriteStatus` and, after a failure,
`Refetch` and `WriteStatus` again. Calls of a batch complete in any order and any of
them may be refused, also with the NamespaceTerminating cause that counts as a
success; `NextBatch` is the loop of slowStartBatch. Lists are reads of the map
itself, as in the trusted listers (`src/src/trusted_code/k8s_io/client_go`), and the
two reads of a sync are two steps.

The environment creates, scales, protects and deletes the set, creates and deletes
pods under any name, and starts and stops pods.

Which pods go first: pods that are not ready before pods that are. The remaining
order (nodes, ages, restarts) is left open, so the properties hold for any.
Availability and terminating counts, and the labels behind
FullyLabeledReplicas, are left out of the status.

UIDs and versions are never reused by `ApiServer` (theorems `UIDsSound` and
`VersionsSound`) and the controller only compares them for equality. An identifier
that neither a stored object nor a sync holds therefore cannot be told from a fresh
one, and `FreePodUIDs`, `FreeRSUIDs` and `FreeRVs` give it out again. That makes the
state space finite without a bound on writes. The cfgs have enough of them that a
step never waits for one.

`RetryingClient` chooses the client. FALSE, used by all runs, is a client whose
UpdateStatus returns Conflicts, which the controller's retry is written for. TRUE is
the trusted client of the proofs, whose UpdateStatus is updateStatusTx; its effects
are those of the mutant `StatusConflictFault`: an old copy's finalizers overwrite
the live ones, and a set that waits under foreground deletion may be finished off.

### StatefulSetController

`sts`, `pods` and `claims` are what the API model stores, `sync[w]` the local
variables of a sync: its copy of the set, the pods it listed, the ordinal that
reconcileDesiredPods is at with the claims still to look up, and the pod it is about to
delete. A sync is `ReadSet`, `ListPods`, a `ReleasePod` for each badly named pod, then
per ordinal `GetClaim` and, for a missing one, `CreateClaim` for each claim template in
any order (they come out of a Go map), then `CreatePod`, which ends the sync, or
`UpdatePod`; after the last ordinal at most one `DeletePod`. What a sync decides between
two calls is computed in the step of the first (`Desired`, `TakeDown`).

A pod's name is its ordinal if isMemberOf accepts it, and a stray name otherwise. Its
labels are right or wrong (identityMatches). Its hostname, subdomain, volumes and the
rest of its spec are one value, the template it was made from (podSpecMatches). The code
compares stored specs with templates, so a template that API defaulting, admission or
the scheduler adds to never matches its own pods: such templates are those outside
`CompleteTemplates`, and `Converges` and `WritesMakeProgress` speak of the others.

A deleted pod terminates or, if it was not scheduled, goes at once. A deleted claim
waits for its protection finalizer. The phase of a terminating pod tells whether a sync
or somebody else deleted it, which only `AtMostTwoDown` reads.

### DeploymentController

`sets` has the ReplicaSet of each template: a set is named by the hash of its template,
and the code assumes that hashes do not collide. A sync is `ReadDeployment`, `ListSets`,
then `CreateSet` (and `GetSet` after AlreadyExists) if no listed set has the template,
`ScaleNewSet` if its size is wrong, and a `ScaleOldSet` for each of the others in any
order. The ReplicaSet controllers appear as their status writes (`MovePods`), each of
which makes the copies of a sync stale. The garbage collector deletes the sets of a
Deployment that is gone, or releases them under the Orphan policy.

### ClusterRoleAggregation, ServiceAccountController

There is one sync per key, as upstream's work queue guarantees; keys run side by side.
A role's sync evaluates one selector a step (`ListRoles`), so its lists show different
moments. Rules are compared in order and collected without repetition, roles in the
order of their names. A namespace's sync looks up (`GetAccount`) and creates
(`CreateAccount`) one account after the other. The API model admits an account in a
namespace that is terminating or gone, since it leaves the namespace admission plug-in
out, and so does the model.

In these modules and the two before, resource versions are left out: an Update succeeds
if and only if its copy is what is stored. By `VersionIdentifiesContent` of `ApiServer`
that is what an equal version says; a version that differs while the content is equal
again (changed and changed back) is a Conflict in the code and a success in the model,
which writes nothing else than the code's next sync would. The faults `UpdateConflictFault`
are the client of the Rocq proofs, which retries Conflicts with the old copy.

### IamModel, IamReconcile

`identities` and `policies` are the two maps. `run[c]` is a caller: the attachments
its plan still has to remove, the identities it found missing and the policy made
for them. `TakeSnapshot` computes the plan; `Detach`, `CreateMissingPolicy` and
`Attach` are the calls, and an error ends the run where it is. Callers run for ever
again. Go's map order is random and open here. A policy nobody holds or has
attached grants nothing, and its ID is reused as above.

## What the runs check

| run | instance | what it shows |
|---|---|---|
| `apiserver_pod` | one pod key, one client, 2 UIDs, 4 versions, negative and zero grace periods, a user finalizer | types (no negative grace period is stored), a version stands for one content, a generation for one spec, nothing lingers without a reason, deletion is not taken back, a call that names a UID spares a successor, no lost update |
| `apiserver_tx` | a claim (protection finalizer) and a pod under two keys, a client's transaction against writers, fair | a UID belongs to one key; every step is a step of `ObjectLifecycle`; transactions return, updateTx and updateStatusTx as long as their object is not replaced |
| `apiserver_update_tx` | one pod, smaller | **violated**: an update transaction on a replaced object never returns |
| `replicaset_races` | two syncs, two pod names, sizes 0 and 2, three disturbances, pods never ready | the two together exceed the largest size by at most one burst, a bound the run attains; no sync deletes a pod it did not list; a status never vouches for a spec its sync did not act on; a status write leaves finalizers and the set's existence alone |
| `replicaset_loop` | one sync at a time, six names, sizes 0 and 3, burst 3, fair | types (no count below zero), slow start limits failures, no more pods than the burst and the gap allow; pods converge to the spec and the status to the truth |
| `replicaset_replaced` | one sync at a time, one user | **violated**: a set created anew between two status attempts gets the old set's status |
| `statefulset` | one sync at a time, sizes 0 and 3, two claim templates, a complete and an incomplete template, a stray name, three disturbances, fair | types (no ordinal beyond the set), claims before pods, at most two pods down on the syncs' account, writes make progress, writes of old copies revert nothing, convergence |
| `deployment` | one sync at a time, three templates, sizes 1 and 2, four disturbances, fair | a sync lists its own sets only, capacity is kept, orphaned sets stay so, rollouts complete |
| `deployment_adopts` | the same with two templates | **violated**: a sync scales a set of another owner |
| `cluster_roles` | a plain role, one that aggregates it, one that aggregates both by two selectors, from all initial roles, two disturbances, fair | no rule twice, labels are not reverted, rules arrive and go |
| `service_accounts` | two namespaces, two accounts, six disturbances, fair | active namespaces get their accounts, terminating ones go |
| `iam` | two callers, three identities, two of them desired, two resources, one user step, every populated start | other resources are untouched, an undisturbed run is exact, callers converge |

Why these bounds are enough. Two UIDs let an object be replaced under a name held
in a copy; four versions let a copy be overtaken twice while a transaction retries. Two
pod names and two syncs are what a name changing hands needs. Size 3 with burst 3
gives the batch 1 and a cut-off batch 2; six names let foreign pods and pods that
are terminating stand beside those of the set. Three disturbances are a creation, a
change and one more thing that goes wrong; `replicaset_replaced` needs four to recreate
the set. In `statefulset` three ordinals have one below, one in the middle and one on top,
and a scaling to 0 and back passes all of them; with one claim template the same
properties were also checked with four disturbances. A rollout that is changed half-way and whose
Deployment is replaced takes `deployment` its four; three templates give it two old sets.
Role 3 of `cluster_roles` gets rules from role 1 directly and through role 2, whose sync may
lag, and may carry a label that it selects itself. In `service_accounts` a namespace can be
created, deleted and created again with disturbances left over; the code's list has one
account, and two are the least for which a failure leaves something undone.
For `iam` the populated starts stand for what users did before, so one more
user step is one in the middle of a run.

State constraints:

- `InOrder` (ApiServer): identifiers are handed out in order. They are only compared
  for equality, so this leaves out renamings only.
- `RoomToWrite` (`apiserver_tx`, `apiserver_update_tx`): leaves out behaviours that spend
  the last version while a transaction runs, where the bound and not the code would
  stop it.
- `InNameOrder` (`replicaset_loop`, on actions): a new pod takes the first free name.
  Pod names are alike, so this leaves out renamings only.
- `NoneReady` (`replicaset_races`): pods do not become ready, which has no part in
  these properties and doubles the states of a pod.

The bounds on what syncs of one set create together: with sizes 0 and 2, burst 2 and two
syncs, `OvershootBounded` allows four pods; both syncs list nothing and create two each.

Deadlock is not checked where the bounds let everything stop: ApiServer runs out of
identifiers, and the controllers have no step once their object is gone or in order and
disturbances are used up. `iam` never stops and checks it.

Fairness. `ApiServer`: a call in progress is a goroutine that the scheduler lets go
on (`WF` of its steps), nothing else. `ReplicaSetController`: the same, the set is
synced again and again (upstream's queue and its periodic resync call
syncReplicaSet; the simplified code leaves this to its caller), and the kubelet
starts and stops pods. The other controllers are treated alike, with the garbage collector,
claim protection, the ReplicaSet controllers and the namespace controller as the parts of
the cluster that do their work. Users and failures have no fairness and, bounded by `left`,
stop. `IamReconcile`: a run goes on and each caller starts another.

## Findings

1. **updateTx and updateStatusTx retry for ever when their object was replaced**
   (`transaction.go:97` and `:168`; run `apiserver_update_tx`). `update` answers a UID
   mismatch with Conflict, the loop retries every Conflict, and no retry changes the
   caller's UID. deleteTx tests for it. The docs describe retries of resource-version
   conflicts only.
2. **A ReplicaSet recreated between two status attempts is given its predecessor's
   status and generation** (`replica_set_utils.go:100`; run `replicaset_replaced`). The
   comment says the saved generation prevents wrongly indicating that a spec update
   was seen; with the GET by name it is what causes it. The next sync corrects it
   (`StatusSettles`).

3. **A Deployment's sync scales a ReplicaSet that is not the Deployment's**
   (`deployment.go:150`; run `deployment_adopts`). After AlreadyExists getNewReplicaSet returns
   whatever has the name, without a look at its owner. A Deployment that is deleted and
   created again with the same template so takes the set its predecessor left to the garbage
   collector for its own, scales it, and scales its old sets down relying on it. The doc at
   115-116 calls it "the deployment's new ReplicaSet". Once the set is collected a later
   sync creates a new one (`RolloutCompletes`).

Smaller divergences met while reading, without a run: `deployment.go:31-32` says the
simplified ReplicaSet controller never writes status, `replica_set.go:260` does;
`replica_set.go:55-56` says pods *owned by* related sets, the code selects by label;
`replica_set.go:133-135` says the API model's Create never returns an error,
`api_model.go:998-1015` does; `api_model.go:1467` records a period of 1 that `delete`
overwrites.

## What is proved

`ApiServerProofs`, for any sets of clients, keys, UIDs, versions, specs, statuses
and finalizers, under the assumptions `ApiServer` states on its constants (an empty
field is not a value, grace periods are integers, each key has a kind): type
correctness, the four invariants of `apiserver_pod` and `UIDNamesOneKey`, the three
action properties, and the refinement of `ObjectLifecycle`.

The argument. A step is described twice, by what it does to the map (`MapStep`: an
object appears with a fresh UID and version, is removed, or is *revised*) and to the
calls (`TxStep`: a call keeps its key and copy, and a new one has just read them).
`MapChanges` and `TxChanges` derive both from `Next`, and only they open the
actions; `Revises` is what all write paths have in common. The inductive invariant
is `Identity`: the four invariants together with `Known`, that every UID and version
in the map or in a copy was handed out. Without `Known` a fresh version could
meet an old copy. The action properties about calls need one more,
`CallsNameTheirCopy`: a call names the UID and version of its own copy or none.

`ReplicaSetProofs`, for any number of syncs, any finite set of pod names, any sizes and
any burst from 1: type correctness (no count of the slow start goes below zero),
`SlowStartLimitsFailures`, `OnlyListedPodsDeleted`, `ObservedSpecWasActedOn` and, for a
client that returns Conflicts (`RetryingClient = FALSE`), `StatusWriteSparesTheRest`. Of
UIDs and versions the proofs use only that none in use is given out. Where one sync runs
at a time, `NoOvershoot` too: `NoOvershooting` has that as its hypothesis, because two
syncs create twice what both found missing. What they create together is bounded all the
same: `OvershootBounded`, for any finite number of syncs (`OvershootsInBounds`).

The argument. As above, a step is described by what it does to the set (`SetStep`), to
each pod (`PodStep`) and to each sync (`SyncStep`: it keeps its copy and list, or takes
new ones from what is stored, or is done); `SetChanges`, `PodChanges` and `SyncChanges`
derive this from `Next`. The inductive invariant `Inv` has, besides the types,
- `Counting`: in the middle of a batch, all calls of the earlier batches succeeded, the
  batch is at most one larger than their number, and the calls made and to be made add
  up to what the sync may create. `SlowStartLimitsFailures` alone is not inductive: it
  does not say how large the next batch may be;
- `ListedOwned`: a listed pod that still has its name and UID belongs to the sync's set,
  which holds because UIDs in use are not given out and owners do not change;
- `VersionsIdentify`: a copy with the stored version is the stored set, so a write
  without a Conflict sends the live finalizers;
- `GenerationsIdentify`: a copy's generation is not ahead of the live one and, if equal,
  has the live spec. The order is what keeps an old copy from matching a later spec;
- `DeletionWaits`: a terminating set has a finalizer, without which a status write
  would remove it.

`NoOvershoot` needs another, `RunningCounted`: while a sync creates, the running pods of its
copy's set are at most those it listed as running and those it created. It holds because nobody
else creates pods with that owner, and it bounds the count by what `Counting` says of the calls
that are left.

`OvershootBounded` counts the running pods of a set together with the creates its syncs still
have to make (`CreatesToCome`). That sum is inductive where the number of pods is not: a create
moves one from the one count to the other, a refused call, a batch that fails and every step of
users and the cluster only lower it, and it rises only when a sync lists the pods. At that moment
what runs and what the sync may create are at most the largest size, since a sync lists what is
stored, and each of the other syncs has at most one burst to come. `StoreTypes`, `SyncsOK` and
`Counting` are all it needs besides.

`StatefulSetProofs`, for any number of syncs, ordinals, claim templates, sizes and
templates: type correctness with the bound on ordinals, `ClaimsBeforePods` and
`UpdateSparesTheRest`. Steps are described by `PodStep`, `ClaimStep` and `SyncStep`. The inductive
invariant adds to the types `ClaimsMade`: the claims of its ordinal that a sync no longer has
to look up were created at some time, by it or by others; without it nothing ties `CreatePod` to
the claims, several steps earlier. `HighestMember` (the pod to take down is one of the
candidates and the highest) is the one fact that needs well-foundedness.

`StatefulSetOrderProofs`: `AtMostTwoDown` where one sync runs at a time. A bound on a count
is not inductive; the invariant `Orderly` says where retired pods can be. Of two retired pods of one
set the higher is the highest pod of the set (`TopRetired`), so a third does not fit. A sync
breaks this neither by a new pod, which comes only above pods it listed as running (`Passed`), nor by
a delete, which takes the highest pod or comes when all listed pods run (`Chosen`); and what it
listed stays true of the members until it acts, as far as owners and retirement go (`ListHolds`).
Everybody else's steps are `Calm`: they retire no pod and create no member.

There too: `WritesMakeProgress`, for finite sets of claim templates and strays. `Distance` is the
sum of six cardinalities; `OtherPods` confines a write to the one member it is about, and each
write's lemma says which of the six sets loses it. That the pod of that name still is what the
sync took it for (outdated, surplus, a stray) follows from `Orderly`. And `MatchLasts`: a cluster
at distance 0, with no sync left that read an older version of the set, stays there until a user
acts, and no sync writes. By `StepProgress` a write would make the distance negative, and what the
garbage collector, the kubelet and claim protection remove at distance 0 belongs to nobody the set
counts (`ClusterSpares`). Only the way from this ranking to convergence, which needs fairness,
stays with TLC.

`DeploymentProofs`, for any templates and sizes: type correctness and `OrphansStay` for any
number of syncs, and `CapacityKept` where one sync runs at a time. A step either is `Gentle`
(nobody but a user changes what is asked of a set) or takes one sync further with
`Capacity` kept (`GoesOn`). The invariant needs that the old sets a sync scales down do not
include the one of its copy's template. With two syncs `CapacityKept` is false: one may
scale down what the other takes for the new set. `RolloutLasts`, for any number of syncs: a
rollout completed by a set of the Deployment's own, with no sync left that read an older
version of the Deployment, stays complete until a user acts, and no sync writes. A sync may
still hold sets listed long before; what keeps it from acting on them (`Plans`) is that it only
sends a size that differs from the one it read, so that an outdated list meets a Conflict.

`IamProofs`, for any number of callers, identities, resources and user steps: the types,
`OtherResourcesUntouched`, `SuccessIsExact`, and that late calls do no harm (`LateCallsDoNoHarm`):
no caller's step takes access from a desired identity or gives it to another, so that access
which is as desired stays so until a user acts. What is stored is seen as the set of attachments
that give access to a resource (`Gives`). A caller's step (`GoesOn`) leaves that set alone for other
resources, and for its own moves it towards what is desired (`Towards`), because a run only
holds policies for its resource (`HoldsPolicies`), takes access only from undesired
identities and gives it only to desired ones (`RunOK`). So what an undisturbed run knew at its snapshot
stays enough to finish the job (`Knows`), whatever other callers finish before it. The run `iam`
starts from populated stores; the theorem starts from an empty one and
allows any number of user steps, which populate it.

`ClusterRoleProofs`, for any number of roles, any labels, selectors and rules, roles that select each other included: the types (a sync's rules repeat none), `LabelsSpared`, and three
theorems on what rules come out. `QuietSyncIsExact`: if the other roles stay as they are during a
sync, its lists, each taken at a moment of its own, add up to one; what it writes is exactly what
the role is granted. `SettledStays`: what a sync would find depends on the other roles alone, so a
role that holds it is not written again; the rules are compared in order, and this is why the
order never makes syncs answer each other. `ConvergedStays`: once all are settled, no sync undoes
what another wrote, and `Converged` stays true until a user acts.

The argument. Rules are collected by a fold of a fold, and a fold is a recursive function over sets
of positions. The library's induction takes the property as an operator, which the provers
cannot instantiate; `Induction` takes it as a set that has 0 and with each number the next, and is
proved by well-foundedness. With it, `FoldsExist` shows that the recursive function exists and
`Recursion` that along a sequence it takes one step after the other (`Runs`). From that
follow the range of what is collected and that it repeats nothing (`AddRulesOK`, `AddListsOK`, `CollectOK`). The
invariant of a quiet sync says that what it has found is what the selectors it has gone past find in
the roles as stored (`FoundUpTo`, `UpToDate`).

`ServiceAccountProofs`, for any list of accounts, also an empty one or one with repetitions: the
types (`TypeOK`, with the bound on a sync's place in its list, which is why no run checks it), and two
theorems behind the liveness properties. `SyncMissesNothing`: as long as no account of its namespace is removed
and no request of the sync refused, the accounts it has gone past are there (`Passed`), whoever
created them. `TerminatingRunsDown`: `Work` weighs the accounts of a namespace with the
calls its sync still makes, three for an account it has to look up and two for one it has to create,
each of which may leave one account behind; in a namespace that is being deleted every step but a
user's lowers it.

Only model-checked: all liveness (`TxReturns`, `Converges`, `StatusSettles`, `RolloutCompletes`,
`AccountsArrive`, `NamespacesGo`), which needs fairness and `ENABLED` and is beyond the prover. The
safety half of several of them is proved: the ranking (`EveryWriteCounts`, `TerminatingRunsDown`)
and that the goal is not left again (`MatchLasts`, `RolloutLasts`, `ConvergedStays`,
`LateCallsDoNoHarm`).

## What is not modelled

- Pods and claims that others create under the names of a StatefulSet's members. CreatePod
  takes AlreadyExists for success, so the set would wait for them to be removed.
- Templates that creation changes are modelled, their convergence is not claimed: the code
  deletes and recreates such pods for ever, as its TODO says.
- Two ReplicaSets with one template under one Deployment (a user edits a set's template):
  which of them is new depends on the order of a list.
- Roles that select each other in a cycle. Each then keeps the rules of the other alive
  after their source is gone, so the rules do not converge to what is granted.
- Adoption of pods and sets without an owner: the simplified controllers leave it out.
- `Index` and `PodMutGet`-style accessors: no controller calls the former, and the latter
  are reads.
- Upstream code behind the API model (conversion, defaulting, admission, validation).
- Overflow of generations and counts: they are Go integers that grow by one for
  each write.
- The Rocq development, the comparison tests and the generators: no state of the
  system.

## Plan

In this order; each module with its MC module, runs and mutants.

1. done: `ObjectLifecycle`, `ApiServer`, `ApiServerProofs`.
2. done: `ReplicaSetController`, `ReplicaSetProofs`.
3. done: `IamModel`, `IamReconcile`.
4. done: `StatefulSetController`, `StatefulSetProofs`.
5. done: `DeploymentController` with abstract ReplicaSets, `DeploymentProofs`.
6. done: `ClusterRoleAggregation`, `ServiceAccountController`.
7. done: `NoOvershooting` and `StatefulSetOrderProofs`.
8. done: `IamProofs`.
9. done: progress and stability of StatefulSets, in `StatefulSetOrderProofs`.
10. done: `OvershootBounded`, `ClusterRoleProofs`, `ServiceAccountProofs`, `RolloutLasts`.
11. next: the composition of `DeploymentController` with `ReplicaSetController` in place of
   `MovePods`, as a refinement; the stability of a ReplicaSet that has its pods and its
   status.
