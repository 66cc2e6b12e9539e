# Verification of policy-operator

TLA+ models of the Kubernetes operator that keeps Azure Policy definitions, initiatives,
assignments and exemptions in step with custom resources. TLC checks the models on small
instances, TLAPS proves the theorems for every instance. Paths such as `definition.go:222`
are files of the repository; `PROJECT.json` gives the source lines of every definition.

## 1. The system

The operator is one process (`src/cmd/main.go`, leader election) that runs four
controllers of controller-runtime, each with one worker. A controller reads a custom
resource from the informer cache, calls Azure Resource Manager through a service package,
and records the result in the resource's status.

| component | state it keeps | operations |
|---|---|---|
| controller runtime and manager | stored objects, informer caches, one workqueue and one worker per kind | watch, requeue, resync, optimistic locking, restart |
| `AzurePolicyDefinition` controller, `policydefinition` service | status (bound ID, applied version, conditions), finalizer, definition in Azure | add finalizer, import in three modes, look up, create or update, clean up |
| `AzurePolicyInitiative` controller, `policybundle` service | as above, plus a member list resolved from other objects | the same, plus resolving references, a watch on definitions |
| `AzurePolicyExemption` controller, `policyexemption` service | status, finalizer, exemptions named by fresh UUIDs | resolve the assignment, create or update, clean up |
| `AzurePolicyAssignment` controller, `policyassignment` service | status with inline exemptions and role assignments | resolve the policy, import, create, role assignments, inline exemptions, clean up in several calls |
| API types | the fields reconciles branch on | validation by CRD schema |
| ARM clients | none | pass calls on to the Azure SDK |

**Interactions.** There are no calls between controllers: a definition's `status` ID is
read by initiatives and assignments, an initiative's by assignments, an assignment's by
exemptions, each through its own lagging cache. Initiatives and assignments are woken by
watches on what they refer to; exemptions only poll with `RefNotReady` requeues. Every controller
talks to Azure, where portal users and other tools change the same resources.

**What is hard.** Between any two remote calls of a reconcile the user may edit, delete
or recreate the object, the cache may lag, the process may stop, a call may fail or be
applied with its answer lost, and someone else may change Azure. The status is the only memory:
whether a resource is ours, which name it has (exemptions), whether adopt-once has had its
once. An assignment is one object and many Azure resources, written and deleted one call at a time.
`PROJECT.json` lists 39 hazards with their lines.

**What makes it correct.** Nothing is written to Azure for an object whose clean-up is
over; a bound resource is deleted before the object goes; the status never claims what
Azure does not hold; a binding stays with one resource; an unbound object takes nobody
else's resource over; the read-only mode reads; deletions complete, drift heals,
references are followed, and adopt-once ends. What all four controllers promise of an object and of
what it has in Azure is stated once, in `ManagedResource`.

## 2. The modules

| module | models | uses |
|---|---|---|
| `ManagedResource` | what every controller promises of an object: the abstract specification | - |
| `ControllerRuntime` | what a reconciler sees of Kubernetes and controller-runtime | - |
| `PolicyDefinition` | definition controller and service | `ControllerRuntime`, `ManagedResource` |
| `PolicyInitiative` | initiative controller and service | the same |
| `PolicyExemption` | exemption controller and service | the same |
| `PolicyAssignment` | assignment controller and service | the same |
| `DefinitionsAndInitiatives` | the definition and the initiative controller in one process | `PolicyDefinition`, `PolicyInitiative` |
| `MC...` | instances for TLC | the module of that name |
| `ControllerRuntimeProofs` | what the runtime guarantees to any controller, proved | `ControllerRuntime` |
| `ManagedResourceProofs` | an invariant of the abstract specification, proved | `ManagedResource` |
| `PolicyDefinitionProofs`, `PolicyInitiativeProofs`, `PolicyExemptionProofs`, `PolicyAssignmentProofs` | types, the refinement of `ManagedResource` and what follows from the same invariants, proved | the controller's module, `ControllerRuntimeProofs` |
| `PolicyDefinitionStatus`, `PolicyAssignmentStatus` | what a status says of Azure, proved | the controller's `Proofs` |

### ControllerRuntime

`obj[c]` is the stored object, `cache[c]` what the informer delivered last. Resource versions
are not counted: `synced[c]` says that the cached version is the stored one, `fresh[c]` that
the worker's copy is. `pc[c]` is the call that the reconcile of `c` is about to make, `copy[c]`
the Go variable it carries. An `Update` or `Status().Update` (`WriteAndReturn`) succeeds
only on a fresh copy; otherwise it is a conflict. It may also fail, or be applied with its
answer lost. Storing an equal object makes no event.

Users create, apply and delete at any time, also while an object is being deleted.
A new spec gets a new generation, numbered by `edits`; a change of annotations does not.
`Crash` forgets everything but `obj`: the informer lists again and enqueues every object. `MaxConcurrentReconciles`
is left at 1, so `Dequeue` needs an idle worker. There is no clock. `RequeueAfter`, `Requeue` and an
error's backoff put the key back, and it may wait there for any time.

This module is controller-runtime and the API server as `src/` uses them, so most of its
definitions are marked external in the map.

### PolicyDefinition

`Reconcile(c)` has one action per early return or first call of the function:
`IgnoreGone`, `BeginAddFinalizer`, `HandleDeletion`, `RejectRebinding`, `SkipApplied`,
`BeginImport`, `BeginReconcileDefinition`. `Call(c)` has one action per remote call: `AddFinalizer`,
`RemoveFinalizer`, `Import`, `Get`, `CreateOrUpdate`, `Delete`, `StatusUpdate`. The Go
code between two calls belongs to the action before it, so the effect of reading early and
using late is there, and no step can be skipped.

- A definition in Azure is a head (display name, description, mode: what the drift condition
  compares) and a version (everything else). `by` and `gen` are ghosts, read by properties only.
- The mode of an import is none (observe-only by default), one of the three that the code knows, or any `other` text, which
  is imported like `reconcile` and written under the object's own name. The default is not applied at deletion (`Releases`).
- The target of a call is computed as the service does: `TargetName` takes the import name
  in the modes `reconcile` and `adopt-once` only; `ImportRef` drops the subscription of the
  import ID; `DeleteRef` takes the name of the status and the scope of the spec.
- `spec.subscriptionId` is read nowhere in `src/` and is not in the model.
- `Misreads` lets an ARM error that is not a 404 contain the text "404"
  (`definition.go:210` tests the text).

### PolicyInitiative

As above, with these differences of the code: references are resolved before the import is
looked at (`RejectRefs` stores `RefNotFound` or `RefNotReady`), IDs are compared without regard
to case, the drift of the member list is decided by position, and `WatchDefinition` enqueues the
initiatives that the map function finds in the cache. Definitions are environment variables:
`defined[d]` is the ID the definition's status carries, or that it is missing or not bound;
`seen[d]` is what the watch has delivered. `Referring(d)` is the map function of the watch: it looks
for referring initiatives in a cache that may lag.

### PolicyExemption

An exemption gets a fresh UUID whenever the status has no ID, and nothing is looked up in
Azure first. `assigned[a]` is the referenced assignment as an environment variable.
`Quota` is Azure's limit of exemptions per scope: a creation over it is refused.

### PolicyAssignment

The object reads like the others; the service does not. One `CreateOrUpdate` creates the assignment, puts
the inline exemptions one by one, deletes those that left the spec, and makes the role assignments;
one `Delete` runs over the same in its own order. `todo` is what such a call still has to do, `results` the
exemptions it has written so far, and each remote call is an action (`Create`, `PutExemption`,
`DropExemption`, `Grant`, `Revoke`, `DeleteAssignment`). `StepFailed` returns the service's error:
what is in `results` is dropped, as at `assingment.go:312`.

- An inline exemption is named by a fresh UUID which only the status remembers; `Known` matches the entries of
  the spec with those of the status by display name, as `reconcileExemptions` does.
- A role assignment is named by a hash over the text of the bound ID, the scope and the role definition: `Grants` holds
  the ID with its text, and an import binds the user's spelling.
- A permission names its role definition by ID, or by role name (`ByName`). A name is looked up by a list call each time,
  right before the role assignment is written or deleted; `roles` is what Azure would answer, which others may change. The
  lookup changes nothing, so it is part of `Grant` and of `Revoke`: a name that is not found (`RoleFound`) ends the
  service's call with its error, at creation and at deletion alike. A lookup that fails is the call's failure.
- `located` is the location of an assignment with a managed identity; `Refused` says that Azure does not let
  it go, and that the code sends none when the status has lost it.
- `Uuids` bounds the exemptions that exist at a time: when none is left the creation is refused, as by Azure's quota.
- `AlreadyExists` returns without requeue (`ReportExisting`), and the reason `AppliedOnce` is never stored.

### ManagedResource

Four variables and no cache, queue, call or failure. `stage[c]` is absent, new (no finalizer), guarded or
leaving; `work[c]` is what a reconcile is at: nothing, writing or cleaning; `bound[c]` says that the
status names an Azure resource, `owed[c]` that something in Azure has to be deleted before the object may go. An
object is guarded before it is written for; only writing under the finalizer binds; cleaning never starts
for a guarded object; and an object is forgotten by cleaning alone, when it owes nothing.

Each controller instantiates it under the same mapping, `Managing`, with `Lifecycle == Managing!Spec`:

| abstract | concrete |
|---|---|
| `stage` | `Stage(obj[c])`: presence, finalizer and deletion timestamp of the stored object |
| `work` | `Work(pc[c], copy[c])`: a call other than the finalizer's, of a copy that is live (writing) or deleting (cleaning) |
| `bound` | the stored status has an ID |
| `owed` | `Owes(obj[c])`: the controller's own; a bound object whose resource is in Azure. Definitions and initiatives except observe-only, as the code releases those; assignments count inline exemptions and role assignments too |

`Owes` is limited to objects whose spec still names the scope of the bound ID, since the clean-up looks at the scope of the
spec and does leave the old resource behind, and to behaviours in which nobody else writes to Azure.

### DefinitionsAndInitiatives

Both controllers with their own queue, worker and cache. `defined` and `seen` of `PolicyInitiative`, free variables
of the environment there, are computed here from the stored and the cached objects of
`PolicyDefinition` (`RefState`). An event of a definition goes to the definition controller and, through the map function, to
the initiatives; it is one step, since both read the one informer of the manager. Faults and other
writers are in the modules of the two and left out here.

## 3. What TLC checks

A property of a passing run has a mutant in `PROJECT.json`, a change of one
definition that stands for a plausible bug and that breaks the property under the run's own
configuration. The mutated forms are kept in the modules next to the definitions, under the comment
"Fault:". No specification uses them.

| run | instance | distinct states | shows |
|---|---|---|---|
| `def_safety` | 1 object, 9 manifests (plain, other scope, import in every mode and in none, ID in another case), 3 edits, 1 fault | 1.35 million | `WritesUnderFinalizer`, `StatusNotAhead`, `InSyncIsCurrent`, `AdoptsTheImported`, `Lifecycle`, `NoRebinding`, `ObserveOnlyReads` |
| `def_two` | 2 objects, one Azure name, 2 edits, 1 fault | 71 thousand | `NoTakeover`, `BoundComesBack` |
| `def_liveness` | 1 object, 6 manifests, 2 edits, 1 fault, 1 change by others, misread errors | 157 thousand | `DeletionCompletes`, `DriftHeals`, `AdoptOnceSettles` |
| `ini_safety` | 1 object, 5 manifests (plain, careless, three imports, one in another order of members), 2 edits, 1 fault, 1 change of the definition or by others | 753 thousand | `StatusNotAhead`, `InSyncIsCurrent`, `Lifecycle` |
| `dai_chain` | 1 definition (2 scopes, 2 edits), 1 initiative (1 edit), both workers | 391 thousand | `ListsWhatStands`, `DriftIsReported` |
| `exm_one` | 1 object, 4 manifests at 2 scopes, quota 1, 4 UUIDs, 3 edits, 1 fault, 1 change of the assignment | 311 thousand | `ReconciledExists`, `BindingStays`, `Lifecycle`, `FollowsRef`, `DeletionCompletes` |
| `asg_safety` | 1 object, 5 manifests (two inline exemptions, a role by name, import modes), 2 edits, 1 fault | 604 thousand | `ReconciledIsComplete`, `TrackedUntilGone`, `KeepsItsName`, `Lifecycle` |
| `asg_liveness` | 1 object, 2 manifests (kept with an exemption and a role by name; observed), 2 edits, 1 fault, 1 change of the definition, of the role or by others | 445 thousand | `DeletionCompletes`, `DriftHeals`, `DriftIsReported` |

`def_safety`, `ini_safety`, `exm_one` and `asg_safety` also check `TypeOK`. `Lifecycle` is the refinement
of `ManagedResource`.

**Why these bounds.** Objects of different names share nothing but Azure names, the worker and
the references, so one object suffices except where two meet: `def_two` (one name) and `dai_chain`
(a reference). Three edits are enough for create, change, and create again after a
deletion; two for create and change; deletions are not bounded. One fault at any place covers each single lost
answer, failure or crash; the definition's theorems cover any number. Two versions, heads or
IDs tell stale from current. `exm_one` has room for one exemption in a scope, so that a leaked one makes the
quota refuse the next, and three edits, so that an object may leak one, bind at the other scope, and come
back to where the leaked one fills the quota: from there it reports the failure for ever, and `FollowsRef`
says so (`Stuck`). It has a UUID for each creation the bounds allow, so that names do not run out before
the quota does. The assignment's runs have three UUIDs (two exemptions and a retry), or two where the
manifests have one exemption. `MaxOutside` bounds what others change, in the cluster and in Azure together.

**Deadlock** is not checked: every object may be deleted once the bounded users are done, and
then the system rightly stops.

**Fairness** (`FairSpec` of the definition, exemption and assignment modules and of the composition). The watches
deliver (`WF` of `Sync`, and of `WatchDefinition`), a call that was made returns, by success or by failure
(`WF` of `Call`), and every key that is again and again in the queue is served (`SF` of `Reconcile(c)` for
each object; in the composition one condition, `SF` of the worker of a kind, says both). Strong fairness is needed because a key is not servable while the one worker is busy; the
workqueue justifies it, since keys leave in order and delays end. Users, faults, the portal, definitions,
assignments and the periodic resync owe nothing. In particular drift has to heal by the requeues the
code asks for, not by a resync that need not happen. The liveness of initiatives is checked in the composition, where what they
refer to is the definition controller and not an environment: `DriftIsReported` says that an observed initiative does not
keep a report about a member list that its references no longer stand for.

**What the liveness properties except.** What the code gives up is named in the property: an import that others deleted in
Azure (it is never created again), a definition of the same name that is not the object's, a location that Azure does not let go, an exhausted quota,
and, for assignments, a role name that is not found. The last one holds up the deletion too.

### Disagreements between the code and its documentation

Four runs end in a violation; each refutes a sentence of the documentation (pages under
`src/policy-operator/content/docs`).

- `def_interrupted_create`: the definition is created and the status update is lost. Every later
  reconcile finds the operator's own definition, reports `PolicyDefinitionAlreadyExists`, and never
  binds or updates it (`azurepolicydefinition_controller.go:127`, against `policy-definitions.md:7`).
- `ini_applied_twice`: the reason `AppliedOnce` is the only memory of adopt-once. In the run the initiative is applied,
  the status that says so is stored and reaches the cache, a reconcile that reads it finds the definition missing and stores `RefNotFound` in its
  place, and when the definition is back the initiative is applied again, although the status it read from the cache has the
  applied version (`azurepolicyinitiative_controller.go:268`, against `policy-initiatives.md:423`).
- `asg_observe_deletes`: an import binds the object in every mode, and `handleDeletion` deletes what is bound
  without looking at the mode, so deleting an observe-only object deletes the assignment
  (`azurepolicyassignment_controller.go:103`, against `policy-assignments.md:57`).
- `asg_lost_exemptions`: when one of several inline exemptions is refused, the results of the others are
  dropped; they exist in Azure, the status does not list them, and the next attempt names them anew
  (`assingment.go:312`, against `policy-assignments.md:570`).

Seen in the code, part of the models unless said otherwise, with no run of their own:

- Definitions: with `import-id` and no `import-mode` the default observe-only holds at import but not at deletion,
  which deletes the definition (`azurepolicydefinition_controller.go:95`), where `policy-definitions.md:60` calls the default
  read-only: `ObserveOnlyReads` excepts that deletion. The import ID is compared with
  the bound ID by plain inequality, elsewhere without regard to case (`:199`). A definition that was imported
  and then deleted in Azure is never created again (`:224`). `InSync` compares a part of the definition
  (`definition.go:141`). An error whose text looks like a 404 is taken for a free name (`:210`). After an edit of
  the scope the clean-up looks at the new scope and leaves the old resource behind (`:222`). A value of
  import-mode that is none of the three is imported like `reconcile`, but written under the object's own name.
- Exemptions: the status update after a creation is lost by a conflict with an edit; the retry creates a second
  exemption under a new UUID, and the first is known to nobody (`exemption.go:32`). An edit of the scope leaves the old
  exemption behind.
- Assignments: two inline exemptions of one manifest may have the same display name. Entries of the spec are matched with
  the status through a map by display name; the second reconcile takes the last ID for both, and the other exemption stays in
  Azure where no clean-up finds it (`assingment.go:284`). The proof of `ExemptionsAreTracked` met this: it needs the
  hypothesis `KeysApart`. An edit of an inline exemption's scope leaves the exemption at the old scope behind. Role assignments are not found again for deletion when the bound ID has the user's spelling
  (`assingment.go:455`). Deletion looks role names up again: when a role was renamed or deleted, the clean-up
  fails on every try and the object does not go away (`assingment.go:448`). Adopt-once never steps back. The documentation (`policy-assignments.md:661`) says that removing `import-name`
  loses the name, the code keeps the one in the status. An assignment that already exists is
  reported and not put back in the queue (`azurepolicyassignment_controller.go:219`). `policyDefinitionRef` never
  looks up initiatives. When the status has lost the location of an assignment with an identity, later updates
  send none and Azure refuses them (`assingment.go:169`). A user-assigned identity has no principal ID in the
  result, so it gets no role assignments; the model has the system-assigned kind only.

## 4. What is proved

Every theorem holds for any sets of objects, names, scopes, manifests and versions, any initial Azure, and any number
of edits, crashes, lost answers and faults. All rest on the typing of the constants (`BoundsAssumption`,
`ConstantsAssumption` and the like, which TLC evaluates on every run) and on `NoneAssumption`: no ID is `None`, and
`None` is not a reason a status gives. A few have a hypothesis about what users do; it is then in the statement, and
named below. Each invariant was checked by TLC on the runs' instances before it was proved.

| module | theorem | property | hypothesis |
|---|---|---|---|
| `ManagedResourceProofs` | `AlwaysGuarded` | `Guarded` | - |
| `PolicyDefinitionProofs` | `TypeCorrect`, `FinalizerGuardsWrites`, `DefinitionsAreManaged`, `ObservingOnlyReads` | `TypeOK`, `WritesUnderFinalizer`, `Lifecycle`, `ObserveOnlyReads` | - |
| `PolicyDefinitionStatus` | `StatusIsBacked`, `InSyncIsTrue` | `StatusNotAhead`, `InSyncIsCurrent` | `NamesApart`, nobody else writes |
| | `ImportsAdopt`, `BindingIsKept` | `AdoptsTheImported`, `NoRebinding` | `Aligned` |
| `PolicyInitiativeProofs` | `TypeCorrect`, `InitiativesAreManaged` | `TypeOK`, `Lifecycle` | - |
| | `StatusIsBacked` | `StatusNotAhead` | `NamesApart`, nobody else writes |
| | `InSyncIsTrue` | `InSyncIsCurrent` | `NamesApart`, nobody else writes, definitions stay |
| `PolicyExemptionProofs` | `TypeCorrect`, `ExemptionsAreManaged`, `ReconciledIsBacked`, `BindingIsKept` | `TypeOK`, `Lifecycle`, `ReconciledExists`, `BindingStays` | - |
| `PolicyAssignmentProofs` | `TypeCorrect`, `AssignmentsAreManaged`, `NameIsKept` | `TypeOK`, `Lifecycle`, `KeepsItsName` | - |
| `PolicyAssignmentStatus` | `ExemptionsAreTracked` | `TrackedUntilGone` | `KeysApart` |
| | `ReconciledIsInAzure` | `ReconciledIsComplete` | `NamesApart`, nobody else writes |

**The hypotheses.** `NamesApart`: no two objects ask for one Azure name. The operator does not enforce it; `def_two` is
the run in which it fails. `Aligned`: an import that may write asks, in its other annotations and its spec, for the
name and scope of its import ID. `KeysApart`: no manifest gives two inline exemptions one display name. The instances
meet them: `def_safety`, `def_liveness` and the runs of assignments, which have one object, meet `NamesApart`, all runs
of definitions `Aligned`, `asg_safety` and `asg_liveness` `KeysApart`. Without the last `TrackedUntilGone` fails (section 3, seen in the code).

### The runtime

`ControllerRuntimeProofs` says what a controller may rely on, with its manifests, statuses and calls as parameters.
`RuntimeInv` is the whole optimistic-locking protocol:

- `Typed`: a reconcile under way carries an object (an idle worker's copy is `Absent`).
- `OneWorker`: at most one object is being reconciled, so a step touches the abstract state of one object.
- `FlagsOK`: a synced cache is the stored object; a fresh copy agrees with it in phase, finalizer and generation.
- `CopyOK`: what passing the finalizer has established about the copy.
- `CacheOK`: the cache lags, but not arbitrarily. An object that the cache shows alive with the finalizer still has it,
  because only the worker removes it, from a copy that is being deleted; and an object that the cache shows being deleted
  has not come back with a finalizer, because only the worker adds one, after it has seen the new object. Without this
  a reconcile could start from an old copy of an object that is already cleaned up.
- `GuardOK`: what is bound, or written for, is guarded.
- `GenOK`: no status observes a generation that its object has not reached.

The invariant is proved per shape of a step (a user's step, a step to the next call, a call with or without
a write, a return, a crash), and for each shape a second lemma says what it is in the words of
`ManagedResource` (`LifeStep`, `StartStep`, `EndStep`). A controller's proof cites the two lemmas that fit each of its
actions, and adds what only its own code establishes.

### The controllers

- **`Lifecycle`**, all four. The local invariant has three parts. `CallOK`: what the branches before a call have tested.
  `CopyAgrees`: what a fresh copy still says of the stored object when it is written back; a write may have given it a binding,
  but has not taken one. `CleanedUp`: when the finalizer is about to go, the resource is gone, or is
  released by design, or somebody else has written. `Lifting` turns a step of one object into a step of the whole
  abstract specification. For assignments `CleanedUp` becomes `CleansAll`: whatever the clean-up has to delete is
  deleted or is still on the list (a role assignment, as long as others have left the role definitions alone). The lists are built with `SelectSeq` and `SetToSeq`; that they hold
  what was selected is proved by counting ranks and the pigeonhole principle, since induction over data is out of reach.
- **What a status says**. `StatusIsBacked` (definitions, initiatives) needs two layers: `OwnInv`, every ID an object
  has in its store, cache or copy is one of its own names, so that no other object writes there; and `StatusInv`, what the
  stored status claims is in Azure, and what a copy that is about to be stored claims is too. Exemptions need no
  hypothesis: `OneHolder` says that a UUID is held by one object, in its status, its cache or its copy, because it was new when it was given.
- **What a drift report says**. `InSyncIsTrue` of the definitions adds the head of the definition to `StatusInv`. That of the
  initiatives adds the member list. `CopySpells`: the copy of a running reconcile spells out the references of the stored
  spec, when it is of the stored generation and no definition has changed. `SyncInv`: wherever an InSync is stored, or
  about to be, the initiative in Azure `Lists` the head and the members of that spec. Between the import and the report the
  object may be edited and the cache may lag: an edit raises the generation, a stale copy is not stored, and the
  calls that write the initiative afterwards write that list, or belong to a generation that the report is not about;
  no other object writes it when names are apart.
- **Bindings**. `BindingIsKept` and `NameIsKept` rest on `CopyAgrees`: a stale copy could carry another binding,
  and loses by the conflict.
- **What a report of an assignment promises**. `ReconciledIsInAzure` relates a status to three stores of Azure, item by
  item, while one call writes at a time. Names first: `NameInv` says which name an unbound object will still take, and
  stays true when the copy is stale, `OwnInv` that every name an object has or will take is its own, and `OneHolder`
  that the random name of an inline exemption belongs to one object and one display name. The list of calls next:
  by `PlanInv` what it deletes has left the spec, so no call undoes an earlier one; by `SpecInv` a copy of
  the stored generation has the stored spec; and by `Progress` each part of the spec is in Azure or still on the list.
  When the list is empty, all of it is in Azure and may be reported (`ReportIsTrue`). That a report stays true
  (`ObjectIsTrue`) needs all of them again: another object's calls do not meet these names, its own calls of the same
  generation write the same things, an edit raises the generation, and a clean-up has a copy that is
  being deleted, which the guard of a live object excludes.
- **Inline exemptions**. `ListInv` has three parts: `Tidy`, keys are apart and only a bound object lists exemptions;
  `InOrder`, the service puts the entries of the spec first and in order, so that entry *n* of the results
  belongs to entry *n* of the spec; and `Tracking`, each exemption the stored status lists is on the list that
  will replace it, or deleted, or still to be put or dropped. The status can therefore be replaced at the end of the call, and
  a failure before it leaves the old list, which still covers what exists.

**Model-checked only.** All liveness properties (fairness and ENABLED are outside the prover); `NoTakeover`, `BoundComesBack` and `FollowsRef`; and the composition, `ListsWhatStands` and `DriftIsReported`. The theorems about definitions and initiatives are about the
two modules by themselves; that the composition's steps are theirs is by construction of its actions, and not proved.

## 5. Limits

- One process is active. A request that was sent before a crash and arrives in Azure after it
  is not modelled; neither is the overlap of two leaders.
- The cache jumps to the newest version; the versions in between are skipped.
- `StatusNotAhead`, `ReconciledIsComplete` and what an object owes in `Lifecycle` are limited to behaviours in which
  nobody else writes to Azure: a portal user can make any status wrong until the next reconcile. `NoTakeover` is checked
  without other writers for the same reason: Azure offers the code no conditional write.
- `NoRebinding` asks that an import ID stays on the object; the documentation says that removing the
  annotation is not supported.
- The composition has neither faults nor other writers. That an initiative heals after others changed it, and
  that its adopt-once ends, is not checked as liveness.
- Errors before the first request of an import (a malformed ID, a definition that is not of type
  Custom) are the failure of `Import`. The JSON of rules, parameters and metadata is one value.
- Requeue delays, rate limits, logging, metrics, health checks and TLS are left out.
- **Not modelled.** The ARM clients have no state: what they return is the outcome of a call.
  Generated code, manifests and the documentation site have no behaviour to model.

## 6. Plan

Done: runtime, the four controllers with their services, the abstract specification and its refinement by all four
(proved for all four), the composition of definitions and initiatives, and every invariant that the runs of
the four controllers check proved.

1. A theorem that the composition implements the specification of the definition controller, so that its theorems carry over.
2. The composition extended by assignments and exemptions, whose environment variables (`assigned`, the IDs of
   definitions) are the status of other objects, and by crashes, which stop all workers at once.
