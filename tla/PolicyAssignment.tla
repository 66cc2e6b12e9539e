--------------------------- MODULE PolicyAssignment ---------------------------
(***************************************************************************)
(* The AzurePolicyAssignment controller and the policyassignment service.  *)
(*                                                                         *)
(* An assignment in Azure comes with inline exemptions, named by fresh     *)
(* UUIDs that only the status remembers, and with role assignments for its *)
(* managed identity, named by a hash over the text of the assignment's ID. *)
(* One CreateOrUpdate, or one Delete, of the service is a series of remote *)
(* calls; whatever happens between two of them finds Azure half done.      *)
(***************************************************************************)
EXTENDS ControllerRuntime, Sequences, FiniteSetsExt

CONSTANTS
  Names,          \* Azure names (also the values of metadata.name)
  Scopes,         \* Azure scopes
  NameOf,         \* NameOf[c]: metadata.name of c, without its namespace
  Definitions,    \* the names of AzurePolicyDefinition objects
  DefinitionIds,  \* resource IDs of policy definitions and initiatives
  Bodies,         \* displayName, description, enforcementMode, notScopes
  Keys,           \* the display names of inline exemptions
  Uuids,          \* names of exemptions, as many as Azure's quota allows
  Permissions,    \* a role and a scope each
  ByName,         \* those that give their role by its name
  RoleIds,        \* resource IDs of role definitions
  AzureInit,      \* the assignments Azure holds at the start
  MaxOutside      \* bound on the changes made by others, in Azure and of
                  \* the referenced definitions

VARIABLES
  azure,       \* azure[r]: the assignment at r, or None
  exempted,    \* exempted[e]: the exemption at e, or None
  granted,     \* the role assignments made for managed identities
  roles,       \* roles[p]: the role definition that p stands for, or None
  todo,        \* the calls the running CreateOrUpdate or Delete has left
  results,     \* the inline exemptions that it has written so far
  portal,      \* changes made in Azure by others so far
  defined,     \* defined[d]: the ID in the stored status of d, or why not
  seen,        \* seen[d]: the same, as the informer last delivered it
  defChanges   \* changes of defined so far

cloud == <<azure, exempted, granted>>
service == <<todo, results>>
others == <<portal, roles>>
definitions == <<defined, seen, defChanges>>
vars == <<runtimeVars, cloud, service, others, definitions>>

Refs == [scope : Scopes, name : Names]

\* The text of a resource ID: Azure's own, or a user's with the same meaning.
Texts == {"canonical", "otherCase"}

Ids == [scope : Scopes, name : Names, text : Texts]

\* Any other text is imported like "reconcile", under the name of the object.
Modes == {None, "observe-only", "reconcile", "adopt-once", "other"}

Entries == [key : Keys, scope : Scopes]

\* An identity is there if and only if it has permissions.
Specs == [scope : Scopes, ref : Definitions \cup {None},
          definition : DefinitionIds \cup {None}, body : Bodies,
          exemptions : Seq(Entries), permissions : Seq(Permissions)]

Manifests == [spec : Specs, importId : Ids \cup {None},
              importName : Names \cup {None}, mode : Modes]

\* The reason AppliedOnce is never stored: adopt-once has no effect of its own.
Reasons == {None, "Reconciled", "ObservedOnly", "ImportConflict", "ImportFailed",
            "AlreadyExists", "ReconcileFailed", "DeleteFailed", "RefNotFound",
            "RefNotReady"}

Tracked == [key : Keys, scope : Scopes, uuid : Uuids]

\* located: assignedLocation is set.
Statuses == [id : Ids \cup {None}, exemptions : Seq(Tracked), located : BOOLEAN,
             ready : Reasons, observed : Nat, drift : {None, "SpecMismatch", "InSync"}]

NoStatus == [id |-> None, exemptions |-> <<>>, located |-> FALSE, ready |-> None,
             observed |-> 0, drift |-> None]

Objects == ObjectsOf(Manifests, Statuses)

\* by and gen are ghosts: who wrote the assignment, from which generation.
Resources == [definition : DefinitionIds, body : Bodies, located : BOOLEAN,
              by : CRs \cup {None}, gen : Nat]

ExemptionIds == [scope : Scopes, uuid : Uuids]

\* of is the assignment that is exempted; by is a ghost.
Exemptions == [of : Refs, key : Keys, by : CRs]

\* The name of a role assignment is made from the text of the ID, the scope of
\* the permission and the ID of the role definition.
Grants == [id : Ids, permission : Permissions, role : RoleIds]

\* The calls of the service and their arguments.
ArgsOf == [PutExemption |-> Entries, DropExemption |-> Tracked, Grant |-> Permissions,
           Revoke |-> Permissions, DeleteAssignment |-> Refs]

Calls == {"idle", "AddFinalizer", "RemoveFinalizer", "Import", "Get", "Create",
          "Service", "StatusUpdate", "ReportExisting"}

DefinitionStates == {"missing", "notReady"} \cup DefinitionIds

ASSUME ConstantsAssumption ==
  /\ NameOf \in [CRs -> Names]
  /\ \A c \in CRs : Offers[c] \subseteq Manifests
  /\ AzureInit \in [Refs -> Resources \cup {None}]
  /\ ByName \subseteq Permissions
  /\ MaxOutside \in Nat
  /\ {"missing", "notReady"} \cap DefinitionIds = {}

ASSUME NoneAssumption ==
  None \notin Ids \cup Resources \cup Exemptions \cup RoleIds /\ None # "Reconciled"

Init ==
  /\ RuntimeInit
  /\ azure = AzureInit
  /\ exempted = [e \in ExemptionIds |-> None]
  /\ granted = {}
  /\ roles \in [Permissions -> RoleIds \cup {None}]
  /\ \A p \in Permissions \ ByName : roles[p] # None
  /\ todo = <<>> /\ results = <<>>
  /\ portal = 0
  /\ defined \in [Definitions -> DefinitionStates]
  /\ seen = defined
  /\ defChanges = 0

-----------------------------------------------------------------------------
(* Names and references.                                                   *)

RefOf(id) == [scope |-> id.scope, name |-> id.name]

\* The name an object uses before it is bound.
OwnName(c, m) ==
  IF m.mode \in {"reconcile", "adopt-once"} THEN m.importName ELSE NameOf[c]

\* CreateOrUpdate: the bound name, at the scope of the spec.  Not in Refs when
\* import-name is missing: the client then refuses the call.
Target(c, o) ==
  [scope |-> o.man.spec.scope,
   name |-> IF o.status.id = None THEN OwnName(c, o.man) ELSE o.status.id.name]

\* What the cache says of the reference: an ID, or why there is none.
Lookup(o) == IF o.man.spec.ref = None THEN o.man.spec.definition ELSE seen[o.man.spec.ref]

\* The copy a reconcile works on carries the ID; only its status is stored.
WithDefinition(o) == [o EXCEPT !.man.spec.definition = Lookup(o)]

Assignment(c, o) ==
  [definition |-> o.man.spec.definition, body |-> o.man.spec.body,
   located |-> o.man.spec.permissions # <<>> \/ o.status.located,
   by |-> c, gen |-> o.gen]

Ready(o, reason) ==
  [o EXCEPT !.status.ready = reason, !.status.observed = o.gen]

-----------------------------------------------------------------------------
(* The calls a reconcile and a clean-up are made of.                       *)

OpsOver(op, args) == [i \in DOMAIN args |-> [op |-> op, of |-> args[i]]]

\* Fault: an exemption that left the spec is forgotten.
NothingRemoved(o) == <<>>

\* The inline exemptions of the status that the spec no longer lists, by
\* position.
Gone(o) ==
  {i \in DOMAIN o.status.exemptions :
     \A j \in DOMAIN o.man.spec.exemptions :
       o.man.spec.exemptions[j].key # o.status.exemptions[i].key}

\* The same in the order of the status: i is the kth of them.
Removed(o) ==
  LET nth(k) == CHOOSE i \in Gone(o) : Cardinality({j \in Gone(o) : j <= i}) = k
  IN  [k \in 1..Cardinality(Gone(o)) |-> o.status.exemptions[nth(k)]]

\* After Assignments.Create: reconcileExemptions and reconcileRoleAssignments.
CreatePlan(o) ==
  OpsOver("PutExemption", o.man.spec.exemptions)
  \o OpsOver("DropExemption", Removed(o))
  \o OpsOver("Grant", o.man.spec.permissions)

\* The name of the bound ID, at the scope of the spec.
DeleteRef(o) == [scope |-> o.man.spec.scope, name |-> o.status.id.name]

\* Fault: the inline exemptions are left to Azure.
DeletePlanBare(o) == <<[op |-> "DeleteAssignment", of |-> DeleteRef(o)]>>

\* Delete: the exemptions of the status, the roles of the spec, the assignment.
DeletePlan(o) ==
  OpsOver("DropExemption", o.status.exemptions)
  \o OpsOver("Revoke", o.man.spec.permissions)
  \o <<[op |-> "DeleteAssignment", of |-> DeleteRef(o)]>>

-----------------------------------------------------------------------------
(* From the queue to the first call.                                       *)

IgnoreGone(c) ==
  /\ ~Present(cache[c]) \/ (cache[c].phase = "deleting" /\ ~cache[c].fin)
  /\ ReturnAtOnce(c, FALSE)
  /\ UNCHANGED service

BeginAddFinalizer(c) ==
  /\ cache[c].phase = "live" /\ ~cache[c].fin
  /\ Begin(c, "AddFinalizer", cache[c])
  /\ UNCHANGED service

\* Fault: the clean-up waits for the reference, too.
CleansUpResolved(o) == o.phase = "deleting" /\ o.fin /\ Lookup(o) \in DefinitionIds

CleansUp(o) == o.phase = "deleting" /\ o.fin

\* The import mode is not looked at.
HandleDeletion(c) ==
  LET o == cache[c]
  IN  /\ CleansUp(o)
      /\ IF o.status.id = None
         THEN Begin(c, "RemoveFinalizer", o) /\ UNCHANGED service
         ELSE Begin(c, "Service", o) /\ todo' = DeletePlan(o) /\ UNCHANGED results

\* Both reasons come back: one with an error, one with RequeueAfter.
RejectRef(c) ==
  /\ Managed(cache[c]) /\ Lookup(cache[c]) \notin DefinitionIds
  /\ Begin(c, "StatusUpdate",
           Ready(cache[c], IF Lookup(cache[c]) = "missing" THEN "RefNotFound"
                           ELSE "RefNotReady"))
  /\ UNCHANGED service

\* Fault: a reference that is not ready is taken as it is.
ResolvesUnready(o) == Managed(o) /\ Lookup(o) # "missing"

Resolves(o) == Managed(o) /\ Lookup(o) \in DefinitionIds

\* Fault: the import-id is not compared.
NeverRebinds(o) == FALSE

\* EqualFold: the text does not matter.
Rebinds(o) ==
  /\ o.man.importId # None
  /\ o.status.id # None
  /\ RefOf(o.man.importId) # RefOf(o.status.id)

RejectRebinding(c) ==
  /\ Resolves(cache[c]) /\ Rebinds(cache[c])
  /\ Begin(c, "StatusUpdate", Ready(cache[c], "ImportConflict"))
  /\ UNCHANGED service

BeginImport(c) ==
  /\ Resolves(cache[c]) /\ ~Rebinds(cache[c]) /\ cache[c].man.importId # None
  /\ Begin(c, "Import", WithDefinition(cache[c]))
  /\ UNCHANGED service

\* An unbound assignment is looked up before it is created.
BeginReconcileCreateOrUpdate(c) ==
  /\ Resolves(cache[c]) /\ cache[c].man.importId = None
  /\ Begin(c, IF cache[c].status.id = None THEN "Get" ELSE "Create",
           WithDefinition(cache[c]))
  /\ UNCHANGED service

Reconcile(c) ==
  /\ \/ IgnoreGone(c)
     \/ BeginAddFinalizer(c)
     \/ HandleDeletion(c)
     \/ RejectRef(c)
     \/ RejectRebinding(c)
     \/ BeginImport(c)
     \/ BeginReconcileCreateOrUpdate(c)
  /\ UNCHANGED <<cloud, others, definitions>>

-----------------------------------------------------------------------------
(* The calls of the controller.                                            *)

AddFinalizer(c) ==
  /\ pc[c] = "AddFinalizer"
  /\ WriteAndReturn(c, [copy[c] EXCEPT !.fin = TRUE], FALSE)
  /\ UNCHANGED <<cloud, service>>

\* The API server removes a deleted object with its last finalizer.
RemoveFinalizer(c) ==
  /\ pc[c] = "RemoveFinalizer"
  /\ WriteAndReturn(c, Absent, FALSE)
  /\ UNCHANGED <<cloud, service>>

\* Fault: nothing is requeued.
StatusUpdateAtRest(c) ==
  /\ pc[c] = "StatusUpdate"
  /\ WriteAndReturn(c, [obj[c] EXCEPT !.status = copy[c].status], FALSE)
  /\ UNCHANGED <<cloud, service>>

\* Every path to this call requeues, by RequeueAfter or by an error.
StatusUpdate(c) ==
  /\ pc[c] = "StatusUpdate"
  /\ WriteAndReturn(c, [obj[c] EXCEPT !.status = copy[c].status], TRUE)
  /\ UNCHANGED <<cloud, service>>

\* checkExistingAssignment logs the error of its status update, and nothing
\* is put back in the queue.
ReportExisting(c) ==
  /\ pc[c] = "ReportExisting"
  /\ WriteAndForget(c, [obj[c] EXCEPT !.status = copy[c].status], FALSE)
  /\ UNCHANGED <<cloud, service>>

\* isNotFound looks for "404" anywhere in the text of the error, so a failed
\* lookup may be taken for a free name.
Get(c) ==
  LET o == copy[c]
      r == Target(c, o)
  IN  /\ pc[c] = "Get"
      /\ \/ r \in Refs /\ azure[r] # None /\ UNCHANGED faults
            /\ Continue(c, "ReportExisting", Ready(o, "AlreadyExists"))
         \/ r \in Refs /\ azure[r] = None /\ UNCHANGED faults
            /\ Continue(c, "Create", o)
         \/ r \notin Refs /\ Return(c, TRUE) /\ UNCHANGED <<store, faults>>
         \/ Fault /\ Return(c, TRUE) /\ UNCHANGED store
         \/ r \in Refs /\ Fault /\ Continue(c, "Create", o)
      /\ UNCHANGED <<cloud, service>>

\* Fault: only what is shown is compared.
BodyDrift(live, spec) == IF live.body = spec.body THEN "InSync" ELSE "SpecMismatch"

\* Parameters, metadata, identity and exemptions are not compared.
DriftOf(live, spec) ==
  IF live.body = spec.body /\ live.definition = spec.definition
  THEN "InSync" ELSE "SpecMismatch"

\* The status carries the ID as the annotation writes it.
Imported(o) ==
  LET live == azure[RefOf(o.man.importId)]
  IN  [o EXCEPT !.status.id = o.man.importId,
                !.status.located = @ \/ live.located,
                !.status.drift = DriftOf(live, o.man.spec)]

Import(c) ==
  LET o == copy[c]
      found == azure[RefOf(o.man.importId)] # None
  IN  /\ pc[c] = "Import"
      /\ \/ found /\ o.man.mode \in {None, "observe-only"} /\ UNCHANGED faults
            /\ Continue(c, "StatusUpdate", Ready(Imported(o), "ObservedOnly"))
         \/ found /\ o.man.mode \notin {None, "observe-only"} /\ UNCHANGED faults
            /\ Continue(c, "Create", Imported(o))
         \/ ~found /\ UNCHANGED faults
            /\ Continue(c, "StatusUpdate", Ready(o, "ImportFailed"))
         \/ Fault /\ Continue(c, "StatusUpdate", Ready(o, "ImportFailed"))
      /\ UNCHANGED <<cloud, service>>

-----------------------------------------------------------------------------
(* The calls of the service.                                               *)

GoTo(c, call, o, rest, written) ==
  /\ Continue(c, call, o)
  /\ todo' = rest
  /\ results' = written

\* What is left of CreateOrUpdate.  The status gets the new exemptions when
\* all of them are written and all the removed ones deleted.
Advance(c, o, rest, written) ==
  LET exempt == \E i \in DOMAIN rest : rest[i].op \in {"PutExemption", "DropExemption"}
      p == IF exempt THEN o ELSE [o EXCEPT !.status.exemptions = written]
  IN  IF rest = <<>> THEN GoTo(c, "StatusUpdate", Ready(p, "Reconciled"), <<>>, <<>>)
      ELSE GoTo(c, "Service", p, rest, written)

\* The first call of todo succeeds: the service goes on, or ends.
StepDone(c, written) ==
  LET rest == Tail(todo)
  IN  IF copy[c].phase = "live" THEN Advance(c, copy[c], rest, written)
      ELSE GoTo(c, IF rest = <<>> THEN "RemoveFinalizer" ELSE "Service", copy[c],
                rest, <<>>)

\* Fault: the exemption that failed is skipped, and the rest of the calls too.
StepSkipped(c) ==
  GoTo(c, "StatusUpdate",
       Ready(copy[c], IF copy[c].phase = "live" THEN "Reconciled" ELSE "DeleteFailed"),
       <<>>, <<>>)

\* It fails: the service returns its error, and what is in results is lost.
StepFailed(c) ==
  GoTo(c, "StatusUpdate",
       Ready(copy[c], IF copy[c].phase = "live" THEN "ReconcileFailed"
                      ELSE "DeleteFailed"),
       <<>>, <<>>)

Doing(c, op) == pc[c] = "Service" /\ Head(todo).op = op

\* Azure refuses to take the location away from an assignment that has one.
Refused(c, o) ==
  LET live == azure[Target(c, o)]
  IN  live # None /\ live.located /\ ~Assignment(c, o).located

Bound(c, o) ==
  LET r == Target(c, o)
  IN  [o EXCEPT !.status.id = [scope |-> r.scope, name |-> r.name, text |-> "canonical"],
                !.status.located = Assignment(c, o).located]

\* Assignments.Create.  A failed call may have been applied.
Create(c) ==
  LET o == copy[c]
      r == Target(c, o)
      accepted == r \in Refs /\ ~Refused(c, o)
      written == [azure EXCEPT ![r] = Assignment(c, o)]
      failed == GoTo(c, "StatusUpdate", Ready(o, "ReconcileFailed"), <<>>, <<>>)
  IN  /\ pc[c] = "Create"
      /\ \/ accepted /\ azure' = written /\ UNCHANGED faults
            /\ Advance(c, Bound(c, o), CreatePlan(Bound(c, o)), <<>>)
         \/ accepted /\ azure' \in {azure, written} /\ failed /\ Fault
         \/ ~accepted /\ failed /\ UNCHANGED <<azure, faults>>
      /\ UNCHANGED <<exempted, granted>>

ExemptionId(t) == [scope |-> t.scope, uuid |-> t.uuid]

\* Names nobody holds: not in Azure, not in a status, a cache or a copy.
NewUuids ==
  {u \in Uuids :
     /\ \A s \in Scopes : exempted[[scope |-> s, uuid |-> u]] = None
     /\ \A i \in DOMAIN results : results[i].uuid # u
     /\ \A c \in CRs : \A o \in {obj[c], cache[c], copy[c]} :
          Present(o) => \A i \in DOMAIN o.status.exemptions :
                          o.status.exemptions[i].uuid # u}

\* The entries of the status with this display name; the last one counts.
Known(o, key) ==
  {i \in DOMAIN o.status.exemptions : o.status.exemptions[i].key = key}

\* The names an exemption may get.  New ones are interchangeable.
NamesFor(o, key) ==
  IF Known(o, key) # {} THEN {o.status.exemptions[Max(Known(o, key))].uuid}
  ELSE IF NewUuids = {} THEN {}
  ELSE {CHOOSE u \in NewUuids : TRUE}

\* The quota is used up when there is no new name.
PutExemption(c) ==
  LET e == Head(todo).of
      names == NamesFor(copy[c], e.key)
      t(u) == [key |-> e.key, scope |-> e.scope, uuid |-> u]
      exemption == [of |-> RefOf(copy[c].status.id), key |-> e.key, by |-> c]
      written(u) == [exempted EXCEPT ![ExemptionId(t(u))] = exemption]
  IN  /\ Doing(c, "PutExemption")
      /\ \/ \E u \in names : /\ exempted' = written(u) /\ UNCHANGED faults
                             /\ StepDone(c, Append(results, t(u)))
         \/ /\ exempted' \in {exempted} \cup {written(u) : u \in names}
            /\ StepFailed(c) /\ Fault
         \/ names = {} /\ StepFailed(c) /\ UNCHANGED <<exempted, faults>>
      /\ UNCHANGED <<azure, granted>>

\* The name and the scope of the status.  Deleting what is not there succeeds.
DropExemption(c) ==
  LET deleted == [exempted EXCEPT ![ExemptionId(Head(todo).of)] = None]
  IN  /\ Doing(c, "DropExemption")
      /\ \/ exempted' = deleted /\ StepDone(c, results) /\ UNCHANGED faults
         \/ exempted' \in {exempted, deleted} /\ StepFailed(c) /\ Fault
      /\ UNCHANGED <<azure, granted>>

\* The role assignment that belongs to the bound ID as it is written there.
GrantOf(o, p) == [id |-> o.status.id, permission |-> p, role |-> roles[p]]

\* A role name is looked up by a list call of its own right before the role
\* assignment is written or deleted.  The lookup changes nothing, so it is part
\* of that action.
RoleFound(p) == roles[p] # None

\* A role that is not found is an error, as much as a call that fails.
Grant(c) ==
  LET p == Head(todo).of
      after == granted \cup {GrantOf(copy[c], p)}
  IN  /\ Doing(c, "Grant")
      /\ \/ RoleFound(p) /\ granted' = after /\ StepDone(c, results) /\ UNCHANGED faults
         \/ RoleFound(p) /\ granted' \in {granted, after} /\ StepFailed(c) /\ Fault
         \/ ~RoleFound(p) /\ StepFailed(c) /\ UNCHANGED <<granted, faults>>
      /\ UNCHANGED <<azure, exempted>>

\* The name is looked up again: the deletion of the object does not get past a
\* role that is not found.
Revoke(c) ==
  LET p == Head(todo).of
      after == granted \ {GrantOf(copy[c], p)}
  IN  /\ Doing(c, "Revoke")
      /\ \/ RoleFound(p) /\ granted' = after /\ StepDone(c, results) /\ UNCHANGED faults
         \/ RoleFound(p) /\ granted' \in {granted, after} /\ StepFailed(c) /\ Fault
         \/ ~RoleFound(p) /\ StepFailed(c) /\ UNCHANGED <<granted, faults>>
      /\ UNCHANGED <<azure, exempted>>

DeleteAssignment(c) ==
  LET deleted == [azure EXCEPT ![Head(todo).of] = None]
  IN  /\ Doing(c, "DeleteAssignment")
      /\ \/ azure' = deleted /\ StepDone(c, results) /\ UNCHANGED faults
         \/ azure' \in {azure, deleted} /\ StepFailed(c) /\ Fault
      /\ UNCHANGED <<exempted, granted>>

Call(c) ==
  /\ \/ AddFinalizer(c)
     \/ RemoveFinalizer(c)
     \/ Import(c)
     \/ Get(c)
     \/ Create(c)
     \/ PutExemption(c)
     \/ DropExemption(c)
     \/ Grant(c)
     \/ Revoke(c)
     \/ DeleteAssignment(c)
     \/ StatusUpdate(c)
     \/ ReportExisting(c)
  /\ UNCHANGED <<others, definitions>>

-----------------------------------------------------------------------------
(* The definitions and everybody else.                                     *)

\* The definition controller and its users: a definition appears, is bound,
\* goes away, or comes back with another ID.
DefinitionChanges(d) ==
  /\ portal + defChanges < MaxOutside
  /\ \E s \in DefinitionStates \ {defined[d]} : defined' = [defined EXCEPT ![d] = s]
  /\ defChanges' = defChanges + 1
  /\ UNCHANGED <<runtimeVars, cloud, service, others, seen>>

\* The watch on definitions delivers, and enqueues the assignments in the
\* cache that refer to the definition.
WatchDefinition(d) ==
  /\ seen[d] # defined[d]
  /\ seen' = [seen EXCEPT ![d] = defined[d]]
  /\ queue' = queue \cup {c \in CRs : Present(cache[c]) /\ cache[c].man.spec.ref = d}
  /\ UNCHANGED <<store, pc, copy, fresh, edits, faults, cloud, service, others>>
  /\ UNCHANGED <<defined, defChanges>>

\* Somebody else edits or deletes an assignment, deletes an exemption, or
\* renames, deletes or creates a role definition.
Portal ==
  /\ portal + defChanges < MaxOutside
  /\ \/ \E r \in Refs :
          /\ azure[r] # None
          /\ \E a \in {None} \cup {[azure[r] EXCEPT !.body = b] : b \in Bodies} :
               a # azure[r] /\ azure' = [azure EXCEPT ![r] = a]
          /\ UNCHANGED <<exempted, roles>>
     \/ \E e \in ExemptionIds :
          /\ exempted[e] # None
          /\ exempted' = [exempted EXCEPT ![e] = None]
          /\ UNCHANGED <<azure, roles>>
     \/ \E p \in ByName, r \in RoleIds \cup {None} :
          /\ r # roles[p]
          /\ roles' = [roles EXCEPT ![p] = r]
          /\ UNCHANGED <<azure, exempted>>
  /\ portal' = portal + 1
  /\ UNCHANGED <<runtimeVars, granted, service, definitions>>

\* What the service holds in memory is gone.
CrashAll ==
  /\ Crash
  /\ todo' = <<>> /\ results' = <<>>
  /\ seen' = defined
  /\ UNCHANGED <<cloud, others, defined, defChanges>>

SyncObject(c) == Sync(c) /\ UNCHANGED <<cloud, service, others, definitions>>

Environment ==
  \/ User(NoStatus) /\ UNCHANGED <<cloud, service, others, definitions>>
  \/ CrashAll
  \/ \E c \in CRs : SyncObject(c)
  \/ \E c \in CRs : Resync(c) /\ UNCHANGED <<cloud, service, others, definitions>>
  \/ \E d \in Definitions : DefinitionChanges(d) \/ WatchDefinition(d)
  \/ Portal

Next == Environment \/ \E c \in CRs : Reconcile(c) \/ Call(c)

\* The watches deliver, a call returns, and the queue serves every key in
\* turn.
Fairness ==
  /\ \A c \in CRs : WF_vars(SyncObject(c)) /\ WF_vars(Call(c)) /\ SF_vars(Reconcile(c))
  /\ \A d \in Definitions : WF_vars(WatchDefinition(d))

Spec == Init /\ [][Next]_vars

FairSpec == Spec /\ Fairness

-----------------------------------------------------------------------------
(* Safety.                                                                 *)

TypeOK ==
  /\ RuntimeTypeOK(Objects, Calls)
  /\ azure \in [Refs -> Resources \cup {None}]
  /\ exempted \in [ExemptionIds -> Exemptions \cup {None}]
  /\ granted \subseteq Grants
  /\ roles \in [Permissions -> RoleIds \cup {None}]
  /\ \A i \in DOMAIN todo : todo[i].of \in ArgsOf[todo[i].op]
  /\ results \in Seq(Tracked)
  /\ portal \in 0..MaxOutside
  /\ defined \in [Definitions -> DefinitionStates]
  /\ seen \in [Definitions -> DefinitionStates]
  /\ defChanges \in 0..MaxOutside

\* Every exemption that the spec lists is tracked, and exempts the assignment.
ExemptionsInPlace(c, o) ==
  \A i \in DOMAIN o.man.spec.exemptions :
    LET e == o.man.spec.exemptions[i]
    IN  \E j \in DOMAIN o.status.exemptions :
          /\ o.status.exemptions[j].key = e.key
          /\ o.status.exemptions[j].scope = e.scope
          /\ exempted[ExemptionId(o.status.exemptions[j])]
               = [of |-> RefOf(o.status.id), key |-> e.key, by |-> c]

PermissionsInPlace(o) ==
  \A i \in DOMAIN o.man.spec.permissions :
    GrantOf(o, o.man.spec.permissions[i]) \in granted

\* A live object that reports Reconciled for generation g has its assignment
\* in Azure, written by this object from generation g or a later one; if g is
\* the current generation, every inline exemption and every role assignment
\* of the spec is there, under the ID in the status (nobody else writing, the
\* role definitions as they were).
ReconciledIsComplete ==
  \A c \in CRs :
    LET o == obj[c]
    IN  portal = 0 /\ o.phase = "live" /\ o.status.ready = "Reconciled"
        => LET a == azure[RefOf(o.status.id)]
           IN  /\ a # None /\ a.by = c /\ a.gen >= o.status.observed
               /\ o.status.observed = o.gen
                    => ExemptionsInPlace(c, o) /\ PermissionsInPlace(o)

-----------------------------------------------------------------------------
(* The life of an object and of what it has in Azure.                      *)

\* The assignment, an inline exemption or a role assignment that a bound
\* object has in Azure, its scope unchanged and nobody else writing.
Owes(o) ==
  /\ portal = 0
  /\ HasId(o)
  /\ DeleteRef(o) = RefOf(o.status.id)
  /\ \/ azure[RefOf(o.status.id)] # None
     \/ \E i \in DOMAIN o.status.exemptions :
          exempted[ExemptionId(o.status.exemptions[i])] # None
     \/ \E i \in DOMAIN o.man.spec.permissions :
          GrantOf(o, o.man.spec.permissions[i]) \in granted

Managing == INSTANCE ManagedResource WITH
  stage <- [c \in CRs |-> Stage(obj[c])],
  work <- [c \in CRs |-> Work(pc[c], copy[c])],
  bound <- [c \in CRs |-> HasId(obj[c])],
  owed <- [c \in CRs |-> Owes(obj[c])]

\* The controller implements ManagedResource: no write to Azure and no
\* binding without the finalizer, no clean-up of a guarded object by a stale
\* reconcile, and no end before the assignment, its inline exemptions and its
\* role assignments are deleted.
Lifecycle == Managing!Spec

\* The random name of an inline exemption leaves the status, or goes with the
\* object, only when the exemption has left Azure.
TrackedUntilGone ==
  [][\A c \in CRs :
       Present(obj[c]) =>
         \A i \in DOMAIN obj[c].status.exemptions :
           LET t == obj[c].status.exemptions[i]
           IN  \/ exempted[ExemptionId(t)] = None
               \/ /\ Present(obj'[c])
                  /\ \E j \in DOMAIN obj'[c].status.exemptions :
                       obj'[c].status.exemptions[j].uuid = t.uuid]_vars

\* A bound object keeps the name it is bound to, whatever its annotations say
\* later and however old the copy is that a reconcile works on.
KeepsItsName ==
  [][\A c \in CRs :
       /\ Present(obj[c]) /\ obj[c].status.id # None
       /\ Present(obj'[c]) /\ obj'[c].status.id # None
       => obj'[c].status.id.name = obj[c].status.id.name]_vars

\* No step of a reconcile that imports as observe-only changes Azure, the
\* deletion of the object included.
ObserveOnlyReads ==
  [][\A c \in CRs :
       /\ pc'[c] # pc[c]
       /\ Present(copy[c]) /\ copy[c].man.importId # None
       /\ copy[c].man.mode = "observe-only"
       => cloud' = cloud]_vars

\* A status that a reconcile stores lists every inline exemption that the
\* object has in Azure, also when the reconcile failed half way.
StatusTracksExemptions ==
  [][\A c \in CRs :
       /\ pc[c] = "StatusUpdate" /\ pc'[c] = "idle" /\ obj'[c] # obj[c]
       => \A e \in ExemptionIds :
            exempted[e] # None /\ exempted[e].by = c
            => \E i \in DOMAIN obj'[c].status.exemptions :
                 ExemptionId(obj'[c].status.exemptions[i]) = e]_vars

-----------------------------------------------------------------------------
(* Liveness, under FairSpec.                                               *)

AllRolesFound(o) == \A i \in DOMAIN o.man.spec.permissions : RoleFound(o.man.spec.permissions[i])

\* A deleted object goes away, once the failures stop, even when the
\* definition it refers to is gone.  Excepted: a bound object with a role name
\* that is not found, whose clean-up fails until the role is there.
DeletionCompletes ==
  \A c \in CRs :
    []<>(obj[c].phase = "deleting" => HasId(obj[c]) /\ ~AllRolesFound(obj[c]))

\* The ID that the reference of o stands for, or why there is none.
Current(o) == IF o.man.spec.ref = None THEN o.man.spec.definition ELSE defined[o.man.spec.ref]

\* Bound, resolved and without an import conflict.
Settled(o) ==
  /\ Managed(o) /\ o.status.id # None /\ Current(o) \in DefinitionIds
  /\ o.man.importId # None => RefOf(o.man.importId) = RefOf(o.status.id)

\* When users, definitions and the portal stop, the assignment of every bound
\* object that is not observed is in Azure as the spec says, with its
\* exemptions and permissions.  Excepted: an import that somebody else
\* deleted, a location Azure will not give up, an exhausted quota, and a role
\* name that is not found.
DriftHeals ==
  \A c \in CRs :
    <>[](LET o == obj[c]
             a == azure[RefOf(o.status.id)]
         IN  /\ Settled(o)
             /\ o.man.importId # None => o.man.mode \in {"reconcile", "adopt-once"} /\ a # None
             /\ ~Refused(c, o)
             /\ AllRolesFound(o)
             /\ \A i \in DOMAIN o.man.spec.exemptions :
                  NamesFor(o, o.man.spec.exemptions[i].key) # {}
             => /\ a # None
                /\ a.body = o.man.spec.body /\ a.definition = Current(o)
                /\ ExemptionsInPlace(c, o) /\ PermissionsInPlace(o))

\* When they stop, every observed object reports whether its assignment in
\* Azure has the definition and the body of the spec.
DriftIsReported ==
  \A c \in CRs :
    <>[](LET o == obj[c]
             a == azure[RefOf(o.status.id)]
         IN  /\ Settled(o) /\ a # None
             /\ o.man.importId # None /\ o.man.mode \in {None, "observe-only"}
             => (o.status.drift = "InSync"
                   <=> a.body = o.man.spec.body /\ a.definition = Current(o)))
=============================================================================
