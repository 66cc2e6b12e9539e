--------------------------- MODULE PolicyInitiative ---------------------------
(***************************************************************************)
(* The AzurePolicyInitiative controller and the policybundle service.  An  *)
(* initiative lists policy definitions, by ID or by reference to an        *)
(* AzurePolicyDefinition of its namespace; the references are resolved     *)
(* before anything else, the import included, and an event of a definition *)
(* enqueues the initiatives that refer to it.                              *)
(***************************************************************************)
EXTENDS ControllerRuntime, Sequences

CONSTANTS
  Names,          \* Azure names (also the values of metadata.name)
  Subs, MGs,      \* subscriptions and management groups
  OperatorSub,    \* AZURE_SUBSCRIPTION_ID of the operator
  NameOf,         \* NameOf[c]: metadata.name of c, without its namespace
  Definitions,    \* the names of AzurePolicyDefinition objects
  DefinitionIds,  \* resource IDs of policy definitions
  Heads,          \* displayName and description
  Versions,       \* version, metadata and parameters
  AzureInit,      \* the initiatives Azure holds at the start
  MaxOutside      \* bound on the changes made by others, in Azure and of
                  \* the referenced definitions

VARIABLES
  azure,       \* azure[r]: the initiative at r, or None
  portal,      \* changes made in Azure by others so far
  defined,     \* defined[d]: the ID in the stored status of d, or why not
  seen,        \* seen[d]: the same, as the informer last delivered it
  defChanges   \* changes of defined so far

initiatives == <<azure, portal>>
definitions == <<defined, seen, defChanges>>
vars == <<runtimeVars, initiatives, definitions>>

Refs == [scope : Subs \cup MGs, name : Names]

\* Any other text is imported like "reconcile", under the name of the object.
Modes == {None, "observe-only", "reconcile", "adopt-once", "other"}

\* A member is the name of an AzurePolicyDefinition or the ID of a definition.
Specs == [mg : MGs \cup {None}, head : Heads, version : Versions,
          members : Seq(Definitions \cup DefinitionIds)]

\* The import-id is compared without case: its text does not matter.
Manifests == [spec : Specs, importId : Refs \cup {None},
              importName : Names \cup {None}, mode : Modes]

Reasons == {None, "Reconciled", "AppliedOnce", "ObservedOnly", "ImportConflict",
            "ImportFailed", "AlreadyExists", "ReconcileFailed", "DeleteFailed",
            "RefNotFound", "RefNotReady"}

Statuses == [id : Refs \cup {None}, applied : Versions \cup {None},
             ready : Reasons, observed : Nat,
             drift : {None, "SpecMismatch", "InSync"}]

NoStatus == [id |-> None, applied |-> None, ready |-> None, observed |-> 0,
             drift |-> None]

Objects == ObjectsOf(Manifests, Statuses)

\* by and gen are ghosts: who wrote the initiative last, from which generation.
Resources == [head : Heads, version : Versions, members : Seq(DefinitionIds),
              by : CRs \cup {None}, gen : Nat]

Calls == {"idle", "AddFinalizer", "RemoveFinalizer", "Delete", "Import", "Get",
          "CreateOrUpdate", "StatusUpdate"}

DefinitionStates == {"missing", "notReady"} \cup DefinitionIds

ASSUME ConstantsAssumption ==
  /\ OperatorSub \in Subs
  /\ NameOf \in [CRs -> Names]
  /\ \A c \in CRs : Offers[c] \subseteq Manifests
  /\ AzureInit \in [Refs -> Resources \cup {None}]
  /\ MaxOutside \in Nat
  /\ Definitions \cap DefinitionIds = {}
  /\ {"missing", "notReady"} \cap DefinitionIds = {}

\* A missing value is not taken for one that is there.
ASSUME NoneAssumption ==
  /\ None \notin Refs /\ None \notin Names /\ None \notin Resources
  /\ None \notin {"Reconciled", "AppliedOnce", "ObservedOnly"}

Init ==
  /\ RuntimeInit
  /\ azure = AzureInit /\ portal = 0
  /\ defined \in [Definitions -> DefinitionStates]
  /\ seen = defined
  /\ defChanges = 0

-----------------------------------------------------------------------------
(* Names and references.                                                   *)

TargetScope(m) == IF m.spec.mg # None THEN m.spec.mg ELSE OperatorSub

TargetName(c, m) ==
  IF m.mode \in {"reconcile", "adopt-once"} THEN m.importName ELSE NameOf[c]

\* Not in Refs when import-name is missing: the client then refuses the call.
Target(c, m) == [scope |-> TargetScope(m), name |-> TargetName(c, m)]

\* The subscription of an import-id is not looked at.
ImportRef(id) ==
  [scope |-> IF id.scope \in MGs THEN id.scope ELSE OperatorSub, name |-> id.name]

\* The name of the bound ID, at the scope of the current spec.
DeleteRef(o) == [scope |-> TargetScope(o.man), name |-> o.status.id.name]

RefersTo(o, d) == \E i \in DOMAIN o.man.spec.members : o.man.spec.members[i] = d

\* What the cache says of a member: an ID, or why there is none.
Lookup(m) == IF m \in Definitions THEN seen[m] ELSE m

Resolved(o) == [i \in DOMAIN o.man.spec.members |-> Lookup(o.man.spec.members[i])]

\* The entries that have no ID.
Pending(o) == {i \in DOMAIN o.man.spec.members : Resolved(o)[i] \notin DefinitionIds}

\* The first of them ends the resolution.
RefReason(o) ==
  LET i == CHOOSE i \in Pending(o) : \A j \in Pending(o) : i <= j
  IN  IF Resolved(o)[i] = "missing" THEN "RefNotFound" ELSE "RefNotReady"

Initiative(c, o, members) ==
  [head |-> o.man.spec.head, version |-> o.man.spec.version, members |-> members,
   by |-> c, gen |-> o.gen]

Ready(o, reason) ==
  [o EXCEPT !.status.ready = reason, !.status.observed = o.gen]

\* The copy a reconcile works on carries the IDs; only its status is stored.
WithIds(o) == [o EXCEPT !.man.spec.members = Resolved(o)]

-----------------------------------------------------------------------------
(* From the queue to the first call.                                       *)

IgnoreGone(c) ==
  /\ ~Present(cache[c]) \/ (cache[c].phase = "deleting" /\ ~cache[c].fin)
  /\ ReturnAtOnce(c, FALSE)

BeginAddFinalizer(c) ==
  /\ cache[c].phase = "live" /\ ~cache[c].fin
  /\ Begin(c, "AddFinalizer", cache[c])

\* Fault: the clean-up waits for the references, too.
CleansUpResolved(o) == o.phase = "deleting" /\ o.fin /\ Pending(o) = {}

CleansUp(o) == o.phase = "deleting" /\ o.fin

\* Only the literal value releases the resource, not the default mode.
Releases(o) == o.man.mode = "observe-only" \/ o.status.id = None

HandleDeletion(c) ==
  /\ CleansUp(cache[c])
  /\ Begin(c, IF Releases(cache[c]) THEN "RemoveFinalizer" ELSE "Delete", cache[c])

RejectRefs(c) ==
  /\ Managed(cache[c])
  /\ Pending(cache[c]) # {}
  /\ Begin(c, "StatusUpdate", Ready(cache[c], RefReason(cache[c])))

\* Fault: a reference that is not ready is taken as it is.
ResolvedButMissing(o) == \A i \in Pending(o) : Resolved(o)[i] = "notReady"

AllResolved(o) == Pending(o) = {}

Rebinds(o) ==
  /\ o.man.importId # None
  /\ o.status.id # None
  /\ o.man.importId # o.status.id

AppliedOnce(o) ==
  /\ o.man.importId # None
  /\ o.man.mode = "adopt-once"
  /\ o.status.ready = "AppliedOnce"

RejectRebinding(c) ==
  /\ Managed(cache[c]) /\ AllResolved(cache[c])
  /\ Rebinds(cache[c])
  /\ Begin(c, "StatusUpdate", Ready(cache[c], "ImportConflict"))

SkipApplied(c) ==
  /\ Managed(cache[c]) /\ AllResolved(cache[c])
  /\ ~Rebinds(cache[c]) /\ AppliedOnce(cache[c])
  /\ ReturnAtOnce(c, TRUE)

BeginImport(c) ==
  /\ Managed(cache[c]) /\ AllResolved(cache[c])
  /\ cache[c].man.importId # None
  /\ ~Rebinds(cache[c]) /\ ~AppliedOnce(cache[c])
  /\ Begin(c, "Import", WithIds(cache[c]))

\* An unbound initiative is looked up before it is created.
BeginReconcileInitiative(c) ==
  /\ Managed(cache[c]) /\ AllResolved(cache[c])
  /\ cache[c].man.importId = None
  /\ Begin(c, IF cache[c].status.id = None THEN "Get" ELSE "CreateOrUpdate",
           WithIds(cache[c]))

Reconcile(c) ==
  /\ \/ IgnoreGone(c)
     \/ BeginAddFinalizer(c)
     \/ HandleDeletion(c)
     \/ RejectRefs(c)
     \/ RejectRebinding(c)
     \/ SkipApplied(c)
     \/ BeginImport(c)
     \/ BeginReconcileInitiative(c)
  /\ UNCHANGED <<initiatives, definitions>>

-----------------------------------------------------------------------------
(* The calls.                                                              *)

AddFinalizer(c) ==
  /\ pc[c] = "AddFinalizer"
  /\ WriteAndReturn(c, [copy[c] EXCEPT !.fin = TRUE], FALSE)
  /\ UNCHANGED initiatives

\* The API server removes a deleted object with its last finalizer.
RemoveFinalizer(c) ==
  /\ pc[c] = "RemoveFinalizer"
  /\ WriteAndReturn(c, Absent, FALSE)
  /\ UNCHANGED initiatives

\* Every path that ends with Status().Update requeues, by RequeueAfter or by
\* the error it returns.
StatusUpdate(c) ==
  /\ pc[c] = "StatusUpdate"
  /\ WriteAndReturn(c, [obj[c] EXCEPT !.status = copy[c].status], TRUE)
  /\ UNCHANGED initiatives

\* Deleting what is not there succeeds.  A failed call may have been applied.
Delete(c) ==
  LET deleted == [azure EXCEPT ![DeleteRef(copy[c])] = None]
  IN  /\ pc[c] = "Delete"
      /\ \/ azure' = deleted
            /\ Continue(c, "RemoveFinalizer", copy[c])
            /\ UNCHANGED faults
         \/ azure' \in {azure, deleted}
            /\ Continue(c, "StatusUpdate", Ready(copy[c], "DeleteFailed"))
            /\ Fault
      /\ UNCHANGED portal

\* Fault: two lists of the same length are taken to be equal.
SameLength(live, ids) == Len(live) # Len(ids)

\* Position by position, in the case they are written in.
HasDefinitionDrift(live, ids) == live # ids

DriftOf(live, spec) ==
  IF live.head # spec.head \/ HasDefinitionDrift(live.members, spec.members)
  THEN "SpecMismatch" ELSE "InSync"

\* Fault: the drift condition is set by the first import only.
ImportedOnce(o) ==
  [o EXCEPT !.status.id = o.man.importId,
            !.status.drift =
              IF @ = None THEN DriftOf(azure[ImportRef(o.man.importId)], o.man.spec) ELSE @]

Imported(o) ==
  [o EXCEPT !.status.id = o.man.importId,
            !.status.drift = DriftOf(azure[ImportRef(o.man.importId)], o.man.spec)]

Import(c) ==
  LET o == copy[c]
      found == azure[ImportRef(o.man.importId)] # None
  IN  /\ pc[c] = "Import"
      /\ \/ found /\ o.man.mode \in {None, "observe-only"} /\ UNCHANGED faults
            /\ Continue(c, "StatusUpdate", Ready(Imported(o), "ObservedOnly"))
         \/ found /\ o.man.mode \notin {None, "observe-only"} /\ UNCHANGED faults
            /\ Continue(c, "CreateOrUpdate", Imported(o))
         \/ ~found /\ UNCHANGED faults
            /\ Continue(c, "StatusUpdate", Ready(o, "ImportFailed"))
         \/ Fault /\ Continue(c, "StatusUpdate", Ready(o, "ImportFailed"))
      /\ UNCHANGED initiatives

\* checkExistingInitiative.  isNotFound looks for "404" anywhere in the text
\* of the error, so a failed lookup may be taken for a free name.
Get(c) ==
  LET r == Target(c, copy[c].man)
  IN  /\ pc[c] = "Get"
      /\ \/ r \in Refs /\ azure[r] # None /\ UNCHANGED faults
            /\ Continue(c, "StatusUpdate", Ready(copy[c], "AlreadyExists"))
         \/ r \in Refs /\ azure[r] = None /\ UNCHANGED faults
            /\ Continue(c, "CreateOrUpdate", copy[c])
         \/ r \notin Refs /\ Return(c, TRUE) /\ UNCHANGED <<store, faults>>
         \/ Fault /\ Return(c, TRUE) /\ UNCHANGED store
         \/ r \in Refs /\ Fault /\ Continue(c, "CreateOrUpdate", copy[c])
      /\ UNCHANGED initiatives

Applied(c, o) ==
  Ready([o EXCEPT !.status.id = Target(c, o.man), !.status.applied = o.man.spec.version],
        IF o.man.mode = "adopt-once" THEN "AppliedOnce" ELSE "Reconciled")

\* Fault: the error is dropped.
FailureIgnored(c, o) == Applied(c, o)

ReconcileFailed(c, o) == Ready(o, "ReconcileFailed")

\* A failed call may have been applied.
CreateOrUpdate(c) ==
  LET o == copy[c]
      r == Target(c, o.man)
      written == [azure EXCEPT ![r] = Initiative(c, o, o.man.spec.members)]
  IN  /\ pc[c] = "CreateOrUpdate"
      /\ \/ r \in Refs /\ azure' = written /\ UNCHANGED faults
            /\ Continue(c, "StatusUpdate", Applied(c, o))
         \/ r \in Refs /\ azure' \in {azure, written} /\ Fault
            /\ Continue(c, "StatusUpdate", ReconcileFailed(c, o))
         \/ r \notin Refs /\ UNCHANGED <<azure, faults>>
            /\ Continue(c, "StatusUpdate", ReconcileFailed(c, o))
      /\ UNCHANGED portal

Call(c) ==
  /\ \/ AddFinalizer(c)
     \/ RemoveFinalizer(c)
     \/ Delete(c)
     \/ Import(c)
     \/ Get(c)
     \/ CreateOrUpdate(c)
     \/ StatusUpdate(c)
  /\ UNCHANGED definitions

-----------------------------------------------------------------------------
(* The definitions and everybody else.                                     *)

\* The definition controller and its users: a definition appears, is bound,
\* goes away, or comes back with another ID.
DefinitionChanges(d) ==
  /\ portal + defChanges < MaxOutside
  /\ \E s \in DefinitionStates \ {defined[d]} : defined' = [defined EXCEPT ![d] = s]
  /\ defChanges' = defChanges + 1
  /\ UNCHANGED <<runtimeVars, initiatives, seen>>

\* The initiatives in the cache that refer to the definition.
Referring(d) == {c \in CRs : Present(cache[c]) /\ RefersTo(cache[c], d)}

\* The watch on definitions delivers, and enqueues them.
WatchDefinition(d) ==
  /\ seen[d] # defined[d]
  /\ seen' = [seen EXCEPT ![d] = defined[d]]
  /\ queue' = queue \cup Referring(d)
  /\ UNCHANGED <<store, pc, copy, fresh, edits, faults, initiatives, defined, defChanges>>

\* Somebody else creates, edits or deletes an initiative in Azure.
Portal(r) ==
  /\ portal + defChanges < MaxOutside
  /\ \E i \in {None} \cup {[AzureInit[r] EXCEPT !.version = v] :
                             v \in IF AzureInit[r] = None THEN {} ELSE Versions} :
       i # azure[r] /\ azure' = [azure EXCEPT ![r] = i]
  /\ portal' = portal + 1
  /\ UNCHANGED <<runtimeVars, definitions>>

SyncObject(c) == Sync(c) /\ UNCHANGED <<initiatives, definitions>>

Environment ==
  \/ User(NoStatus) /\ UNCHANGED <<initiatives, definitions>>
  \/ Crash /\ seen' = defined /\ UNCHANGED <<initiatives, defined, defChanges>>
  \/ \E c \in CRs : SyncObject(c)
  \/ \E c \in CRs : Resync(c) /\ UNCHANGED <<initiatives, definitions>>
  \/ \E d \in Definitions : DefinitionChanges(d) \/ WatchDefinition(d)
  \/ \E r \in Refs : Portal(r)

Next == Environment \/ \E c \in CRs : Reconcile(c) \/ Call(c)

Spec == Init /\ [][Next]_vars

-----------------------------------------------------------------------------
(* Safety.                                                                 *)

TypeOK ==
  /\ RuntimeTypeOK(Objects, Calls)
  /\ azure \in [Refs -> Resources \cup {None}]
  /\ portal \in 0..MaxOutside
  /\ defined \in [Definitions -> DefinitionStates]
  /\ seen \in [Definitions -> DefinitionStates]
  /\ defChanges \in 0..MaxOutside

\* A live object that reports Reconciled or AppliedOnce for generation g has
\* its initiative in Azure, written by this object, from generation g or a
\* later one, as long as nobody else wrote there.
StatusNotAhead ==
  \A c \in CRs :
    /\ portal = 0
    /\ obj[c].phase = "live" /\ obj[c].status.ready \in {"Reconciled", "AppliedOnce"}
    => LET i == azure[ImportRef(obj[c].status.id)]
       IN  i # None /\ i.by = c /\ i.gen >= obj[c].status.observed

\* A DriftDetected=False (InSync) condition of the current generation means
\* that the initiative in Azure has the displayName and description of the spec
\* and, in their order, the definitions that its references stand for (nobody
\* else writing, the definitions as they were).
InSyncIsCurrent ==
  \A c \in CRs :
    LET o == obj[c]
        i == azure[ImportRef(o.status.id)]
    IN  /\ portal = 0 /\ defChanges = 0
        /\ o.phase = "live" /\ o.status.observed = o.gen
        /\ o.status.ready = "ObservedOnly" /\ o.status.drift = "InSync"
        => i.head = o.man.spec.head /\ i.members = Resolved(o)

\* A reconcile of an object that is imported with adopt-once does not write to
\* Azure when it has read from the cache that a version is applied.
AppliesOnce ==
  [][\A c \in CRs :
       /\ Present(copy[c]) /\ copy[c].status.applied # None
       /\ \A m \in Offers[c] : m.importId # None /\ m.mode = "adopt-once"
       => ~(pc[c] = "CreateOrUpdate" /\ azure' # azure)]_vars

-----------------------------------------------------------------------------
(* The life of an object and of what it has in Azure.                      *)

\* The initiative that a bound object has in Azure, unless it says
\* observe-only (its scope unchanged, nobody else writing).
Owes(o) ==
  /\ portal = 0
  /\ HasId(o) /\ o.man.mode # "observe-only"
  /\ DeleteRef(o) = ImportRef(o.status.id)
  /\ azure[ImportRef(o.status.id)] # None

Managing == INSTANCE ManagedResource WITH
  stage <- [c \in CRs |-> Stage(obj[c])],
  work <- [c \in CRs |-> Work(pc[c], copy[c])],
  bound <- [c \in CRs |-> HasId(obj[c])],
  owed <- [c \in CRs |-> Owes(obj[c])]

\* The controller implements ManagedResource: no write to Azure and no
\* binding without the finalizer, no clean-up of a guarded object by a stale
\* reconcile, and no end before the initiative is deleted.
Lifecycle == Managing!Spec
=============================================================================
