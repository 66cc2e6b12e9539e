--------------------------- MODULE PolicyDefinition ---------------------------
(***************************************************************************)
(* The AzurePolicyDefinition controller and the policydefinition service:  *)
(* one custom resource per definition, a finalizer, a status that binds it *)
(* to an Azure resource ID, and the import annotations that adopt a        *)
(* definition that is already in Azure.                                    *)
(*                                                                         *)
(* A reconcile is a straight line of remote calls; between two of them the *)
(* user, another tool in Azure, the informer or a crash may step in, so    *)
(* every call is an action of its own and the code between two calls       *)
(* belongs to the action before it.                                        *)
(***************************************************************************)
EXTENDS ControllerRuntime

CONSTANTS
  Names,        \* Azure names (also the values of metadata.name)
  Subs, MGs,    \* subscriptions and management groups
  OperatorSub,  \* AZURE_SUBSCRIPTION_ID of the operator
  NameOf,       \* NameOf[c]: metadata.name of c, without its namespace
  Heads,        \* displayName, description and mode
  Versions,     \* version, metadata, parameters, type and rule
  AzureInit,    \* the definitions Azure holds at the start
  MaxPortal,    \* bound on the changes made in Azure by others
  Misreads      \* the text of an ARM error that is not a 404 may contain "404"

VARIABLES
  azure,        \* azure[r]: the definition at r, or None
  portal        \* changes made in Azure by others so far

vars == <<runtimeVars, azure, portal>>

Scopes == Subs \cup MGs

Refs == [scope : Scopes, name : Names]

\* The text of a resource ID.  Azure answers with canonical text; a user may
\* write the same ID in another case.
Ids == [scope : Scopes, name : Names, text : {"canonical", "otherCase"}]

\* The annotation is free text; any other value is imported like "reconcile",
\* under the name of the object.
Modes == {None, "observe-only", "reconcile", "adopt-once", "other"}

\* spec.subscriptionId is read nowhere.
Specs == [mg : MGs \cup {None}, head : Heads, version : Versions]

Manifests == [spec : Specs, importId : Ids \cup {None},
              importName : Names \cup {None}, mode : Modes]

Reasons == {None, "Reconciled", "AppliedOnce", "ObservedOnly", "ImportConflict",
            "ImportFailed", "AlreadyExists", "ReconcileFailed", "DeleteFailed"}

\* ready is the reason of the Ready condition, observed its ObservedGeneration.
Statuses == [id : Ids \cup {None}, applied : Versions \cup {None},
             ready : Reasons, observed : Nat,
             imported : {None, "ImportSucceeded", "ImportFailed"},
             drift : {None, "SpecMismatch", "InSync"}]

NoStatus == [id |-> None, applied |-> None, ready |-> None, observed |-> 0,
             imported |-> None, drift |-> None]

Objects == ObjectsOf(Manifests, Statuses)

\* by and gen are ghosts: who wrote the definition last, from which generation.
Resources == [head : Heads, version : Versions, by : CRs \cup {None}, gen : Nat]

Calls == {"idle", "AddFinalizer", "RemoveFinalizer", "Delete", "Import", "Get",
          "CreateOrUpdate", "StatusUpdate"}

ASSUME ConstantsAssumption ==
  /\ OperatorSub \in Subs
  /\ NameOf \in [CRs -> Names]
  /\ Offers \in [CRs -> SUBSET Manifests]
  /\ AzureInit \in [Refs -> Resources \cup {None}]
  /\ MaxPortal \in Nat
  /\ Misreads \in BOOLEAN

\* A missing value is not taken for one that is there.
ASSUME NoneAssumption ==
  /\ None \notin Ids /\ None \notin Names /\ None \notin Resources
  /\ None \notin {"Reconciled", "AppliedOnce", "ObservedOnly"}

Init == RuntimeInit /\ azure = AzureInit /\ portal = 0

-----------------------------------------------------------------------------
(* Which Azure resource a call is about.                                   *)

TargetScope(m) == IF m.spec.mg # None THEN m.spec.mg ELSE OperatorSub

\* Fault: import-name is ignored.
CRName(c, m) == NameOf[c]

TargetName(c, m) ==
  IF m.mode \in {"reconcile", "adopt-once"} THEN m.importName ELSE NameOf[c]

\* CreateOrUpdate and Get.  Not in Refs when import-name is missing: the
\* client then refuses the call.
Target(c, m) == [scope |-> TargetScope(m), name |-> TargetName(c, m)]

\* Import: the subscription of the ID is not looked at.
ImportRef(id) ==
  [scope |-> IF id.scope \in MGs THEN id.scope ELSE OperatorSub, name |-> id.name]

\* Delete: the name of the bound ID, at the scope of the current spec.
DeleteRef(o) == [scope |-> TargetScope(o.man), name |-> o.status.id.name]

Definition(c, o) ==
  [head |-> o.man.spec.head, version |-> o.man.spec.version, by |-> c, gen |-> o.gen]

Ready(o, reason) ==
  [o EXCEPT !.status.ready = reason, !.status.observed = o.gen]

-----------------------------------------------------------------------------
(* From the queue to the first call.                                       *)

IgnoreGone(c) ==
  /\ ~Present(cache[c]) \/ (cache[c].phase = "deleting" /\ ~cache[c].fin)
  /\ ReturnAtOnce(c, FALSE)
  /\ UNCHANGED <<azure, portal>>

BeginAddFinalizer(c) ==
  /\ cache[c].phase = "live" /\ ~cache[c].fin
  /\ Begin(c, "AddFinalizer", cache[c])
  /\ UNCHANGED <<azure, portal>>

\* Fault: an object that is not ready is let go.
ReleasesUnready(o) == o.status.id = None \/ o.status.ready # "Reconciled"

\* Fault: the mode is not looked at.
ReleasesUnbound(o) == o.status.id = None

\* Only the literal value releases the resource, not the default mode.
Releases(o) == o.man.mode = "observe-only" \/ o.status.id = None

HandleDeletion(c) ==
  /\ cache[c].phase = "deleting" /\ cache[c].fin
  /\ Begin(c, IF Releases(cache[c]) THEN "RemoveFinalizer" ELSE "Delete", cache[c])
  /\ UNCHANGED <<azure, portal>>

\* Fault: the import-id is not compared.
NeverRebinds(o) == FALSE

\* Plain inequality of strings.
Rebinds(o) ==
  /\ o.man.importId # None
  /\ o.status.id # None
  /\ o.man.importId # o.status.id

\* Fault: nothing is ever skipped.
NeverApplied(o) == FALSE

\* Fault: the mode is not looked at.
AppliedInAnyMode(o) ==
  o.man.importId # None /\ o.status.ready \in {"Reconciled", "AppliedOnce"}

AppliedOnce(o) ==
  /\ o.man.importId # None
  /\ o.man.mode = "adopt-once"
  /\ o.status.ready = "AppliedOnce"

RejectRebinding(c) ==
  /\ Managed(cache[c])
  /\ Rebinds(cache[c])
  /\ Begin(c, "StatusUpdate", Ready(cache[c], "ImportConflict"))
  /\ UNCHANGED <<azure, portal>>

SkipApplied(c) ==
  /\ Managed(cache[c])
  /\ ~Rebinds(cache[c])
  /\ AppliedOnce(cache[c])
  /\ ReturnAtOnce(c, TRUE)
  /\ UNCHANGED <<azure, portal>>

BeginImport(c) ==
  /\ Managed(cache[c])
  /\ cache[c].man.importId # None
  /\ ~Rebinds(cache[c])
  /\ ~AppliedOnce(cache[c])
  /\ Begin(c, "Import", cache[c])
  /\ UNCHANGED <<azure, portal>>

\* Fault: no lookup before the creation.
FirstCallUnchecked(o) == "CreateOrUpdate"

\* An unbound definition is looked up before it is created.
FirstCall(o) == IF o.status.id = None THEN "Get" ELSE "CreateOrUpdate"

BeginReconcileDefinition(c) ==
  /\ Managed(cache[c])
  /\ cache[c].man.importId = None
  /\ Begin(c, FirstCall(cache[c]), cache[c])
  /\ UNCHANGED <<azure, portal>>

Reconcile(c) ==
  \/ IgnoreGone(c)
  \/ BeginAddFinalizer(c)
  \/ HandleDeletion(c)
  \/ RejectRebinding(c)
  \/ SkipApplied(c)
  \/ BeginImport(c)
  \/ BeginReconcileDefinition(c)

-----------------------------------------------------------------------------
(* The calls.                                                              *)

AddFinalizer(c) ==
  /\ pc[c] = "AddFinalizer"
  /\ WriteAndReturn(c, [copy[c] EXCEPT !.fin = TRUE], FALSE)
  /\ UNCHANGED <<azure, portal>>

\* The API server removes a deleted object with its last finalizer.
RemoveFinalizer(c) ==
  /\ pc[c] = "RemoveFinalizer"
  /\ WriteAndReturn(c, Absent, FALSE)
  /\ UNCHANGED <<azure, portal>>

\* Fault: nothing is requeued.
StatusUpdateAtRest(c) ==
  /\ pc[c] = "StatusUpdate"
  /\ WriteAndReturn(c, copy[c], FALSE)
  /\ UNCHANGED <<azure, portal>>

\* Every path that ends with Status().Update requeues, by RequeueAfter or by
\* the error it returns.
StatusUpdate(c) ==
  /\ pc[c] = "StatusUpdate"
  /\ WriteAndReturn(c, copy[c], TRUE)
  /\ UNCHANGED <<azure, portal>>

\* Deleting what is not there succeeds.  A failed call may have been applied.
Delete(c) ==
  LET deleted == [azure EXCEPT ![DeleteRef(copy[c])] = None]
  IN  /\ pc[c] = "Delete"
      /\ \/ azure' = deleted
            /\ Continue(c, "RemoveFinalizer", copy[c])
            /\ UNCHANGED faults
         \/ azure' \in {azure, deleted}
            /\ Continue(c, "StatusUpdate", Ready(copy[c], "DeleteFailed"))
            /\ Fault
      /\ UNCHANGED portal

\* What Import compares.
DriftOf(live, spec) == IF live.head = spec.head THEN "InSync" ELSE "SpecMismatch"

\* Fault: the drift condition is set by the first import only.
ImportedOnce(o) ==
  [o EXCEPT !.status.id = o.man.importId,
            !.status.imported = "ImportSucceeded",
            !.status.drift =
              IF @ = None THEN DriftOf(azure[ImportRef(o.man.importId)], o.man.spec) ELSE @]

Imported(o) ==
  [o EXCEPT !.status.id = o.man.importId,
            !.status.imported = "ImportSucceeded",
            !.status.drift = DriftOf(azure[ImportRef(o.man.importId)], o.man.spec)]

ImportFailed(o) == Ready([o EXCEPT !.status.imported = "ImportFailed"], "ImportFailed")

ObserveOnly(m) == m.mode \in {None, "observe-only"}

Import(c) ==
  LET o == copy[c]
      found == azure[ImportRef(o.man.importId)] # None
  IN  /\ pc[c] = "Import"
      /\ \/ found /\ ObserveOnly(o.man) /\ UNCHANGED faults
            /\ Continue(c, "StatusUpdate", Ready(Imported(o), "ObservedOnly"))
         \/ found /\ ~ObserveOnly(o.man) /\ UNCHANGED faults
            /\ Continue(c, "CreateOrUpdate", Imported(o))
         \/ ~found /\ UNCHANGED faults
            /\ Continue(c, "StatusUpdate", ImportFailed(o))
         \/ Fault /\ Continue(c, "StatusUpdate", ImportFailed(o))
      /\ UNCHANGED <<azure, portal>>

\* checkExistingDefinition.  isNotFound looks for "404" anywhere in the text.
Get(c) ==
  LET r == Target(c, copy[c].man)
  IN  /\ pc[c] = "Get"
      /\ \/ r \in Refs /\ azure[r] # None /\ UNCHANGED faults
            /\ Continue(c, "StatusUpdate", Ready(copy[c], "AlreadyExists"))
         \/ r \in Refs /\ azure[r] = None /\ UNCHANGED faults
            /\ Continue(c, "CreateOrUpdate", copy[c])
         \/ r \notin Refs /\ Return(c, TRUE) /\ UNCHANGED <<store, faults>>
         \/ Fault /\ Return(c, TRUE) /\ UNCHANGED store
         \/ Misreads /\ r \in Refs /\ Fault
            /\ Continue(c, "CreateOrUpdate", copy[c])
      /\ UNCHANGED <<azure, portal>>

\* Fault: the name is stored, not the resource ID.
AppliedByName(c, o) == Ready([o EXCEPT !.status.id = Target(c, o.man)], "Reconciled")

Applied(c, o) ==
  LET r == Target(c, o.man)
  IN  Ready([o EXCEPT !.status.id = [scope |-> r.scope, name |-> r.name, text |-> "canonical"],
                      !.status.applied = o.man.spec.version],
            IF o.man.mode = "adopt-once" THEN "AppliedOnce" ELSE "Reconciled")

\* Fault: the error is dropped.
FailureIgnored(c, o) == Applied(c, o)

ReconcileFailed(c, o) == Ready(o, "ReconcileFailed")

\* A failed call may have been applied.
CreateOrUpdate(c) ==
  LET o == copy[c]
      r == Target(c, o.man)
      written == [azure EXCEPT ![r] = Definition(c, o)]
  IN  /\ pc[c] = "CreateOrUpdate"
      /\ \/ r \in Refs /\ azure' = written /\ UNCHANGED faults
            /\ Continue(c, "StatusUpdate", Applied(c, o))
         \/ r \in Refs /\ azure' \in {azure, written} /\ Fault
            /\ Continue(c, "StatusUpdate", ReconcileFailed(c, o))
         \/ r \notin Refs /\ UNCHANGED <<azure, faults>>
            /\ Continue(c, "StatusUpdate", ReconcileFailed(c, o))
      /\ UNCHANGED portal

Call(c) ==
  \/ AddFinalizer(c)
  \/ RemoveFinalizer(c)
  \/ Delete(c)
  \/ Import(c)
  \/ Get(c)
  \/ CreateOrUpdate(c)
  \/ StatusUpdate(c)

-----------------------------------------------------------------------------
\* Somebody else creates, edits or deletes a definition in Azure.
Portal(r) ==
  /\ portal < MaxPortal
  /\ \E d \in {None} \cup [head : Heads, version : Versions, by : {None}, gen : {0}] :
       d # azure[r] /\ azure' = [azure EXCEPT ![r] = d]
  /\ portal' = portal + 1
  /\ UNCHANGED runtimeVars

Environment ==
  \/ User(NoStatus) /\ UNCHANGED <<azure, portal>>
  \/ Crash /\ UNCHANGED <<azure, portal>>
  \/ \E c \in CRs : (Sync(c) \/ Resync(c)) /\ UNCHANGED <<azure, portal>>
  \/ \E r \in Refs : Portal(r)

Next == Environment \/ \E c \in CRs : Reconcile(c) \/ Call(c)

\* The watch delivers, a call returns, and the queue serves every key in
\* turn.  Users, faults, the portal and the periodic resync owe nothing.
Fairness ==
  \A c \in CRs :
    /\ WF_vars(Sync(c) /\ UNCHANGED <<azure, portal>>)
    /\ WF_vars(Call(c))
    /\ SF_vars(Reconcile(c))

Spec == Init /\ [][Next]_vars

FairSpec == Spec /\ Fairness

-----------------------------------------------------------------------------
(* Safety.                                                                 *)

TypeOK ==
  /\ RuntimeTypeOK(Objects, Calls)
  /\ azure \in [Refs -> Resources \cup {None}]
  /\ portal \in 0..MaxPortal

\* A reconcile that is on its way to write to Azure, and a status that binds
\* an Azure resource, belong to a stored object that still has the finalizer:
\* however old the cached copy is and whatever users delete and recreate,
\* nothing is created for an object whose clean-up is already over.
WritesUnderFinalizer ==
  \A c \in CRs :
    /\ pc[c] \in {"Import", "Get", "CreateOrUpdate"} => HasFinalizer(obj[c])
    /\ Present(obj[c]) /\ obj[c].status.id # None => obj[c].fin

\* Where the bound definition is.
BoundRef(o) == ImportRef(o.status.id)

\* A live object that reports Reconciled or AppliedOnce for generation g has
\* its definition in Azure, written by this object, from generation g or a
\* later one: lost responses, conflicts and stale reads never make the
\* status run ahead of Azure (nobody else writes there).
StatusNotAhead ==
  \A c \in CRs :
    obj[c].phase = "live" /\ obj[c].status.ready \in {"Reconciled", "AppliedOnce"} =>
      LET d == azure[BoundRef(obj[c])]
      IN  d # None /\ d.by = c /\ d.gen >= obj[c].status.observed

\* A DriftDetected=False (InSync) condition of the current generation means
\* that the live definition has the displayName, description and mode of the
\* spec (nobody else writes there); it says nothing about the rest.
InSyncIsCurrent ==
  \A c \in CRs :
    /\ obj[c].phase = "live"
    /\ obj[c].status.ready = "ObservedOnly"
    /\ obj[c].status.drift = "InSync"
    /\ obj[c].status.observed = obj[c].gen
    => azure[BoundRef(obj[c])].head = obj[c].man.spec.head

\* What an import is about to report as adopted is the definition that the
\* import-id names.
AdoptsTheImported ==
  \A c \in CRs :
    /\ pc[c] = "StatusUpdate"
    /\ copy[c].man.importId # None
    /\ copy[c].status.ready \in {"Reconciled", "AppliedOnce", "ObservedOnly"}
    => BoundRef(copy[c]) = ImportRef(copy[c].man.importId)

-----------------------------------------------------------------------------
(* Actions.                                                                *)

\* A definition that another object or another tool wrote is overwritten
\* only by an object that is bound to it already or whose annotations import
\* it: an unbound object never takes a definition over.
NoTakeover ==
  [][\A r \in Refs, c \in CRs :
       /\ azure[r] # None /\ azure'[r] # None
       /\ azure'[r].by = c /\ azure[r].by # c
       => \/ obj[c].status.id # None /\ BoundRef(obj[c]) = r
          \/ /\ copy[c].man.importId # None
             /\ ImportRef(copy[c].man.importId) = r]_vars

\* The binding of a live object that carries an import-id stays with one
\* Azure resource, also when a user changes the annotation.
NoRebinding ==
  [][\A c \in CRs :
       /\ obj[c].phase = "live" /\ Present(obj'[c])
       /\ obj[c].status.id # None
       /\ obj[c].man.importId # None
       => BoundRef(obj'[c]) = BoundRef(obj[c])]_vars

\* No step of a reconcile that imports as observe-only, by the annotation or by
\* default, changes Azure; nor does the deletion of an object whose annotation
\* says observe-only.  The deletion of one that observes by default does: it
\* deletes the definition it only observed.
ObserveOnlyReads ==
  [][\A c \in CRs :
       /\ pc'[c] # pc[c]
       /\ Present(copy[c]) /\ copy[c].man.importId # None
       /\ ObserveOnly(copy[c].man)
       /\ copy[c].phase = "deleting" => copy[c].man.mode = "observe-only"
       => azure' = azure]_vars

-----------------------------------------------------------------------------
(* The life of an object and of what it has in Azure.                      *)

\* The definition that a bound object has in Azure, unless it says
\* observe-only (its scope unchanged, nobody else writing).
Owes(o) ==
  /\ portal = 0
  /\ HasId(o) /\ o.man.mode # "observe-only"
  /\ DeleteRef(o) = ImportRef(o.status.id)
  /\ azure[ImportRef(o.status.id)] # None

Managing == INSTANCE ManagedResource WITH
  stage <- [c \in CRs |-> Stage(obj[c])],
  work <- [c \in CRs |-> Work(pc[c], copy[c])],
  bound <- [c \in CRs |-> HasId(obj[c])],
  owed <- [c \in CRs |-> Owes(obj[c])]

\* The controller implements ManagedResource: no write to Azure and no
\* binding without the finalizer, no clean-up of a guarded object by a stale
\* reconcile, and no end before the definition is deleted.
Lifecycle == Managing!Spec

-----------------------------------------------------------------------------
(* Liveness, under FairSpec.                                               *)

\* A deleted object goes away, once the failures stop.
DeletionCompletes ==
  \A c \in CRs : obj[c].phase = "deleting" ~> obj[c].phase # "deleting"

\* Kept in Azure as its spec says: bound, and neither observed nor applied
\* once nor in conflict, nor without the name it asks for.
KeptInSync(c) ==
  /\ Managed(obj[c])
  /\ obj[c].status.id # None
  /\ Target(c, obj[c].man) \in Refs
  /\ \/ obj[c].man.importId = None
     \/ obj[c].man.mode = "reconcile" /\ ~Rebinds(obj[c])

\* When users and the portal stop, the definition of every object that is
\* kept in sync says what the spec says; it is in Azure unless it was imported
\* and somebody else deleted it.
DriftHeals ==
  \A c \in CRs :
    <>[](KeptInSync(c) =>
           LET d == azure[Target(c, obj[c].man)]
           IN  \/ d = None /\ obj[c].man.importId # None
               \/ /\ d # None
                  /\ d.head = obj[c].man.spec.head
                  /\ d.version = obj[c].man.spec.version)

\* An object that is imported with adopt-once stops writing.
AdoptOnceSettles ==
  \A c \in CRs :
    <>[](/\ obj[c].phase = "live"
         /\ obj[c].man.importId # None
         /\ obj[c].man.mode = "adopt-once"
         => pc[c] # "CreateOrUpdate")

\* Whatever happens between two objects that share an Azure name, the
\* definition of a bound one does not stay away.
BoundComesBack ==
  \A c \in CRs :
    []<>(KeptInSync(c) => azure[BoundRef(obj[c])] # None)

\* An object with no import annotations gets bound to its definition.
EventuallyBound ==
  \A c \in CRs :
    <>[](Managed(obj[c]) /\ obj[c].man.importId = None => obj[c].status.id # None)
=============================================================================
