---------------------------- MODULE PolicyExemption ----------------------------
(***************************************************************************)
(* The AzurePolicyExemption controller and the policyexemption service.    *)
(*                                                                         *)
(* An exemption is bound to an Azure resource by its status alone: the     *)
(* name in Azure is a new UUID whenever the status carries no ID, and      *)
(* nothing is looked up.  It may name its policy assignment by reference   *)
(* to an AzurePolicyAssignment, whose status another controller fills in.  *)
(***************************************************************************)
EXTENDS ControllerRuntime

CONSTANTS
  Scopes,         \* Azure scopes
  Uuids,          \* the names uuid.NewString may return
  Assignments,    \* the names of AzurePolicyAssignment objects
  AssignmentIds,  \* resource IDs of policy assignments
  Bodies,         \* displayName, description, category, expiry, selectors
  Quota,          \* the exemptions Azure allows at a scope
  MaxRefChanges   \* bound on the changes of the referenced assignments

VARIABLES
  azure,          \* azure[id]: the exemption at id, or None
  assigned,       \* assigned[a]: the assignment ID in the status of a, or why not
  refChanges      \* changes of assigned so far

vars == <<runtimeVars, azure, assigned, refChanges>>

Ids == [scope : Scopes, uuid : Uuids]

Specs == [scope : Scopes, ref : Assignments \cup {None},
          assignment : AssignmentIds \cup {None}, body : Bodies]

Manifests == [spec : Specs]

Reasons == {None, "Reconciled", "RefResolutionFailed", "RefNotReady",
            "ReconcileFailed", "DeleteFailed"}

Statuses == [id : Ids \cup {None}, ready : Reasons, observed : Nat]

NoStatus == [id |-> None, ready |-> None, observed |-> 0]

Objects == ObjectsOf(Manifests, Statuses)

\* by and gen are ghosts: who wrote the exemption, from which generation.
Resources == [assignment : AssignmentIds, body : Bodies, by : CRs, gen : Nat]

Calls == {"idle", "AddFinalizer", "RemoveFinalizer", "Delete", "CreateOrUpdate",
          "StatusUpdate"}

RefStates == {"missing", "notReady"} \cup AssignmentIds

ASSUME ConstantsAssumption ==
  /\ Offers \in [CRs -> SUBSET Manifests]
  /\ Quota \in Nat
  /\ MaxRefChanges \in Nat
  /\ AssignmentIds \cap {"missing", "notReady"} = {}

\* A missing value is not taken for one that is there.
ASSUME NoneAssumption == None \notin Ids /\ None \notin Resources /\ None # "Reconciled"

Init ==
  /\ RuntimeInit
  /\ azure = [id \in Ids |-> None]
  /\ assigned = [a \in Assignments |-> "missing"]
  /\ refChanges = 0

-----------------------------------------------------------------------------
Ready(o, reason) ==
  [o EXCEPT !.status.ready = reason, !.status.observed = o.gen]

\* A reference counts only when the spec has no ID of its own.
ByRef(o) == o.man.spec.ref # None /\ o.man.spec.assignment = None

RefState(o) == assigned[o.man.spec.ref]

\* The reference is resolved in memory; the spec that is stored stays as it is.
Resolved(o) ==
  IF ByRef(o) THEN [o EXCEPT !.man.spec.assignment = RefState(o)] ELSE o

Exemption(c, o) ==
  [assignment |-> o.man.spec.assignment, body |-> o.man.spec.body,
   by |-> c, gen |-> o.gen]

\* Fault: the exemption is deleted only if it is in good order.
LetsGoUnready(o) == o.status.id = None \/ o.status.ready # "Reconciled"

LetsGo(o) == o.status.id = None

\* Names nobody holds: not in Azure, not in a status, a cache or a copy.
NewUuids ==
  {u \in Uuids :
     \A s \in Scopes, c \in CRs :
       LET id == [scope |-> s, uuid |-> u]
       IN  /\ azure[id] = None
           /\ \A o \in {obj[c], cache[c], copy[c]} : Present(o) => o.status.id # id}

\* One of the new names: they are interchangeable.  uuid.NewString always finds
\* one; an instance has to bring as many as its bounds use up.
NameFor(o) ==
  IF o.status.id = None THEN CHOOSE u \in NewUuids : TRUE ELSE o.status.id.uuid

Full(s) == Cardinality({i \in Ids : i.scope = s /\ azure[i] # None}) >= Quota

\* Azure refuses an exemption without an assignment, or one too many.
Accepted(o, id) ==
  /\ o.man.spec.assignment # None
  /\ azure[id] # None \/ ~Full(id.scope)

-----------------------------------------------------------------------------
(* From the queue to the first call.                                       *)

IgnoreGone(c) ==
  /\ ~Present(cache[c]) \/ (cache[c].phase = "deleting" /\ ~cache[c].fin)
  /\ ReturnAtOnce(c, FALSE)
  /\ UNCHANGED <<azure, assigned, refChanges>>

BeginAddFinalizer(c) ==
  /\ cache[c].phase = "live" /\ ~cache[c].fin
  /\ Begin(c, "AddFinalizer", cache[c])
  /\ UNCHANGED <<azure, assigned, refChanges>>

HandleDeletion(c) ==
  /\ cache[c].phase = "deleting" /\ cache[c].fin
  /\ Begin(c, IF LetsGo(cache[c]) THEN "RemoveFinalizer" ELSE "Delete", cache[c])
  /\ UNCHANGED <<azure, assigned, refChanges>>

\* Fault: a reference that is not ready is as good as none.
OnlyMissing(o) == ByRef(o) /\ RefState(o) = "missing"

Unresolved(o) == ByRef(o) /\ RefState(o) \notin AssignmentIds

RejectRef(c) ==
  /\ Managed(cache[c])
  /\ Unresolved(cache[c])
  /\ Begin(c, "StatusUpdate",
           Ready(cache[c], IF RefState(cache[c]) = "missing" THEN "RefResolutionFailed"
                           ELSE "RefNotReady"))
  /\ UNCHANGED <<azure, assigned, refChanges>>

BeginCreateOrUpdate(c) ==
  /\ Managed(cache[c])
  /\ ~Unresolved(cache[c])
  /\ Begin(c, "CreateOrUpdate", Resolved(cache[c]))
  /\ UNCHANGED <<azure, assigned, refChanges>>

Reconcile(c) ==
  \/ IgnoreGone(c)
  \/ BeginAddFinalizer(c)
  \/ HandleDeletion(c)
  \/ RejectRef(c)
  \/ BeginCreateOrUpdate(c)

-----------------------------------------------------------------------------
(* The calls.                                                              *)

AddFinalizer(c) ==
  /\ pc[c] = "AddFinalizer"
  /\ WriteAndReturn(c, [copy[c] EXCEPT !.fin = TRUE], FALSE)
  /\ UNCHANGED <<azure, assigned, refChanges>>

RemoveFinalizer(c) ==
  /\ pc[c] = "RemoveFinalizer"
  /\ WriteAndReturn(c, Absent, FALSE)
  /\ UNCHANGED <<azure, assigned, refChanges>>

\* Fault: nothing is requeued.
StatusUpdateAtRest(c) ==
  /\ pc[c] = "StatusUpdate"
  /\ WriteAndReturn(c, [obj[c] EXCEPT !.status = copy[c].status], FALSE)
  /\ UNCHANGED <<azure, assigned, refChanges>>

\* Only the status of the copy is stored.  Every path requeues.
StatusUpdate(c) ==
  /\ pc[c] = "StatusUpdate"
  /\ WriteAndReturn(c, [obj[c] EXCEPT !.status = copy[c].status], TRUE)
  /\ UNCHANGED <<azure, assigned, refChanges>>

\* The name in the status, at the scope of the spec.  Deleting what is not
\* there succeeds; a failed call may have been applied.
Delete(c) ==
  LET o == copy[c]
      id == [scope |-> o.man.spec.scope, uuid |-> o.status.id.uuid]
      deleted == [azure EXCEPT ![id] = None]
  IN  /\ pc[c] = "Delete"
      /\ \/ azure' = deleted /\ Continue(c, "RemoveFinalizer", o) /\ UNCHANGED faults
         \/ /\ azure' \in {azure, deleted} /\ Fault
            /\ Continue(c, "StatusUpdate", Ready(o, "DeleteFailed"))
      /\ UNCHANGED <<assigned, refChanges>>

\* Fault: the ID is remembered although the call failed.
FailedButBound(o, id) ==
  Ready([o EXCEPT !.status.id = id], "Reconciled")

\* Fault: the empty ID that a failed call returns is stored.
FailedAndUnbound(o, id) ==
  Ready([o EXCEPT !.status.id = None], "ReconcileFailed")

Failed(o, id) == Ready(o, "ReconcileFailed")

CreateOrUpdate(c) ==
  LET o == copy[c]
      id == [scope |-> o.man.spec.scope, uuid |-> NameFor(o)]
      written == [azure EXCEPT ![id] = Exemption(c, o)]
  IN  /\ pc[c] = "CreateOrUpdate"
      /\ o.status.id = None => NewUuids # {}
      /\ \/ /\ Accepted(o, id) /\ azure' = written /\ UNCHANGED faults
            /\ Continue(c, "StatusUpdate",
                        Ready([o EXCEPT !.status.id = id], "Reconciled"))
         \/ /\ Accepted(o, id) /\ azure' \in {azure, written} /\ Fault
            /\ Continue(c, "StatusUpdate", Failed(o, id))
         \/ /\ ~Accepted(o, id) /\ UNCHANGED <<azure, faults>>
            /\ Continue(c, "StatusUpdate", Failed(o, id))
      /\ UNCHANGED <<assigned, refChanges>>

Call(c) ==
  \/ AddFinalizer(c)
  \/ RemoveFinalizer(c)
  \/ StatusUpdate(c)
  \/ Delete(c)
  \/ CreateOrUpdate(c)

-----------------------------------------------------------------------------
\* The assignment controller and its users: an assignment appears, gets its
\* ID, goes away, or comes back with another one.
AssignmentChanges(a) ==
  /\ refChanges < MaxRefChanges
  /\ \E s \in RefStates \ {assigned[a]} : assigned' = [assigned EXCEPT ![a] = s]
  /\ refChanges' = refChanges + 1
  /\ UNCHANGED <<runtimeVars, azure>>

Environment ==
  \/ User(NoStatus) /\ UNCHANGED <<azure, assigned, refChanges>>
  \/ Crash /\ UNCHANGED <<azure, assigned, refChanges>>
  \/ \E c \in CRs : (Sync(c) \/ Resync(c)) /\ UNCHANGED <<azure, assigned, refChanges>>
  \/ \E a \in Assignments : AssignmentChanges(a)

Next == Environment \/ \E c \in CRs : Reconcile(c) \/ Call(c)

Fairness ==
  \A c \in CRs :
    /\ WF_vars(Sync(c) /\ UNCHANGED <<azure, assigned, refChanges>>)
    /\ WF_vars(Call(c))
    /\ SF_vars(Reconcile(c))

Spec == Init /\ [][Next]_vars

FairSpec == Spec /\ Fairness

-----------------------------------------------------------------------------
(* Safety.                                                                 *)

TypeOK ==
  /\ RuntimeTypeOK(Objects, Calls)
  /\ azure \in [Ids -> Resources \cup {None}]
  /\ assigned \in [Assignments -> RefStates]
  /\ refChanges \in 0..MaxRefChanges

\* A live object that reports Reconciled for generation g has its exemption in
\* Azure, written from generation g or a later one.
ReconciledExists ==
  \A c \in CRs :
    obj[c].phase = "live" /\ obj[c].status.ready = "Reconciled" =>
      LET e == azure[obj[c].status.id]
      IN  e # None /\ e.by = c /\ e.gen >= obj[c].status.observed

\* Once bound, an object updates its exemption in place: as long as the scope
\* stays, its binding does.
BindingStays ==
  [][\A c \in CRs :
       /\ Present(obj[c]) /\ Present(obj'[c])
       /\ obj[c].status.id # None
       /\ obj[c].status.id.scope = obj'[c].man.spec.scope
       => obj'[c].status.id = obj[c].status.id]_vars

-----------------------------------------------------------------------------
(* The life of an object and of what it has in Azure.                      *)

\* The exemption that a bound object has in Azure, unless its spec now names
\* another scope.
Owes(o) ==
  HasId(o) /\ o.status.id.scope = o.man.spec.scope /\ azure[o.status.id] # None

Managing == INSTANCE ManagedResource WITH
  stage <- [c \in CRs |-> Stage(obj[c])],
  work <- [c \in CRs |-> Work(pc[c], copy[c])],
  bound <- [c \in CRs |-> HasId(obj[c])],
  owed <- [c \in CRs |-> Owes(obj[c])]

\* The controller implements ManagedResource: no write to Azure and no
\* binding without the finalizer, no clean-up of a guarded object by a stale
\* reconcile, and no end before the exemption is deleted.
Lifecycle == Managing!Spec

-----------------------------------------------------------------------------
(* Liveness, under FairSpec.                                               *)

\* A deleted object goes away, once the failures stop.
DeletionCompletes ==
  \A c \in CRs : []<>(obj[c].phase # "deleting")

\* The exemption that o asks for is not in Azure, and its scope is full: of
\* exemptions that o has leaked, or of other objects.
Stuck(o) ==
  LET scope == o.man.spec.scope
  IN  /\ Full(scope)
      /\ o.status.id # None => azure[[scope |-> scope, uuid |-> o.status.id.uuid]] = None

\* When users and assignments stop changing, the exemption of every object
\* whose reference resolves says what the spec says and points at the
\* assignment that the reference resolves to.  An object that the quota keeps
\* from that reports the failure, also one that was bound elsewhere before.
FollowsRef ==
  \A c \in CRs :
    <>[](/\ Managed(obj[c])
         /\ ~Unresolved(obj[c])
         /\ Resolved(obj[c]).man.spec.assignment # None
         => /\ obj[c].status.observed = obj[c].gen
            /\ IF Stuck(obj[c]) THEN obj[c].status.ready = "ReconcileFailed"
               ELSE /\ obj[c].status.ready = "Reconciled"
                    /\ azure[obj[c].status.id] = Exemption(c, Resolved(obj[c])))
=============================================================================
