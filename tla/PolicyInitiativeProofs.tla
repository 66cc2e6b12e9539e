----------------------- MODULE PolicyInitiativeProofs -----------------------
(***************************************************************************)
(* Theorems about PolicyInitiative, for every set of objects, offers,      *)
(* definitions and bounds: type correctness, that the controller           *)
(* implements ManagedResource, and what the status and its drift condition *)
(* say of Azure.                                                           *)
(*                                                                         *)
(* The copy of a reconcile is not the cached object: its members are       *)
(* resolved.  The invariant therefore says which parts of the two agree,   *)
(* and which calls hold a copy whose members are IDs.                      *)
(***************************************************************************)
EXTENDS PolicyInitiative, ControllerRuntimeProofs

Runtime == RuntimeInv(Manifests, Statuses, Calls)

OutsideTyped ==
  /\ azure \in [Refs -> Resources \cup {None}]
  /\ portal \in 0..MaxOutside
  /\ defined \in [Definitions -> DefinitionStates]
  /\ seen \in [Definitions -> DefinitionStates]
  /\ defChanges \in 0..MaxOutside
  /\ defChanges = 0 => seen = defined

\* The two manifests point to the same initiative in Azure.
SameTarget(m, n) ==
  /\ m.mode = n.mode /\ m.importId = n.importId /\ m.importName = n.importName
  /\ m.spec.mg = n.spec.mg

\* Every member is the ID of a definition.
HasIds(o) == o.man.spec.members \in Seq(DefinitionIds)

\* What a status may claim about Azure.
Claims == {"Reconciled", "AppliedOnce", "ObservedOnly"}

\* What the branches on the way to a call have established about the copy.
CallOK(c) ==
  /\ pc[c] \in {"Import", "Get", "CreateOrUpdate"} => copy[c].phase = "live" /\ HasIds(copy[c])
  /\ pc[c] = "Import" => copy[c].man.importId # None
  /\ pc[c] \in {"Delete", "RemoveFinalizer"} => copy[c].phase = "deleting"
  /\ pc[c] = "Delete" => copy[c].status.id # None

\* A fresh copy points where the stored object does, and has not lost its
\* binding; that of a deleted object has not gained one either.
CopyAgrees(c) ==
  fresh[c] =>
    /\ SameTarget(copy[c].man, obj[c].man)
    /\ obj[c].status.id # None => copy[c].status.id # None
    /\ copy[c].phase = "deleting" => copy[c].status.id = obj[c].status.id

\* Before the finalizer is removed the initiative is.
CleanedUp(c) ==
  portal = 0 /\ pc[c] = "RemoveFinalizer" =>
    Releases(copy[c]) \/ azure[DeleteRef(copy[c])] = None

LocalInv(c) == CallOK(c) /\ CopyAgrees(c) /\ CleanedUp(c)

IInv == Runtime /\ OutsideTyped /\ \A c \in CRs : LocalInv(c)

-----------------------------------------------------------------------------
(* Names in Azure.                                                         *)

LEMMA ScopeType ==
  ASSUME NEW o \in Objects
  PROVE  TargetScope(o.man) \in Subs \cup MGs
  BY ConstantsAssumption DEF TargetScope, Objects, ObjectsOf, Manifests, Specs

LEMMA DeleteRefType ==
  ASSUME NEW o \in Objects, o.status.id # None
  PROVE  DeleteRef(o) \in Refs
  BY ScopeType DEF DeleteRef, Refs, Objects, ObjectsOf, Statuses

\* The import-id of a name that the operator has given is that name.
LEMMA TargetRef ==
  ASSUME NEW c \in CRs, NEW o \in Objects
  PROVE  ImportRef(Target(c, o.man)) = Target(c, o.man)
  BY ConstantsAssumption
     DEF ImportRef, Target, TargetScope, Objects, ObjectsOf, Manifests, Specs

LEMMA InitiativeFacts ==
  ASSUME NEW c \in CRs, NEW o \in Objects, HasIds(o)
  PROVE  LET i == Initiative(c, o, o.man.spec.members)
         IN  /\ i \in Resources /\ i # None /\ i.by = c /\ i.gen = o.gen
             /\ i.head = o.man.spec.head /\ i.members = o.man.spec.members
<1>1. Initiative(c, o, o.man.spec.members) \in Resources
  BY DEF Initiative, HasIds, Resources, Objects, ObjectsOf, Manifests, Specs
<1> QED BY <1>1, NoneAssumption DEF Initiative

-----------------------------------------------------------------------------
(* What the steps between two calls do to the copy.                        *)

\* p is o with another status, reported for a generation that o has seen.
Restated(o, p) ==
  /\ p \in Objects
  /\ p.phase = o.phase /\ p.fin = o.fin /\ p.gen = o.gen /\ p.man = o.man
  /\ p.status.observed <= p.gen

LEMMA ReadyFacts ==
  ASSUME NEW o \in Objects, NEW reason \in Reasons
  PROVE  LET p == Ready(o, reason)
         IN  /\ Restated(o, p)
             /\ p.status.ready = reason /\ p.status.observed = o.gen
             /\ p.status.id = o.status.id /\ p.status.drift = o.status.drift
<1> DEFINE p == Ready(o, reason)
<1>1. /\ p \in Objects /\ p.phase = o.phase /\ p.fin = o.fin /\ p.gen = o.gen /\ p.man = o.man
      /\ p.status.ready = reason /\ p.status.observed = o.gen
      /\ p.status.id = o.status.id /\ p.status.drift = o.status.drift
  BY DEF Ready, Objects, ObjectsOf, Statuses
<1>2. o.gen \in Nat
  BY DEF Objects, ObjectsOf
<1> HIDE DEF p
<1> QED BY <1>1, <1>2 DEF Restated, p

LEMMA ImportedFacts ==
  ASSUME NEW o \in Objects, o.status.observed <= o.gen, o.man.importId # None
  PROVE  LET p == Imported(o)
         IN  /\ Restated(o, p) /\ p.status.id = o.man.importId
             /\ p.status.drift = DriftOf(azure[ImportRef(o.man.importId)], o.man.spec)
<1> DEFINE p == Imported(o)
           drift == DriftOf(azure[ImportRef(o.man.importId)], o.man.spec)
<1>1. drift \in {"SpecMismatch", "InSync"} /\ o.man.importId \in Refs
  BY DEF DriftOf, Objects, ObjectsOf, Manifests
<1>2. p = [o EXCEPT !.status.id = o.man.importId, !.status.drift = drift]
  BY DEF Imported
<1> HIDE DEF drift, p
<1>3. /\ p \in Objects /\ p.phase = o.phase /\ p.fin = o.fin /\ p.gen = o.gen /\ p.man = o.man
      /\ p.status.id = o.man.importId /\ p.status.drift = drift
      /\ p.status.observed = o.status.observed
  BY <1>1, <1>2 DEF Objects, ObjectsOf, Statuses
<1> QED BY <1>3 DEF Restated, p, drift

LEMMA AppliedFacts ==
  ASSUME NEW c \in CRs, NEW o \in Objects, Target(c, o.man) \in Refs
  PROVE  LET p == Applied(c, o)
         IN  /\ Restated(o, p) /\ p.status.id = Target(c, o.man)
             /\ p.status.ready \in {"Reconciled", "AppliedOnce"} /\ p.status.observed = o.gen
<1> DEFINE r == Target(c, o.man)
           q == [o EXCEPT !.status.id = r, !.status.applied = o.man.spec.version]
           reason == IF o.man.mode = "adopt-once" THEN "AppliedOnce" ELSE "Reconciled"
<1>1. o.man.spec.version \in Versions /\ r \in Refs
  BY DEF Objects, ObjectsOf, Manifests, Specs
<1> HIDE DEF r
<1>2. /\ q \in Objects /\ q.phase = o.phase /\ q.fin = o.fin /\ q.gen = o.gen /\ q.man = o.man
      /\ q.status.id = r
  BY <1>1 DEF Objects, ObjectsOf, Statuses
<1>3. reason \in Reasons /\ reason \in {"Reconciled", "AppliedOnce"}
  BY DEF Reasons
<1>4. Applied(c, o) = Ready(q, reason)
  BY DEF Applied, r
<1> HIDE DEF q, reason
<1> QED BY <1>2, <1>3, <1>4, ReadyFacts DEF Restated, r

\* The spec of o is that of p with the IDs that its references stand for.
SpellsOut(o, p) ==
  o.man.spec.head = p.man.spec.head /\ o.man.spec.members = Resolved(p)

\* Resolving the references changes the members of the spec alone.
LEMMA WithIdsFacts ==
  ASSUME NEW o \in Objects, AllResolved(o)
  PROVE  LET p == WithIds(o)
         IN  /\ p \in Objects /\ p.phase = o.phase /\ p.fin = o.fin /\ p.gen = o.gen
             /\ p.status = o.status /\ SameTarget(p.man, o.man) /\ HasIds(p)
             /\ SpellsOut(p, o)
<1> DEFINE members == Resolved(o)
           p == WithIds(o)
<1>1. o.man.spec.members \in Seq(Definitions \cup DefinitionIds)
  BY DEF Objects, ObjectsOf, Manifests, Specs
<1>2. members \in Seq(DefinitionIds)
  <2>1. \A i \in DOMAIN o.man.spec.members : members[i] \in DefinitionIds
    BY DEF AllResolved, Pending
  <2>2. DOMAIN o.man.spec.members = 1..Len(o.man.spec.members)
        /\ Len(o.man.spec.members) \in Nat
    BY <1>1
  <2>3. members = [i \in 1..Len(o.man.spec.members) |-> members[i]]
    BY <2>2 DEF Resolved
  <2> HIDE DEF members
  <2> QED BY <2>1, <2>2, <2>3
<1>3. members \in Seq(Definitions \cup DefinitionIds)
  BY <1>2
<1>4. p = [o EXCEPT !.man.spec.members = members]
  BY DEF WithIds
<1> HIDE DEF members, p
<1>5. /\ p \in Objects /\ p.phase = o.phase /\ p.fin = o.fin /\ p.gen = o.gen
      /\ p.status = o.status /\ p.man.spec.members = members
      /\ p.man.spec.head = o.man.spec.head /\ SameTarget(p.man, o.man)
  BY <1>3, <1>4 DEF Objects, ObjectsOf, Manifests, Specs, SameTarget
<1> QED BY <1>2, <1>5 DEF HasIds, SpellsOut, p, members

-----------------------------------------------------------------------------
(* What a step does to one object.                                         *)

Reported(c) ==
  /\ pc[c] = "StatusUpdate" /\ fresh[c] /\ Present(obj[c]) /\ Rests(c)
  /\ obj'[c].status = copy[c].status
  /\ obj'[c].phase = obj[c].phase /\ obj'[c].man = obj[c].man /\ obj'[c].gen = obj[c].gen

ObjectMoves(c) == ~Present(obj'[c]) \/ Created(c, NoStatus) \/ Edited(c) \/ Reported(c)

Begins(c) ==
  /\ pc[c] = "idle" /\ Present(cache[c]) /\ obj'[c] = obj[c] /\ fresh'[c] = synced[c]
  /\ copy'[c].phase = cache[c].phase /\ copy'[c].gen = cache[c].gen
  /\ copy'[c].status.id = cache[c].status.id
  /\ SameTarget(copy'[c].man, cache[c].man)
  /\ pc'[c] \in {"Import", "Get", "CreateOrUpdate"} =>
       cache[c].phase = "live" /\ HasIds(copy'[c]) /\ SpellsOut(copy'[c], cache[c])
  /\ pc'[c] = "Import" => cache[c].man.importId # None
  /\ pc'[c] \in {"Delete", "RemoveFinalizer"} => cache[c].phase = "deleting"
  /\ pc'[c] = "Delete" => ~Releases(cache[c])
  /\ pc'[c] = "RemoveFinalizer" => Releases(cache[c])
  /\ pc'[c] = "StatusUpdate" => copy'[c].status.ready \notin Claims

GoesOn(c) ==
  /\ pc[c] # "idle" /\ obj'[c] = obj[c] /\ fresh'[c] = fresh[c]
  /\ copy'[c].phase = copy[c].phase /\ copy'[c].man = copy[c].man
  /\ copy'[c].gen = copy[c].gen

Fails(c) ==
  /\ GoesOn(c) /\ pc'[c] = "StatusUpdate"
  /\ copy'[c].status.id = copy[c].status.id /\ copy'[c].status.ready \notin Claims

IsFree(c) ==
  GoesOn(c) /\ pc[c] = "Get" /\ pc'[c] = "CreateOrUpdate" /\ copy'[c] = copy[c]

Deletes(c) ==
  /\ GoesOn(c) /\ pc[c] = "Delete" /\ pc'[c] = "RemoveFinalizer" /\ copy'[c] = copy[c]
  /\ azure' = [azure EXCEPT ![DeleteRef(copy[c])] = None]

Imports(c) ==
  /\ GoesOn(c) /\ pc[c] = "Import" /\ UNCHANGED initiatives
  /\ copy'[c].status.id = copy[c].man.importId
  /\ \/ pc'[c] = "CreateOrUpdate"
     \/ /\ pc'[c] = "StatusUpdate"
        /\ copy'[c].status.ready = "ObservedOnly" /\ copy'[c].status.observed = copy[c].gen
        /\ copy'[c].status.drift =
             DriftOf(azure[ImportRef(copy[c].man.importId)], copy[c].man.spec)

\* c writes its initiative.
WritesAzure(c) ==
  /\ pc[c] = "CreateOrUpdate" /\ Target(c, copy[c].man) \in Refs
  /\ azure' = [azure EXCEPT ![Target(c, copy[c].man)] =
                 Initiative(c, copy[c], copy[c].man.spec.members)]

Applies(c) ==
  /\ GoesOn(c) /\ pc'[c] = "StatusUpdate" /\ WritesAzure(c)
  /\ copy'[c].status.id = Target(c, copy[c].man)
  /\ copy'[c].status.ready \in {"Reconciled", "AppliedOnce"}
  /\ copy'[c].status.observed = copy[c].gen

CopyMoves(c) ==
  \/ Rests(c) \/ Waits(c) \/ Begins(c) \/ Fails(c)
  \/ IsFree(c) \/ Deletes(c) \/ Imports(c) \/ Applies(c)

ObjectStep(c) == ObjectMoves(c) /\ CacheMoves(c) /\ CopyMoves(c) /\ edits <= edits'

LEMMA OutsideStep ==
  ASSUME NEW c \in CRs, Outside(c, NoStatus)
  PROVE  ObjectStep(c)
  BY DEF Outside, Vanishes, ObjectStep, ObjectMoves, CopyMoves

\* The reconcile of c goes on; CopyMoves says how.
LEMMA WithinStep ==
  ASSUME IInv, NEW c \in CRs, NEW call, NEW o, Within(c, call, o), CopyMoves(c)
  PROVE  ObjectStep(c)
<1>1. edits <= edits'
  BY CopyFields DEF IInv, Runtime, Within
<1>2. ObjectMoves(c) /\ CacheMoves(c)
  BY DEF Within, ObjectMoves, Edited, Present, CacheMoves
<1> QED BY <1>1, <1>2 DEF ObjectStep

\* What a step is for the finalizer protocol, and for every object.
StepOK ==
  /\ Runtime'
  /\ SafeStep \/ \E c \in CRs : StepOf(c, Owes(obj[c]))
  /\ \A c \in CRs : ObjectStep(c)

LEMMA EnvironmentOK ==
  ASSUME IInv, Environment
  PROVE  StepOK
<1> USE DEF IInv, Runtime
<1>1. CASE User(NoStatus)
  <2>1. NoStatus \in Statuses /\ NoStatus.id = None /\ NoStatus.observed = 0
    BY DEF NoStatus, Statuses, Reasons
  <2> QED BY <1>1, <2>1, UserStep, UserOutside, OutsideStep DEF StepOK
<1>2. CASE Crash \/ (\E c \in CRs : Sync(c) \/ Resync(c))
  BY <1>2, CrashStep, SyncStep, ResyncStep, InformerOutside, OutsideStep DEF StepOK
<1>3. CASE UNCHANGED <<store, pc, copy, fresh, edits, faults>> /\ queue' \subseteq CRs
  BY <1>3, QuietStep, StillOutside, OutsideStep DEF store, StepOK
<1>4. queue \subseteq CRs /\ \A d \in Definitions : queue \cup Referring(d) \subseteq CRs
  BY DEF RuntimeInv, Typed, RuntimeTypeOK, Referring
<1>5. (\E r \in Refs : Portal(r)) \/ (\E d \in Definitions : DefinitionChanges(d) \/ WatchDefinition(d))
        => UNCHANGED <<store, pc, copy, fresh, edits, faults>> /\ queue' \subseteq CRs
  BY <1>4 DEF Portal, DefinitionChanges, WatchDefinition, runtimeVars, store
<1> QED BY <1>1, <1>2, <1>3, <1>5 DEF Environment, SyncObject

\* A reconcile begins with what the cache shows.
LEMMA BeginOK ==
  ASSUME IInv, NEW c \in CRs, NEW call \in Calls \ {"idle"}, NEW o \in Objects,
         Begin(c, call, o), cache[c] \in Objects,
         o.phase = cache[c].phase, o.fin = cache[c].fin, o.gen = cache[c].gen,
         o.status.observed <= o.gen, o.status.id = cache[c].status.id,
         SameTarget(o.man, cache[c].man),
         \/ call = "AddFinalizer" /\ o = cache[c] /\ o.phase = "live"
         \/ call = "Delete" /\ o.phase = "deleting" /\ o.fin /\ ~Releases(cache[c])
         \/ call = "RemoveFinalizer" /\ o.phase = "deleting" /\ o.fin /\ Releases(cache[c])
         \/ /\ call \in {"Import", "Get", "CreateOrUpdate"}
            /\ Managed(o) /\ HasIds(o) /\ SpellsOut(o, cache[c])
            /\ call = "Import" => o.man.importId # None
         \/ call = "StatusUpdate" /\ Managed(o) /\ o.status.ready \notin Claims
  PROVE  StepOK
<1>1. Present(cache[c])
  BY DEF Objects, ObjectsOf, Present
<1>2. Runtime' /\ SafeStep
  BY <1>1, BeginStep DEF IInv, Runtime, Managed, Objects
<1>3. Within(c, call, o) /\ pc[c] = "idle" /\ fresh'[c] = synced[c]
  BY BeginWithin DEF IInv, Runtime
<1>4. Begins(c)
  BY <1>1, <1>3 DEF Within, Begins, Managed, SameTarget
<1>5. ObjectStep(c)
  BY <1>3, <1>4, WithinStep DEF CopyMoves
<1>6. \A d \in CRs \ {c} : ObjectStep(d)
  BY OthersOutside, OutsideStep DEF IInv, Runtime
<1> QED BY <1>2, <1>5, <1>6 DEF StepOK

\* The cache as a copy.
LEMMA CacheFacts ==
  ASSUME IInv, NEW c \in CRs, Present(cache[c])
  PROVE  /\ cache[c] \in Objects /\ cache[c].status.observed <= cache[c].gen
         /\ SameTarget(cache[c].man, cache[c].man)
  BY CopyFields DEF IInv, Runtime, RuntimeInv, Protocol, GenOK, Dated, Objects, SameTarget

LEMMA ReconcileOK ==
  ASSUME IInv, NEW c \in CRs, Reconcile(c)
  PROVE  StepOK
<1> USE DEF Calls
<1>1. ASSUME NEW requeue \in BOOLEAN, ReturnAtOnce(c, requeue)
      PROVE  StepOK
  BY <1>1, ReturnAtOnceStep, StillOutside, OutsideStep
     DEF ReturnAtOnce, store, IInv, Runtime, StepOK
<1>2. CASE IgnoreGone(c) \/ SkipApplied(c)
  BY <1>1, <1>2 DEF IgnoreGone, SkipApplied
<1>3. CASE BeginAddFinalizer(c)
  <2>1. Present(cache[c])
    BY <1>3 DEF BeginAddFinalizer, Present
  <2> QED BY <1>3, <2>1, CacheFacts, BeginOK DEF BeginAddFinalizer
<1>4. CASE HandleDeletion(c)
  <2>1. Present(cache[c])
    BY <1>4 DEF HandleDeletion, CleansUp, Present
  <2> QED BY <1>4, <2>1, CacheFacts, BeginOK DEF HandleDeletion, CleansUp
<1>5. ASSUME NEW reason \in Reasons \ Claims, Managed(cache[c]),
             Begin(c, "StatusUpdate", Ready(cache[c], reason))
      PROVE  StepOK
  <2> DEFINE o == Ready(cache[c], reason)
  <2>1. Present(cache[c]) /\ Begin(c, "StatusUpdate", o)
    BY <1>5 DEF Managed, Present
  <2>2. /\ Restated(cache[c], o) /\ o.status.ready = reason
        /\ o.status.id = cache[c].status.id
    BY <2>1, CacheFacts, ReadyFacts
  <2> HIDE DEF o
  <2> QED BY <1>5, <2>1, <2>2, CacheFacts, BeginOK DEF Restated, Managed
<1>6. CASE RejectRefs(c)
  <2>1. RefReason(cache[c]) \in Reasons \ Claims
    BY DEF RefReason, Reasons, Claims
  <2> QED BY <1>5, <1>6, <2>1 DEF RejectRefs
<1>7. CASE RejectRebinding(c)
  <2>1. "ImportConflict" \in Reasons \ Claims
    BY DEF Reasons, Claims
  <2> QED BY <1>5, <1>7, <2>1 DEF RejectRebinding
<1>8. ASSUME NEW call \in {"Import", "Get", "CreateOrUpdate"}, Managed(cache[c]),
             AllResolved(cache[c]), Begin(c, call, WithIds(cache[c])),
             call = "Import" => cache[c].man.importId # None
      PROVE  StepOK
  <2> DEFINE o == WithIds(cache[c])
  <2>1. Present(cache[c]) /\ Begin(c, call, o)
    BY <1>8 DEF Managed, Present
  <2>2. /\ o \in Objects /\ o.phase = cache[c].phase /\ o.fin = cache[c].fin
        /\ o.gen = cache[c].gen /\ o.status = cache[c].status
        /\ SameTarget(o.man, cache[c].man) /\ HasIds(o) /\ SpellsOut(o, cache[c])
    BY <1>8, <2>1, CacheFacts, WithIdsFacts
  <2> HIDE DEF o
  <2> QED BY <1>8, <2>1, <2>2, CacheFacts, BeginOK DEF Managed, SameTarget
<1>9. CASE BeginImport(c) \/ BeginReconcileInitiative(c)
  BY <1>8, <1>9 DEF BeginImport, BeginReconcileInitiative
<1> QED BY <1>2, <1>3, <1>4, <1>6, <1>7, <1>9 DEF Reconcile

\* A reconcile goes on with a copy whose status alone has changed.
LEMMA ContinueOK ==
  ASSUME IInv, NEW c \in CRs,
         NEW call \in {"RemoveFinalizer", "StatusUpdate", "CreateOrUpdate"},
         NEW o, Restated(copy[c], o), Continue(c, call, o), Fault \/ UNCHANGED faults,
         pc[c] \notin {"idle", "AddFinalizer"},
         /\ pc'[c] = call /\ copy'[c] = o /\ GoesOn(c)
         => Fails(c) \/ IsFree(c) \/ Deletes(c) \/ Imports(c) \/ Applies(c)
  PROVE  StepOK
<1>1. call \in Calls \ {"idle", "AddFinalizer"}
  BY DEF Calls
<1>2. Runtime' /\ SafeStep
  BY <1>1, ContinueStep DEF IInv, Runtime, Restated, Objects
<1>3. Within(c, call, o) /\ fresh'[c] = fresh[c]
  BY ContinueWithin DEF IInv, Runtime
<1>4. GoesOn(c)
  BY <1>3 DEF Within, GoesOn, Restated
<1>5. ObjectStep(c)
  BY <1>3, <1>4, WithinStep DEF Within, CopyMoves
<1>6. \A d \in CRs \ {c} : ObjectStep(d)
  BY OthersOutside, OutsideStep DEF IInv, Runtime
<1> QED BY <1>2, <1>5, <1>6 DEF StepOK

\* A reconcile ends without a write.
LEMMA ReturnOK ==
  ASSUME IInv, NEW c \in CRs, Return(c, TRUE), UNCHANGED store, Fault \/ UNCHANGED faults
  PROVE  StepOK
<1>1. Runtime' /\ SafeStep
  BY ReturnStep DEF IInv, Runtime
<1>2. Within(c, "idle", Absent) /\ Rests(c)
  BY DEF Return, store, Within, Rests, Present, Absent, IInv, Runtime, RuntimeInv, Typed,
         RuntimeTypeOK
<1>3. ObjectStep(c)
  BY <1>2, WithinStep DEF CopyMoves
<1>4. \A d \in CRs \ {c} : ObjectStep(d)
  BY OthersOutside, OutsideStep DEF IInv, Runtime
<1> QED BY <1>1, <1>3, <1>4 DEF StepOK

\* The write that ends a reconcile.
LEMMA WriteOK ==
  ASSUME IInv, NEW c \in CRs, NEW o, Writes(c, o), Runtime',
         SafeStep \/ StepOf(c, Owes(obj[c])),
         fresh[c] /\ obj'[c] = o /\ Rests(c) => ObjectMoves(c)
  PROVE  StepOK
<1>1. /\ Rests(c) /\ cache'[c] = cache[c] /\ edits' = edits
      /\ (fresh[c] /\ obj'[c] = o) \/ obj'[c] = obj[c]
  BY WriteMoves DEF IInv, Runtime
<1>2. edits <= edits'
  BY <1>1, CopyFields DEF IInv, Runtime
<1>3. obj'[c] = obj[c] => ObjectMoves(c)
  BY DEF ObjectMoves, Edited, Present
<1>4. ObjectStep(c)
  BY <1>1, <1>2, <1>3 DEF ObjectStep, CacheMoves, CopyMoves
<1>5. \A d \in CRs \ {c} : ObjectStep(d)
  BY OthersOutside, OutsideStep DEF IInv, Runtime
<1> QED BY <1>4, <1>5 DEF StepOK

\* What is known when c makes a call.
LEMMA CallFacts ==
  ASSUME IInv, NEW c \in CRs, pc[c] # "idle"
  PROVE  /\ LocalInv(c) /\ Protocol(c)
         /\ copy[c] \in Objects /\ copy[c].status.observed <= copy[c].gen
         /\ (Present(obj[c]) => obj[c] \in Objects)
         /\ Restated(copy[c], copy[c])
  BY CopyFields DEF IInv, Runtime, RuntimeInv, Objects, Protocol, GenOK, Dated, Restated

LEMMA WritesOK ==
  ASSUME IInv, NEW c \in CRs, AddFinalizer(c) \/ RemoveFinalizer(c) \/ StatusUpdate(c)
  PROVE  StepOK
<1> DEFINE o == copy[c]
<1>1. /\ LocalInv(c) /\ Protocol(c) /\ o \in Objects /\ o.status.observed <= o.gen
      /\ (Present(obj[c]) => obj[c] \in Objects)
  BY CallFacts DEF AddFinalizer, RemoveFinalizer, StatusUpdate
<1>2. CASE AddFinalizer(c)
  <2> DEFINE p == [o EXCEPT !.fin = TRUE]
  <2>1. Writes(c, p) /\ pc[c] = "AddFinalizer"
    BY <1>2 DEF AddFinalizer, Writes
  <2>2. Runtime' /\ SafeStep
    BY <2>1, AddFinalizerStep DEF IInv, Runtime
  <2>3. /\ p.man = o.man /\ p.status = o.status /\ p.gen = o.gen /\ p.phase = o.phase
    BY <1>1, <2>1 DEF Objects, ObjectsOf
  <2>4. fresh[c] => o = obj[c] /\ Present(obj[c])
    BY <1>1, <2>1 DEF Protocol, FlagsOK
  <2> HIDE DEF p
  <2>5. fresh[c] /\ obj'[c] = p => ObjectMoves(c)
    BY <2>3, <2>4 DEF ObjectMoves, Edited
  <2> QED BY <2>1, <2>2, <2>5, WriteOK
<1>3. CASE RemoveFinalizer(c)
  <2>1. Writes(c, Absent) /\ pc[c] = "RemoveFinalizer"
    BY <1>3 DEF RemoveFinalizer, Writes
  <2>2. Work(pc[c], o) = "clean"
    BY <1>1, <2>1 DEF LocalInv, CallOK, Work
  <2>3. ASSUME fresh[c]
        PROVE  ~Owes(obj[c])
    <3>1. /\ o.status.id = obj[c].status.id /\ o.man.mode = obj[c].man.mode
          /\ TargetScope(o.man) = TargetScope(obj[c].man)
      BY <1>1, <2>1, <2>3 DEF LocalInv, CallOK, CopyAgrees, SameTarget, TargetScope
    <3>2. portal = 0 => Releases(o) \/ azure[DeleteRef(o)] = None
      BY <1>1, <2>1 DEF LocalInv, CleanedUp
    <3> QED BY <3>1, <3>2 DEF Owes, HasId, Releases, DeleteRef
  <2>4. Runtime' /\ (SafeStep \/ StepOf(c, Owes(obj[c])))
    BY <2>1, <2>2, <2>3, RemoveFinalizerStep DEF IInv, Runtime
  <2>5. obj'[c] = Absent => ObjectMoves(c)
    BY DEF ObjectMoves, Present, Absent
  <2> QED BY <2>1, <2>4, <2>5, WriteOK
<1>4. CASE StatusUpdate(c)
  <2> DEFINE p == [obj[c] EXCEPT !.status = o.status]
  <2>1. Writes(c, p) /\ pc[c] = "StatusUpdate"
    BY <1>4 DEF StatusUpdate, Writes
  <2>2. ASSUME fresh[c]
        PROVE  /\ p \in Objects /\ p.phase = obj[c].phase /\ p.fin = obj[c].fin
               /\ p.gen = obj[c].gen /\ p.man = obj[c].man /\ p.status = o.status
               /\ o.gen = obj[c].gen /\ Present(obj[c])
    BY <1>1, <2>1, <2>2 DEF Protocol, FlagsOK, Objects, ObjectsOf
  <2>3. fresh[c] => /\ HasId(obj[c]) => o.status.id # None
                    /\ o.phase = "deleting" => o.status.id = obj[c].status.id
    BY <1>1, <2>1 DEF LocalInv, CopyAgrees, HasId
  <2> HIDE DEF p
  <2>4. fresh[c] => /\ HasId(obj[c]) => HasId(p)
                    /\ o.phase = "deleting" => HasId(p) = HasId(obj[c])
    BY <2>2, <2>3 DEF HasId, Present
  <2>5. Runtime' /\ SafeStep
    BY <1>1, <2>1, <2>2, <2>4, StatusStep DEF IInv, Runtime, Objects
  <2>6. fresh[c] /\ obj'[c] = p /\ Rests(c) => ObjectMoves(c)
    BY <2>1, <2>2 DEF ObjectMoves, Reported
  <2> QED BY <2>1, <2>5, <2>6, WriteOK
<1> QED BY <1>2, <1>3, <1>4

\* A call fails, and its failure is reported.
LEMMA FailOK ==
  ASSUME IInv, NEW c \in CRs, pc[c] \in {"Delete", "Import", "Get", "CreateOrUpdate"},
         NEW reason \in Reasons \ Claims,
         Continue(c, "StatusUpdate", Ready(copy[c], reason)), Fault \/ UNCHANGED faults
  PROVE  StepOK
<1> DEFINE p == Ready(copy[c], reason)
<1>1. /\ Restated(copy[c], p) /\ p.status.id = copy[c].status.id /\ p.status.ready \notin Claims
  BY CallFacts, ReadyFacts
<1>2. pc'[c] = "StatusUpdate" /\ copy'[c] = p /\ GoesOn(c) => Fails(c)
  BY <1>1 DEF Fails
<1>3. Continue(c, "StatusUpdate", p)
  OBVIOUS
<1> HIDE DEF p
<1> QED BY <1>1, <1>2, <1>3, ContinueOK

LEMMA AzureCallsOK ==
  ASSUME IInv, NEW c \in CRs, Delete(c) \/ Import(c) \/ Get(c) \/ CreateOrUpdate(c)
  PROVE  StepOK
<1> DEFINE o == copy[c]
<1>1. /\ LocalInv(c) /\ o \in Objects /\ o.status.observed <= o.gen /\ Restated(o, o)
  BY CallFacts DEF Delete, Import, Get, CreateOrUpdate
<1>2. {"DeleteFailed", "ImportFailed", "AlreadyExists", "ReconcileFailed"}
        \subseteq Reasons \ Claims
  BY DEF Reasons, Claims
<1>3. CASE Delete(c)
  <2>1. pc[c] = "Delete"
    BY <1>3 DEF Delete
  <2>2. ASSUME azure' = [azure EXCEPT ![DeleteRef(o)] = None],
               Continue(c, "RemoveFinalizer", o), UNCHANGED faults
        PROVE  StepOK
    <3>1. pc'[c] = "RemoveFinalizer" /\ copy'[c] = o /\ GoesOn(c) => Deletes(c)
      BY <2>1, <2>2 DEF Deletes
    <3> QED BY <1>1, <2>1, <2>2, <3>1, ContinueOK
  <2> QED BY <1>2, <1>3, <2>1, <2>2, FailOK DEF Delete
<1>4. CASE Import(c)
  <2> DEFINE p == Imported(o)
             q == Ready(p, "ObservedOnly")
  <2>1. /\ pc[c] = "Import" /\ UNCHANGED initiatives /\ o.man.importId # None
        /\ \/ Continue(c, "StatusUpdate", q) /\ UNCHANGED faults
           \/ Continue(c, "CreateOrUpdate", p) /\ UNCHANGED faults
           \/ /\ Continue(c, "StatusUpdate", Ready(o, "ImportFailed"))
              /\ Fault \/ UNCHANGED faults
    BY <1>1, <1>4 DEF Import, LocalInv, CallOK
  <2>2. /\ Restated(o, p) /\ p.status.id = o.man.importId
        /\ p.status.drift = DriftOf(azure[ImportRef(o.man.importId)], o.man.spec)
    BY <1>1, <2>1, ImportedFacts
  <2>3. /\ Restated(o, q) /\ q.status.id = o.man.importId /\ q.status.observed = o.gen
        /\ q.status.drift = p.status.drift /\ q.status.ready = "ObservedOnly"
    BY <2>2, ReadyFacts DEF Restated, Reasons
  <2> HIDE DEF p, q
  <2>4. ASSUME Continue(c, "StatusUpdate", q), UNCHANGED faults
        PROVE  StepOK
    <3>1. pc'[c] = "StatusUpdate" /\ copy'[c] = q /\ GoesOn(c) => Imports(c)
      BY <2>1, <2>2, <2>3 DEF Imports
    <3> QED BY <2>1, <2>3, <2>4, <3>1, ContinueOK
  <2>5. ASSUME Continue(c, "CreateOrUpdate", p), UNCHANGED faults
        PROVE  StepOK
    <3>1. pc'[c] = "CreateOrUpdate" /\ copy'[c] = p /\ GoesOn(c) => Imports(c)
      BY <2>1, <2>2 DEF Imports
    <3> QED BY <2>1, <2>2, <2>5, <3>1, ContinueOK
  <2> QED BY <1>2, <2>1, <2>4, <2>5, FailOK
<1>5. CASE Get(c)
  <2>1. pc[c] = "Get"
    BY <1>5 DEF Get
  <2>2. ASSUME Continue(c, "CreateOrUpdate", o), Fault \/ UNCHANGED faults
        PROVE  StepOK
    <3>1. pc'[c] = "CreateOrUpdate" /\ copy'[c] = o /\ GoesOn(c) => IsFree(c)
      BY <2>1 DEF IsFree
    <3> QED BY <1>1, <2>1, <2>2, <3>1, ContinueOK
  <2>3. \/ /\ Continue(c, "StatusUpdate", Ready(o, "AlreadyExists"))
           /\ UNCHANGED faults
        \/ Continue(c, "CreateOrUpdate", o) /\ (Fault \/ UNCHANGED faults)
        \/ Return(c, TRUE) /\ UNCHANGED store /\ (Fault \/ UNCHANGED faults)
    BY <1>5 DEF Get
  <2> QED BY <1>2, <2>1, <2>2, <2>3, FailOK, ReturnOK
<1>6. CASE CreateOrUpdate(c)
  <2> DEFINE r == Target(c, o.man)
             p == Applied(c, o)
  <2>1. pc[c] = "CreateOrUpdate"
    BY <1>6 DEF CreateOrUpdate
  <2>2. ASSUME WritesAzure(c), Continue(c, "StatusUpdate", p), UNCHANGED faults
        PROVE  StepOK
    <3>1. /\ Restated(o, p) /\ p.status.id = r
          /\ p.status.ready \in {"Reconciled", "AppliedOnce"} /\ p.status.observed = o.gen
      BY <1>1, <2>2, AppliedFacts DEF WritesAzure
    <3>2. Continue(c, "StatusUpdate", p)
      BY <2>2
    <3> HIDE DEF p, r
    <3>3. pc'[c] = "StatusUpdate" /\ copy'[c] = p /\ GoesOn(c) => Applies(c)
      BY <2>2, <3>1 DEF Applies, r
    <3> QED BY <2>1, <2>2, <3>1, <3>2, <3>3, ContinueOK
  <2>3. \/ WritesAzure(c) /\ Continue(c, "StatusUpdate", p) /\ UNCHANGED faults
        \/ /\ Continue(c, "StatusUpdate", Ready(o, "ReconcileFailed"))
           /\ Fault \/ UNCHANGED faults
    BY <1>6 DEF CreateOrUpdate, WritesAzure, ReconcileFailed
  <2> QED BY <1>2, <2>1, <2>2, <2>3, FailOK
<1> QED BY <1>3, <1>4, <1>5, <1>6

LEMMA NextOK ==
  ASSUME IInv, [Next]_vars
  PROVE  StepOK
<1>1. CASE UNCHANGED vars
  <2>1. queue' \subseteq CRs
    BY <1>1 DEF vars, runtimeVars, IInv, Runtime, RuntimeInv, Typed, RuntimeTypeOK
  <2> QED BY <1>1, <2>1, QuietStep, StillOutside, OutsideStep
          DEF vars, runtimeVars, store, IInv, Runtime, StepOK
<1> QED BY <1>1, EnvironmentOK, ReconcileOK, WritesOK, AzureCallsOK DEF Next, Call

-----------------------------------------------------------------------------
(* What a step does to Azure.                                              *)

\* A call of c that is applied.
Touches(c) ==
  /\ UNCHANGED portal
  /\ \/ pc[c] = "Delete" /\ azure' = [azure EXCEPT ![DeleteRef(copy[c])] = None]
     \/ WritesAzure(c)

AzureMoves ==
  UNCHANGED initiatives \/ portal' = portal + 1 \/ \E d \in CRs : Touches(d)

\* No change of a definition reaches the operator before the first one.
DefinitionsStay == defChanges' = 0 => defChanges = 0 /\ seen' = seen

LEMMA AzureStep ==
  ASSUME IInv, [Next]_vars
  PROVE  AzureMoves /\ OutsideTyped' /\ DefinitionsStay
<1> USE DEF initiatives, definitions
<1>1. CASE UNCHANGED initiatives
  <2>1. CASE UNCHANGED definitions
    BY <1>1, <2>1 DEF AzureMoves, IInv, OutsideTyped, DefinitionsStay
  <2>2. CASE \E d \in Definitions : DefinitionChanges(d) \/ WatchDefinition(d)
    <3>1. /\ defined' \in [Definitions -> DefinitionStates]
          /\ seen' \in [Definitions -> DefinitionStates]
      BY <2>2 DEF DefinitionChanges, WatchDefinition, IInv, OutsideTyped
    <3>2. defChanges' \in 0..MaxOutside /\ defChanges' # 0
      BY <1>1, <2>2, ConstantsAssumption
         DEF DefinitionChanges, WatchDefinition, IInv, OutsideTyped
    <3> QED BY <1>1, <3>1, <3>2 DEF AzureMoves, IInv, OutsideTyped, DefinitionsStay
  <2>3. CASE Crash /\ seen' = defined /\ UNCHANGED <<initiatives, defined, defChanges>>
    BY <1>1, <2>3 DEF AzureMoves, IInv, OutsideTyped, DefinitionsStay
  <2>4. ASSUME NEW c \in CRs, Call(c) \/ Reconcile(c)
        PROVE  UNCHANGED definitions
    BY <2>4 DEF Call, Reconcile
  <2>5. (\E r \in Refs : Portal(r)) => UNCHANGED definitions
    BY DEF Portal
  <2> QED BY <2>1, <2>2, <2>3, <2>4, <2>5 DEF Next, Environment, SyncObject, vars
<1>2. CASE \E r \in Refs : Portal(r)
  <2> PICK r \in Refs : Portal(r)
    BY <1>2
  <2>1. PICK i \in {None} \cup {[AzureInit[r] EXCEPT !.version = v] :
                                 v \in IF AzureInit[r] = None THEN {} ELSE Versions} :
          azure' = [azure EXCEPT ![r] = i]
    BY DEF Portal
  <2>2. i \in Resources \cup {None}
    BY ConstantsAssumption DEF Resources
  <2>3. portal' = portal + 1 /\ portal' \in 0..MaxOutside /\ UNCHANGED definitions
    BY ConstantsAssumption DEF Portal, IInv, OutsideTyped
  <2> QED BY <2>1, <2>2, <2>3 DEF AzureMoves, IInv, OutsideTyped, DefinitionsStay
<1>3. ASSUME NEW d \in CRs, Delete(d) \/ CreateOrUpdate(d), UNCHANGED definitions
      PROVE  AzureMoves /\ OutsideTyped' /\ DefinitionsStay
  <2>1. /\ copy[d] \in Objects /\ LocalInv(d)
    BY <1>3, CallFacts DEF Delete, CreateOrUpdate
  <2>2. UNCHANGED initiatives \/ Touches(d)
    BY <1>3 DEF Delete, CreateOrUpdate, Touches, WritesAzure
  <2>3. CASE Touches(d)
    <3>1. WritesAzure(d) => Initiative(d, copy[d], copy[d].man.spec.members) \in Resources
      BY <2>1, InitiativeFacts DEF WritesAzure, LocalInv, CallOK
    <3>2. azure' \in [Refs -> Resources \cup {None}]
      BY <2>3, <3>1 DEF Touches, WritesAzure, IInv, OutsideTyped
    <3> QED BY <1>3, <2>3, <3>2 DEF Touches, AzureMoves, IInv, OutsideTyped, DefinitionsStay
  <2> QED BY <1>1, <2>2, <2>3
<1>4. ASSUME NEW c \in CRs, Call(c) \/ Reconcile(c)
      PROVE  UNCHANGED initiatives \/ ((Delete(c) \/ CreateOrUpdate(c)) /\ UNCHANGED definitions)
  BY <1>4 DEF Call, Reconcile, AddFinalizer, RemoveFinalizer, StatusUpdate, Import, Get
<1>5. Environment => UNCHANGED initiatives \/ \E r \in Refs : Portal(r)
  BY DEF Environment, SyncObject, DefinitionChanges, WatchDefinition
<1>6. UNCHANGED vars => UNCHANGED initiatives
  BY DEF vars
<1> QED BY <1>1, <1>2, <1>3, <1>4, <1>5, <1>6 DEF Next

-----------------------------------------------------------------------------
(* The invariant is inductive.                                             *)

LEMMA InitOK == Init => IInv /\ Managing!Init
<1> SUFFICES ASSUME Init
             PROVE  IInv /\ Managing!Init
  OBVIOUS
<1>1. Kind(Manifests, Statuses, Calls)
  BY ConstantsAssumption DEF Kind, Statuses, Calls
<1>2. Runtime
  BY <1>1, RuntimeStart DEF Init, Runtime
<1>3. OutsideTyped
  BY ConstantsAssumption DEF Init, OutsideTyped
<1>4. \A c \in CRs : LocalInv(c)
  BY DEF Init, RuntimeInit, LocalInv, CallOK, CopyAgrees, CleanedUp
<1>5. \A c \in CRs : ~Present(obj[c]) /\ pc[c] = "idle"
  BY DEF Init, RuntimeInit, Present, Absent
<1>6. \A c \in CRs : HasId(obj[c]) = FALSE /\ Owes(obj[c]) = FALSE
  BY <1>5 DEF HasId, Owes
<1>7. Managing!Init
  BY <1>5, <1>6 DEF Managing!Init, Stage, Work
<1> QED BY <1>2, <1>3, <1>4, <1>7 DEF IInv

\* While a reconcile of c waits for the answer to another call than a write,
\* nobody but others writes to Azure.
LEMMA OneWriter ==
  ASSUME IInv, [Next]_vars, NEW c \in CRs, portal' = 0,
         pc[c] \notin {"idle", "Delete", "CreateOrUpdate"}
  PROVE  portal = 0 /\ azure' = azure
<1>1. portal \in Nat
  BY ConstantsAssumption DEF IInv, OutsideTyped
<1>2. \A d \in CRs : ~Touches(d)
  BY DEF Touches, WritesAzure, IInv, Runtime, RuntimeInv, OneWorker
<1> QED BY <1>1, <1>2, AzureStep DEF AzureMoves, initiatives

LEMMA LocalStep ==
  ASSUME IInv, [Next]_vars, NEW c \in CRs
  PROVE  LocalInv(c)'
<1>1. /\ LocalInv(c) /\ Protocol(c) /\ ObjectStep(c) /\ AzureMoves
      /\ (pc[c] # "idle" => copy[c] \in Objects)
  BY NextOK, AzureStep, CopyFields DEF IInv, Runtime, RuntimeInv, StepOK, Objects
<1>2. CASE Rests(c)
  BY <1>2 DEF Rests, LocalInv, CallOK, CopyAgrees, CleanedUp
<1>3. CASE Waits(c)
  <2>1. CallOK(c)' /\ CopyAgrees(c)'
    BY <1>1, <1>3 DEF Waits, LocalInv, CallOK, CopyAgrees, HasIds
  <2>2. CleanedUp(c)'
    BY <1>1, <1>3, OneWriter DEF Waits, LocalInv, CleanedUp
  <2> QED BY <2>1, <2>2 DEF LocalInv
<1>4. CASE Begins(c)
  <2>1. synced[c] => cache[c] = obj[c]
    BY <1>1 DEF Protocol, FlagsOK
  <2>2. CallOK(c)'
    BY <1>4 DEF Begins, CallOK, SameTarget, Releases, HasIds
  <2>3. CopyAgrees(c)'
    BY <1>4, <2>1 DEF Begins, CopyAgrees, SameTarget
  <2>4. CleanedUp(c)'
    BY <1>4 DEF Begins, CleanedUp, Claims, Releases, SameTarget
  <2> QED BY <2>2, <2>3, <2>4 DEF LocalInv
<1>5. CASE Fails(c)
  <2>1. CopyAgrees(c)'
    BY <1>1, <1>5 DEF Fails, GoesOn, LocalInv, CopyAgrees
  <2> QED BY <1>5, <2>1 DEF Fails, LocalInv, CallOK, CleanedUp, Claims
<1>6. CASE IsFree(c)
  BY <1>1, <1>6 DEF IsFree, GoesOn, LocalInv, CallOK, CopyAgrees, CleanedUp, HasIds
<1>7. CASE Deletes(c)
  <2>1. DeleteRef(copy[c]) \in Refs
    BY <1>1, <1>7, DeleteRefType DEF Deletes, LocalInv, CallOK
  <2>2. azure'[DeleteRef(copy[c])] = None
    BY <1>7, <2>1 DEF Deletes, IInv, OutsideTyped
  <2>3. CallOK(c)' /\ CopyAgrees(c)'
    BY <1>1, <1>7 DEF Deletes, GoesOn, LocalInv, CallOK, CopyAgrees
  <2>4. CleanedUp(c)'
    BY <1>7, <2>2 DEF Deletes, CleanedUp, DeleteRef
  <2> QED BY <2>3, <2>4 DEF LocalInv
<1>8. CASE Imports(c)
  <2>1. copy[c].phase = "live" /\ HasIds(copy[c]) /\ copy[c].man.importId # None
    BY <1>1, <1>8 DEF Imports, LocalInv, CallOK
  <2>2. CallOK(c)'
    BY <1>8, <2>1 DEF Imports, GoesOn, CallOK, HasIds
  <2>3. CopyAgrees(c)'
    BY <1>1, <1>8, <2>1 DEF Imports, GoesOn, LocalInv, CopyAgrees
  <2>4. CleanedUp(c)'
    BY <1>8 DEF Imports, GoesOn, CleanedUp, initiatives, DriftOf, HasDefinitionDrift
  <2> QED BY <2>2, <2>3, <2>4 DEF LocalInv
<1>9. CASE Applies(c)
  <2>1. copy[c].phase = "live"
    BY <1>1, <1>9 DEF Applies, WritesAzure, LocalInv, CallOK
  <2>2. copy'[c].status.id # None
    BY <1>9, NoneAssumption DEF Applies, WritesAzure
  <2>3. CopyAgrees(c)'
    BY <1>1, <1>9, <2>1, <2>2 DEF Applies, GoesOn, LocalInv, CopyAgrees
  <2> QED BY <1>9, <2>3 DEF Applies, LocalInv, CallOK, CleanedUp
<1> QED BY <1>1, <1>2, <1>3, <1>4, <1>5, <1>6, <1>7, <1>8, <1>9 DEF ObjectStep, CopyMoves

M == INSTANCE ManagedResourceProofs WITH
  stage <- [c \in CRs |-> Stage(obj[c])],
  work <- [c \in CRs |-> Work(pc[c], copy[c])],
  bound <- [c \in CRs |-> HasId(obj[c])],
  owed <- [c \in CRs |-> Owes(obj[c])]

LEMMA SameModule == M!Next => Managing!Next
  BY DEF M!Next, M!Create, M!Guard, M!MarkDeleted, M!StartWriting, M!StartCleaning, M!Bind,
         M!Forget, M!GiveUp, M!Owes, M!Moves, M!Starts, M!Ends,
         Managing!Next, Managing!Create, Managing!Guard, Managing!MarkDeleted,
         Managing!StartWriting, Managing!StartCleaning, Managing!Bind, Managing!Forget,
         Managing!GiveUp, Managing!Owes, Managing!Moves, Managing!Starts, Managing!Ends

\* One object's step is a step of ManagedResource.
LEMMA Lifting ==
  ASSUME NEW c \in CRs, StepOf(c, Owes(obj[c]))
  PROVE  Managing!Next
<1> DEFINE stage == [d \in CRs |-> Stage(obj[d])]
           work == [d \in CRs |-> Work(pc[d], copy[d])]
           bound == [d \in CRs |-> HasId(obj[d])]
<1>1. M!Owes
  BY DEF M!Owes, Owes
<1>2. /\ stage' = [stage EXCEPT ![c] = stage'[c]]
      /\ work' = [work EXCEPT ![c] = work'[c]]
      /\ bound' = [bound EXCEPT ![c] = bound'[c]]
  BY DEF StepOf, Untouched, SameStage, SameWork, SameBound
<1>3. HasId(obj'[c]) \in BOOLEAN
  BY DEF HasId
<1>4. \/ M!Same(c) /\ work'[c] = work[c]
      \/ M!Lives(c) \/ M!StartsWork(c) \/ M!EndsWork(c)
  BY <1>3 DEF StepOf, Untouched, LifeStep, StartStep, EndStep, SameStage, SameWork, SameBound,
         M!Same, M!Lives, M!StartsWork, M!EndsWork
<1>5. M!Next
  BY <1>1, <1>2, <1>4, M!ObjectStep
<1> QED BY <1>5, SameModule

LEMMA SafeLifting ==
  ASSUME SafeStep
  PROVE  Managing!Next
<1>1. CASE \E c \in CRs : StepOf(c, TRUE)
  <2> PICK c \in CRs : StepOf(c, TRUE)
    BY <1>1
  <2>1. StepOf(c, Owes(obj[c]))
    BY DEF StepOf, EndStep
  <2> QED BY <2>1, Lifting
<1>2. CASE \A d \in CRs : Untouched(d)
  BY <1>2 DEF Untouched, SameStage, SameWork, SameBound, Managing!Next, Managing!Owes, Owes
<1> QED BY <1>1, <1>2 DEF SafeStep

LEMMA Step == IInv /\ [Next]_vars => IInv' /\ Managing!Next
<1> SUFFICES ASSUME IInv, [Next]_vars
             PROVE  IInv' /\ Managing!Next
  OBVIOUS
<1>1. StepOK
  BY NextOK
<1>2. IInv'
  BY <1>1, AzureStep, LocalStep DEF StepOK, IInv
<1>3. Managing!Next
  BY <1>1, Lifting, SafeLifting DEF StepOK
<1> QED BY <1>2, <1>3

LEMMA Invariance == Spec => []IInv
  BY InitOK, Step, PTL DEF Spec

\* The variables have their types: the copy stays an initiative's object while
\* its references are resolved, and no list with an unresolved reference
\* reaches Azure.
THEOREM TypeCorrect == Spec => []TypeOK
<1>1. IInv => TypeOK
  BY DEF IInv, Runtime, RuntimeInv, Typed, OutsideTyped, TypeOK, Objects
<1> QED BY <1>1, Invariance, PTL

\* The controller implements ManagedResource: its initiatives are created and
\* bound under the finalizer, no stale reconcile cleans up a guarded object,
\* and an object ends when the initiative it is bound to is deleted.
THEOREM InitiativesAreManaged == Spec => Lifecycle
<1>1. IInv /\ [Next]_vars => [Managing!Next]_(Managing!vars)
  BY Step
<1> QED BY <1>1, InitOK, Invariance, PTL DEF Spec, Lifecycle, Managing!Spec

-----------------------------------------------------------------------------
(* What the status says of Azure.                                          *)

\* The names that the manifests of c may give its initiative.
OwnNames(c) ==
  {NameOf[c]} \cup {m.importName : m \in {n \in Offers[c] : n.importName # None}}
              \cup {m.importId.name : m \in {n \in Offers[c] : n.importId # None}}

\* Two objects never ask for the same name.
NamesApart == \A c, d \in CRs : c # d => OwnNames(c) \cap OwnNames(d) = {}

Own(c, o) ==
  /\ o.man.importName # None => o.man.importName \in OwnNames(c)
  /\ o.man.importId # None => o.man.importId.name \in OwnNames(c)
  /\ o.status.id # None => o.status.id.name \in OwnNames(c)

OwnInv(c) ==
  /\ Present(obj[c]) => Own(c, obj[c])
  /\ Present(cache[c]) => Own(c, cache[c])
  /\ pc[c] # "idle" => Own(c, copy[c])

Backed(c, o) ==
  o.status.ready \in {"Reconciled", "AppliedOnce"} =>
    LET i == azure[ImportRef(o.status.id)]
    IN  o.status.id # None /\ i # None /\ i.by = c /\ i.gen >= o.status.observed

\* The stored status is true, and so is the one that is about to be stored.
StatusInv(c) ==
  portal = 0 =>
    /\ obj[c].phase = "live" => Backed(c, obj[c])
    /\ pc[c] = "StatusUpdate" => Backed(c, copy[c])

LEMMA OwnTarget ==
  ASSUME NEW c \in CRs, NEW o \in Objects, Own(c, o), Target(c, o.man) \in Refs
  PROVE  Target(c, o.man).name \in OwnNames(c)
<1>1. Target(c, o.man).name = TargetName(c, o.man)
  BY DEF Target
<1>2. TargetName(c, o.man) # None
  BY <1>1, NoneAssumption DEF Refs
<1>3. NameOf[c] \in OwnNames(c)
  BY DEF OwnNames
<1> QED BY <1>1, <1>2, <1>3 DEF TargetName, Own

LEMMA OwnStep ==
  ASSUME IInv, [Next]_vars, NEW c \in CRs, OwnInv(c)
  PROVE  OwnInv(c)'
<1>1. /\ ObjectStep(c) /\ LocalInv(c)
      /\ (pc[c] # "idle" => copy[c] \in Objects)
  BY NextOK, CopyFields DEF IInv, Runtime, StepOK, Objects
<1>2. Present(obj'[c]) => Own(c, obj'[c])
  <2>1. ASSUME NEW m \in Offers[c]
        PROVE  /\ m.importName # None => m.importName \in OwnNames(c)
               /\ m.importId # None => m.importId.name \in OwnNames(c)
    BY DEF OwnNames
  <2> QED BY <1>1, <2>1
          DEF ObjectStep, ObjectMoves, Created, Edited, Reported, Own, OwnInv, NoStatus
<1>3. Present(cache'[c]) => Own(c, cache'[c])
  BY <1>1 DEF ObjectStep, CacheMoves, OwnInv
<1>4. pc'[c] # "idle" => Own(c, copy'[c])
  <2>1. Rests(c) \/ Waits(c) \/ Begins(c) \/ Fails(c) \/ IsFree(c) \/ Deletes(c) =>
          (pc'[c] # "idle" => Own(c, copy'[c]))
    BY DEF Rests, Waits, Begins, Fails, IsFree, Deletes, GoesOn, OwnInv, Own, SameTarget
  <2>2. ASSUME Imports(c)
        PROVE  Own(c, copy'[c])
    BY <1>1, <2>2 DEF Imports, GoesOn, OwnInv, Own, LocalInv, CallOK
  <2>3. ASSUME Applies(c)
        PROVE  Own(c, copy'[c])
    BY <1>1, <2>3, OwnTarget DEF Applies, WritesAzure, GoesOn, OwnInv, Own
  <2> QED BY <1>1, <2>1, <2>2, <2>3 DEF ObjectStep, CopyMoves
<1> QED BY <1>2, <1>3, <1>4 DEF OwnInv

\* What a name of c is bound to is changed by c alone, or by somebody else
\* than the operator.
LEMMA BoundStays ==
  ASSUME IInv, \A d \in CRs : OwnInv(d), NamesApart, [Next]_vars, portal' = 0,
         NEW c \in CRs, NEW id \in Refs, id.name \in OwnNames(c), pc[c] # "Delete"
  PROVE  LET r == ImportRef(id)
         IN  /\ portal = 0
             /\ \/ azure'[r] = azure[r]
                \/ /\ pc[c] = "CreateOrUpdate"
                   /\ azure'[r] = Initiative(c, copy[c], copy[c].man.spec.members)
<1> DEFINE r == ImportRef(id)
           written == pc[c] = "CreateOrUpdate" /\
                      azure'[r] = Initiative(c, copy[c], copy[c].man.spec.members)
<1>1. r.name = id.name
  BY DEF ImportRef
<1>2. \A d \in CRs : pc[d] # "idle" => copy[d] \in Objects /\ Own(d, copy[d]) /\ LocalInv(d)
  BY CallFacts DEF OwnInv
<1>3. portal \in Nat /\ azure \in [Refs -> Resources \cup {None}]
  BY ConstantsAssumption DEF IInv, OutsideTyped
<1>4. ASSUME NEW d \in CRs, pc[d] = "Delete",
             azure' = [azure EXCEPT ![DeleteRef(copy[d])] = None]
      PROVE  azure'[r] = azure[r]
  <2>1. d # c
    BY <1>4
  <2>2. DeleteRef(copy[d]).name \in OwnNames(d)
    BY <1>2, <1>4 DEF DeleteRef, Own, LocalInv, CallOK
  <2>3. DeleteRef(copy[d]) # r
    BY <1>1, <2>1, <2>2 DEF NamesApart
  <2> QED BY <1>3, <1>4, <2>3
<1>5. ASSUME NEW d \in CRs, WritesAzure(d)
      PROVE  azure'[r] = azure[r] \/ written
  <2>1. Target(d, copy[d].man).name \in OwnNames(d)
    BY <1>2, <1>5, OwnTarget DEF WritesAzure
  <2>2. CASE d # c
    <3>1. Target(d, copy[d].man) # r
      BY <1>1, <2>1, <2>2 DEF NamesApart
    <3> QED BY <1>3, <1>5, <3>1 DEF WritesAzure
  <2>3. CASE d = c
    BY <1>3, <1>5, <2>3 DEF WritesAzure
  <2> QED BY <2>2, <2>3
<1>6. UNCHANGED initiatives => azure'[r] = azure[r] /\ portal = 0
  BY DEF initiatives
<1>7. portal' # portal + 1
  BY <1>3
<1> HIDE DEF r, written
<1>8. portal = 0 /\ (azure'[r] = azure[r] \/ written)
  BY <1>4, <1>5, <1>6, <1>7, AzureStep DEF AzureMoves, Touches
<1> QED BY <1>8 DEF r, written

\* What is stored stays true.
LEMMA StoredStays ==
  ASSUME IInv, \A d \in CRs : OwnInv(d), NamesApart, [Next]_vars, portal' = 0,
         NEW c \in CRs, StatusInv(c), obj[c].phase = "live",
         NEW status, status = obj[c].status, status.ready \in {"Reconciled", "AppliedOnce"}
  PROVE  LET i == azure'[ImportRef(status.id)]
         IN  status.id # None /\ i # None /\ i.by = c /\ i.gen >= status.observed
<1>1. /\ obj[c] \in Objects /\ Present(obj[c]) /\ Protocol(c) /\ portal \in Nat
      /\ (pc[c] # "idle" => copy[c] \in Objects /\ LocalInv(c))
  BY CopyFields, ConstantsAssumption
     DEF IInv, Runtime, RuntimeInv, Objects, Present, OutsideTyped
<1>2. portal = 0
  BY <1>1, AzureStep DEF AzureMoves, Touches, initiatives
<1>3. /\ Backed(c, obj[c]) /\ status.id # None
      /\ status.id \in Refs /\ status.id.name \in OwnNames(c)
  BY <1>1, <1>2 DEF StatusInv, Backed, Objects, ObjectsOf, Statuses, OwnInv, Own
<1>4. pc[c] # "Delete"
  BY <1>1, <1>3 DEF Protocol, CacheOK, GuardOK, Managed, HasId, Work, LocalInv, CallOK
<1> DEFINE r == ImportRef(status.id)
<1>5. \/ azure'[r] = azure[r]
      \/ /\ pc[c] = "CreateOrUpdate"
         /\ azure'[r] = Initiative(c, copy[c], copy[c].man.spec.members)
  BY <1>3, <1>4, BoundStays
<1>6. CASE azure'[r] = azure[r]
  BY <1>3, <1>6 DEF Backed
<1>7. CASE /\ pc[c] = "CreateOrUpdate"
           /\ azure'[r] = Initiative(c, copy[c], copy[c].man.spec.members)
  <2>1. copy[c].gen >= status.observed /\ HasIds(copy[c]) /\ copy[c] \in Objects
    BY <1>1, <1>7 DEF Protocol, GenOK, LocalInv, CallOK
  <2> HIDE DEF r
  <2>2. azure'[r] # None /\ azure'[r].by = c /\ azure'[r].gen >= status.observed
    BY <1>7, <2>1, InitiativeFacts
  <2> QED BY <1>3, <2>2 DEF r
<1> QED BY <1>5, <1>6, <1>7

LEMMA StatusInvStep ==
  ASSUME IInv, \A d \in CRs : OwnInv(d), NamesApart, [Next]_vars, NEW c \in CRs, StatusInv(c)
  PROVE  StatusInv(c)'
<1> SUFFICES ASSUME portal' = 0
             PROVE  /\ obj'[c].phase = "live" => Backed(c, obj[c])'
                    /\ pc'[c] = "StatusUpdate" => Backed(c, copy[c])'
  BY DEF StatusInv
<1>1. ObjectStep(c) /\ (pc[c] # "idle" => copy[c] \in Objects /\ LocalInv(c))
  BY NextOK, CallFacts DEF StepOK
<1>2. ASSUME pc[c] = "StatusUpdate"
      PROVE  azure' = azure /\ Backed(c, copy[c])
  BY <1>2, OneWriter DEF StatusInv
<1>3. ASSUME obj'[c].phase = "live"
      PROVE  Backed(c, obj[c])'
  <2>1. CASE Created(c, NoStatus)
    BY <2>1, NoneAssumption DEF Created, NoStatus, Backed
  <2>2. CASE Edited(c)
    <3>1. obj[c].phase = "live" /\ obj'[c].status = obj[c].status
      BY <1>3, <2>2 DEF Edited
    <3> QED BY <3>1, StoredStays DEF Backed
  <2>3. CASE Reported(c)
    BY <1>2, <2>3 DEF Reported, Backed
  <2> QED BY <1>1, <1>3, <2>1, <2>2, <2>3 DEF ObjectStep, ObjectMoves, Present
<1>4. ASSUME pc'[c] = "StatusUpdate"
      PROVE  Backed(c, copy[c])'
  <2>1. CASE Waits(c)
    BY <1>2, <1>4, <2>1 DEF Waits, Backed
  <2>2. CASE Begins(c) \/ Fails(c) \/ Imports(c)
    BY <1>4, <2>2 DEF Begins, Fails, Imports, Claims, Backed
  <2>3. CASE Applies(c)
    <3> DEFINE r == Target(c, copy[c].man)
    <3>1. /\ r \in Refs /\ copy[c] \in Objects /\ HasIds(copy[c]) /\ copy[c].gen \in Nat
          /\ copy'[c].status.id = r /\ copy'[c].status.observed = copy[c].gen
      BY <1>1, <2>3 DEF Applies, WritesAzure, LocalInv, CallOK, Objects, ObjectsOf
    <3>2. azure'[r] = Initiative(c, copy[c], copy[c].man.spec.members)
      BY <2>3, <3>1 DEF Applies, WritesAzure, IInv, OutsideTyped
    <3>3. ImportRef(r) = r /\ r # None
      BY <3>1, TargetRef, NoneAssumption
    <3> HIDE DEF r
    <3> QED BY <3>1, <3>2, <3>3, InitiativeFacts DEF Backed
  <2> QED BY <1>1, <1>4, <2>1, <2>2, <2>3 DEF ObjectStep, CopyMoves, Rests, IsFree, Deletes
<1> QED BY <1>3, <1>4

LEMMA StatusInvariance ==
  ASSUME NamesApart
  PROVE  Spec => []\A c \in CRs : OwnInv(c) /\ StatusInv(c)
<1>1. Init => \A c \in CRs : OwnInv(c) /\ StatusInv(c)
  BY DEF Init, RuntimeInit, OwnInv, StatusInv, Present, Absent
<1>2. IInv /\ (\A c \in CRs : OwnInv(c) /\ StatusInv(c)) /\ [Next]_vars =>
        (\A c \in CRs : OwnInv(c) /\ StatusInv(c))'
  BY OwnStep, StatusInvStep
<1> QED BY <1>1, <1>2, Invariance, PTL DEF Spec

\* When no two objects share a name in Azure, a live object that reports
\* Reconciled or AppliedOnce has its initiative there, written by itself from
\* the reported generation or a later one, until somebody else writes.
THEOREM StatusIsBacked ==
  ASSUME NamesApart
  PROVE  Spec => []StatusNotAhead
<1>1. (\A c \in CRs : OwnInv(c) /\ StatusInv(c)) => StatusNotAhead
  BY DEF StatusInv, Backed, StatusNotAhead
<1> QED BY <1>1, StatusInvariance, PTL

-----------------------------------------------------------------------------
(* What the drift condition says of Azure.                                 *)

\* The initiative that id names has this head and lists these members.
Lists(id, head, members) ==
  LET i == azure[ImportRef(id)]
  IN  id # None /\ i.head = head /\ i.members = members

SaysInSync(o) == o.status.ready = "ObservedOnly" /\ o.status.drift = "InSync"

\* A copy of the stored generation spells out the stored spec.
CopySpells(c) ==
  /\ defChanges = 0 /\ Present(obj[c]) /\ copy[c].gen = obj[c].gen
  /\ \/ pc[c] \in {"Import", "Get", "CreateOrUpdate"}
     \/ pc[c] = "StatusUpdate" /\ copy[c].status.ready = "ObservedOnly"
  => SpellsOut(copy[c], obj[c])

\* An InSync is true, the stored one and the one that is about to be stored.
SyncInv(c) ==
  /\ CopySpells(c)
  /\ portal = 0 /\ defChanges = 0 =>
       /\ /\ obj[c].phase = "live" /\ SaysInSync(obj[c])
          /\ obj[c].status.observed = obj[c].gen
          => Lists(obj[c].status.id, obj[c].man.spec.head, Resolved(obj[c]))
       /\ pc[c] = "StatusUpdate" /\ SaysInSync(copy[c]) =>
            /\ copy[c].status.observed = copy[c].gen
            /\ Lists(copy[c].status.id, copy[c].man.spec.head, copy[c].man.spec.members)

LEMMA ResolvedStays ==
  ASSUME NEW c \in CRs, seen' = seen, obj'[c].man.spec = obj[c].man.spec
  PROVE  Resolved(obj[c])' = Resolved(obj[c])
  BY DEF Resolved, Lookup

LEMMA CopySpellsStep ==
  ASSUME IInv, [Next]_vars, NEW c \in CRs, CopySpells(c)
  PROVE  CopySpells(c)'
<1> SUFFICES ASSUME defChanges' = 0, Present(obj'[c]), copy'[c].gen = obj'[c].gen,
                    \/ pc'[c] \in {"Import", "Get", "CreateOrUpdate"}
                    \/ pc'[c] = "StatusUpdate" /\ copy'[c].status.ready = "ObservedOnly"
             PROVE  SpellsOut(copy[c], obj[c])'
  BY DEF CopySpells
<1>1. ObjectStep(c) /\ Protocol(c) /\ edits \in Nat /\ defChanges = 0 /\ seen' = seen
  BY NextOK, AzureStep, CopyFields DEF StepOK, IInv, Runtime, RuntimeInv, DefinitionsStay
<1>2. ASSUME copy'[c].man = copy[c].man, obj'[c].man.spec = obj[c].man.spec,
             SpellsOut(copy[c], obj[c])
      PROVE  SpellsOut(copy[c], obj[c])'
  <2>1. Resolved(obj[c])' = Resolved(obj[c])
    BY <1>1, <1>2, ResolvedStays
  <2> QED BY <1>2, <2>1 DEF SpellsOut
<1>3. CASE Waits(c)
  <2>1. copy[c].gen <= edits /\ copy[c].gen # edits + 1
    <3>1. copy[c] \in Objects /\ Dated(copy[c])
      BY <1>1, <1>3, CallFacts DEF Waits, Protocol, GenOK
    <3> QED BY <1>1, <3>1 DEF Dated, Objects, ObjectsOf
  <2>2. obj'[c].man.spec = obj[c].man.spec /\ obj'[c].gen = obj[c].gen /\ Present(obj[c])
    BY <1>1, <1>3, <2>1
       DEF ObjectStep, ObjectMoves, Created, Edited, Reported, Waits
  <2> QED BY <1>1, <1>2, <1>3, <2>2 DEF Waits, CopySpells
<1>4. CASE Begins(c)
  <2>1. /\ SpellsOut(copy'[c], cache[c]) /\ copy'[c].gen = cache[c].gen
        /\ obj'[c] = obj[c] /\ Present(cache[c])
    BY <1>4 DEF Begins, Claims
  <2>2. cache[c].man.spec = obj[c].man.spec
    BY <1>1, <2>1 DEF Protocol, GenOK, Present
  <2>3. Resolved(cache[c]) = Resolved(obj[c])
    BY <2>2 DEF Resolved
  <2>4. Resolved(obj[c])' = Resolved(obj[c])
    BY <1>1, <2>1, ResolvedStays
  <2> QED BY <2>1, <2>2, <2>3, <2>4 DEF SpellsOut
<1>5. CASE IsFree(c) \/ Imports(c)
  <2>1. /\ copy'[c].man = copy[c].man /\ obj'[c] = obj[c] /\ copy[c].gen = obj[c].gen
        /\ pc[c] \in {"Import", "Get", "CreateOrUpdate"}
    BY <1>5 DEF IsFree, Imports, GoesOn
  <2> QED BY <1>1, <1>2, <2>1 DEF CopySpells, Present
<1> QED BY <1>1, <1>3, <1>4, <1>5
        DEF ObjectStep, CopyMoves, Rests, Fails, Deletes, Applies, Claims

\* A stored InSync of the current generation stays true.
LEMMA SyncStays ==
  ASSUME IInv, \A d \in CRs : OwnInv(d), NamesApart, [Next]_vars, NEW c \in CRs, SyncInv(c),
         portal' = 0, defChanges' = 0, Edited(c), obj'[c].phase = "live",
         SaysInSync(obj'[c]), obj'[c].status.observed = obj'[c].gen
  PROVE  Lists(obj[c].status.id, obj[c].man.spec.head, Resolved(obj[c]))'
<1>1. /\ obj[c] \in Objects /\ Present(obj[c]) /\ Protocol(c) /\ edits \in Nat
      /\ obj[c].phase = "live" /\ portal \in Nat
      /\ (pc[c] # "idle" => copy[c] \in Objects /\ LocalInv(c))
  BY CopyFields, ConstantsAssumption
     DEF IInv, Runtime, RuntimeInv, Objects, Present, OutsideTyped, Edited
<1>2. portal = 0 /\ defChanges = 0 /\ seen' = seen
  BY <1>1, AzureStep DEF AzureMoves, Touches, initiatives, DefinitionsStay
<1>3. /\ obj'[c].status = obj[c].status /\ obj'[c].man.spec = obj[c].man.spec
      /\ obj[c].status.observed = obj[c].gen
  <2>1. /\ obj[c].gen \in Nat /\ obj[c].status.observed \in Nat
        /\ obj[c].status.observed <= obj[c].gen /\ obj[c].gen <= edits
    BY <1>1 DEF Protocol, GenOK, Dated, Objects, ObjectsOf, Statuses
  <2> QED BY <1>1, <2>1 DEF Edited
<1> DEFINE id == obj[c].status.id
           r == ImportRef(id)
           head == obj[c].man.spec.head
           members == Resolved(obj[c])
<1>4. id # None /\ azure[r].head = head /\ azure[r].members = members
  BY <1>1, <1>2, <1>3 DEF SyncInv, SaysInSync, Lists
<1>5. id \in Refs /\ id.name \in OwnNames(c)
  BY <1>1, <1>4 DEF Objects, ObjectsOf, Statuses, OwnInv, Own
<1>6. pc[c] # "Delete"
  BY <1>1, <1>4 DEF Protocol, CacheOK, GuardOK, Managed, HasId, Work, LocalInv, CallOK
<1>7. \/ azure'[r] = azure[r]
      \/ /\ pc[c] = "CreateOrUpdate"
         /\ azure'[r] = Initiative(c, copy[c], copy[c].man.spec.members)
  BY <1>5, <1>6, BoundStays
<1>8. azure'[r].head = head /\ azure'[r].members = members
  <2>1. CASE azure'[r] = azure[r]
    BY <1>4, <2>1
  <2>2. CASE /\ pc[c] = "CreateOrUpdate"
             /\ azure'[r] = Initiative(c, copy[c], copy[c].man.spec.members)
    <3>1. copy[c].gen = obj[c].gen
      BY <1>1, <1>3, <2>2 DEF Protocol, GenOK, Objects, ObjectsOf
    <3>2. SpellsOut(copy[c], obj[c]) /\ HasIds(copy[c]) /\ copy[c] \in Objects
      BY <1>1, <1>2, <2>2, <3>1 DEF SyncInv, CopySpells, LocalInv, CallOK
    <3> QED BY <2>2, <3>2, InitiativeFacts DEF SpellsOut
  <2> QED BY <1>7, <2>1, <2>2
<1>9. Resolved(obj[c])' = members
  BY <1>2, <1>3, ResolvedStays
<1> HIDE DEF members
<1> QED BY <1>3, <1>4, <1>8, <1>9 DEF Lists, ImportRef

LEMMA SyncInvStep ==
  ASSUME IInv, \A d \in CRs : OwnInv(d), NamesApart, [Next]_vars, NEW c \in CRs, SyncInv(c)
  PROVE  SyncInv(c)'
<1>1. CopySpells(c)'
  BY CopySpellsStep DEF SyncInv
<1> SUFFICES ASSUME portal' = 0, defChanges' = 0
             PROVE  /\ /\ obj'[c].phase = "live" /\ SaysInSync(obj'[c])
                       /\ obj'[c].status.observed = obj'[c].gen
                       => Lists(obj[c].status.id, obj[c].man.spec.head, Resolved(obj[c]))'
                    /\ pc'[c] = "StatusUpdate" /\ SaysInSync(copy'[c]) =>
                         /\ copy'[c].status.observed = copy'[c].gen
                         /\ Lists(copy[c].status.id, copy[c].man.spec.head,
                                  copy[c].man.spec.members)'
  BY <1>1 DEF SyncInv, SaysInSync
<1>2. /\ ObjectStep(c) /\ defChanges = 0 /\ seen' = seen
      /\ (pc[c] # "idle" => copy[c] \in Objects /\ LocalInv(c))
  BY NextOK, AzureStep, CallFacts DEF StepOK, DefinitionsStay
<1>3. ASSUME pc[c] = "StatusUpdate", SaysInSync(copy[c])
      PROVE  /\ azure' = azure /\ copy[c].status.observed = copy[c].gen
             /\ Lists(copy[c].status.id, copy[c].man.spec.head, copy[c].man.spec.members)
  BY <1>2, <1>3, OneWriter DEF SyncInv
<1>4. ASSUME obj'[c].phase = "live", SaysInSync(obj'[c]),
             obj'[c].status.observed = obj'[c].gen
      PROVE  Lists(obj[c].status.id, obj[c].man.spec.head, Resolved(obj[c]))'
  <2>1. CASE Created(c, NoStatus)
    BY <1>4, <2>1, NoneAssumption DEF Created, NoStatus, SaysInSync
  <2>2. CASE Edited(c)
    BY <1>4, <2>2, SyncStays
  <2>3. CASE Reported(c)
    <3>1. /\ pc[c] = "StatusUpdate" /\ SaysInSync(copy[c]) /\ Present(obj[c])
          /\ obj'[c].status = copy[c].status /\ obj'[c].man = obj[c].man
          /\ copy[c].status.observed = obj[c].gen
      BY <1>4, <2>3 DEF Reported, SaysInSync
    <3>2. SpellsOut(copy[c], obj[c])
      BY <1>2, <1>3, <3>1 DEF SyncInv, CopySpells, SaysInSync
    <3>3. Resolved(obj[c])' = Resolved(obj[c])
      BY <1>2, <3>1, ResolvedStays
    <3> QED BY <1>3, <3>1, <3>2, <3>3 DEF Lists, SpellsOut
  <2> QED BY <1>2, <1>4, <2>1, <2>2, <2>3 DEF ObjectStep, ObjectMoves, Present
<1>5. ASSUME pc'[c] = "StatusUpdate", SaysInSync(copy'[c])
      PROVE  /\ copy'[c].status.observed = copy'[c].gen
             /\ Lists(copy[c].status.id, copy[c].man.spec.head, copy[c].man.spec.members)'
  <2>1. CASE Waits(c)
    BY <1>3, <1>5, <2>1 DEF Waits, Lists
  <2>2. CASE Imports(c)
    <3>1. /\ azure' = azure /\ copy[c].man.importId # None
          /\ copy'[c].man = copy[c].man /\ copy'[c].gen = copy[c].gen
          /\ copy'[c].status.id = copy[c].man.importId
          /\ copy'[c].status.observed = copy[c].gen /\ copy'[c].status.drift = "InSync"
          /\ copy'[c].status.drift =
               DriftOf(azure[ImportRef(copy[c].man.importId)], copy[c].man.spec)
      BY <1>2, <1>5, <2>2
         DEF Imports, GoesOn, initiatives, LocalInv, CallOK, SaysInSync
    <3> QED BY <3>1 DEF Lists, DriftOf, HasDefinitionDrift
  <2> QED BY <1>2, <1>5, <2>1, <2>2
          DEF ObjectStep, CopyMoves, Rests, Begins, Fails, IsFree, Deletes, Applies, Claims,
              SaysInSync
<1> QED BY <1>4, <1>5

\* When no two objects share a name in Azure, an InSync of the current
\* generation is true: the initiative has the displayName and description of
\* the spec and lists what its references stand for, until somebody else
\* writes or a definition changes.
THEOREM InSyncIsTrue ==
  ASSUME NamesApart
  PROVE  Spec => []InSyncIsCurrent
<1>1. Init => \A c \in CRs : SyncInv(c)
  BY DEF Init, RuntimeInit, SyncInv, CopySpells, Present, Absent
<1>2. /\ IInv /\ (\A c \in CRs : OwnInv(c) /\ StatusInv(c)) /\ (\A c \in CRs : SyncInv(c))
      /\ [Next]_vars
      => (\A c \in CRs : SyncInv(c))'
  BY SyncInvStep
<1>3. (\A c \in CRs : SyncInv(c)) => InSyncIsCurrent
  BY DEF SyncInv, SaysInSync, Lists, InSyncIsCurrent
<1> QED BY <1>1, <1>2, <1>3, Invariance, StatusInvariance, PTL DEF Spec
=============================================================================
