------------------------ MODULE PolicyExemptionProofs ------------------------
(***************************************************************************)
(* Theorems about PolicyExemption, for every set of objects, offers, names *)
(* and bounds: type correctness, what the status says of Azure, that a     *)
(* binding stays, and that the controller implements ManagedResource.      *)
(*                                                                         *)
(* The names in Azure make no hypothesis necessary: a UUID is new when it  *)
(* is given, and from then on one object holds it, in its status, in the   *)
(* cache or in the copy of a reconcile.                                    *)
(***************************************************************************)
EXTENDS PolicyExemption, ControllerRuntimeProofs

Runtime == RuntimeInv(Manifests, Statuses, Calls)

OutsideTyped ==
  /\ azure \in [Ids -> Resources \cup {None}]
  /\ assigned \in [Assignments -> RefStates]
  /\ refChanges \in 0..MaxRefChanges

\* What Delete deletes.
DeleteId(o) == [scope |-> o.man.spec.scope, uuid |-> o.status.id.uuid]

\* What CreateOrUpdate writes.
WrittenId(o) == [scope |-> o.man.spec.scope, uuid |-> NameFor(o)]

\* What the branches on the way to a call have established about the copy.
CallOK(c) ==
  /\ pc[c] = "CreateOrUpdate" => copy[c].phase = "live"
  /\ pc[c] \in {"Delete", "RemoveFinalizer"} => copy[c].phase = "deleting"
  /\ pc[c] = "Delete" => copy[c].status.id # None

\* A write may move the binding of o to the scope of its spec.
Rebinds(o, id) ==
  /\ id \in Ids /\ id.scope = o.man.spec.scope
  /\ o.status.id # None => id.uuid = o.status.id.uuid

\* A fresh copy has the scope of the stored object, and its binding unless a
\* write has just given it another one.
CopyAgrees(c) ==
  fresh[c] =>
    /\ copy[c].man.spec.scope = obj[c].man.spec.scope
    /\ \/ copy[c].status.id = obj[c].status.id
       \/ /\ pc[c] = "StatusUpdate" /\ copy[c].phase = "live"
          /\ Rebinds(obj[c], copy[c].status.id)

\* Before the finalizer is removed the exemption is.
CleanedUp(c) ==
  pc[c] = "RemoveFinalizer" =>
    copy[c].status.id = None \/ azure[DeleteId(copy[c])] = None

LocalInv(c) == CallOK(c) /\ CopyAgrees(c) /\ CleanedUp(c)

IInv == Runtime /\ OutsideTyped /\ \A c \in CRs : LocalInv(c)

-----------------------------------------------------------------------------
(* What the steps between two calls do to the copy.                        *)

\* p is o with another status, reported for a generation that o has seen.
Restated(o, p) ==
  /\ p \in Objects
  /\ p.phase = o.phase /\ p.fin = o.fin /\ p.gen = o.gen /\ p.man = o.man
  /\ p.status.observed <= p.gen

LEMMA ReadyFacts ==
  ASSUME NEW o \in Objects, NEW reason \in Reasons
  PROVE  LET p == Ready(o, reason)
         IN  /\ Restated(o, p)
             /\ p.status.ready = reason /\ p.status.observed = o.gen
             /\ p.status.id = o.status.id
<1> DEFINE p == Ready(o, reason)
<1>1. /\ p \in Objects /\ p.phase = o.phase /\ p.fin = o.fin /\ p.gen = o.gen /\ p.man = o.man
      /\ p.status.ready = reason /\ p.status.observed = o.gen
      /\ p.status.id = o.status.id
  BY DEF Ready, Objects, ObjectsOf, Statuses
<1>2. o.gen \in Nat
  BY DEF Objects, ObjectsOf
<1> HIDE DEF p
<1> QED BY <1>1, <1>2 DEF Restated, p

LEMMA BoundFacts ==
  ASSUME NEW o \in Objects, NEW id \in Ids
  PROVE  LET p == Ready([o EXCEPT !.status.id = id], "Reconciled")
         IN  /\ Restated(o, p)
             /\ p.status.ready = "Reconciled" /\ p.status.observed = o.gen
             /\ p.status.id = id
<1> DEFINE q == [o EXCEPT !.status.id = id]
<1>1. /\ q \in Objects /\ q.phase = o.phase /\ q.fin = o.fin /\ q.gen = o.gen /\ q.man = o.man
      /\ q.status.id = id
  BY DEF Objects, ObjectsOf, Statuses
<1> HIDE DEF q
<1> QED BY <1>1, ReadyFacts DEF q, Restated, Reasons

\* Resolving the reference changes the assignment of the spec alone.
LEMMA ResolvedFacts ==
  ASSUME NEW o \in Objects, ~Unresolved(o), OutsideTyped
  PROVE  LET p == Resolved(o)
         IN  /\ p \in Objects /\ p.phase = o.phase /\ p.fin = o.fin /\ p.gen = o.gen
             /\ p.status = o.status /\ p.man.spec.scope = o.man.spec.scope
<1>1. CASE ByRef(o)
  <2>1. RefState(o) \in AssignmentIds
    BY <1>1 DEF Unresolved
  <2> QED BY <1>1, <2>1 DEF Resolved, Objects, ObjectsOf, Manifests, Specs
<1>2. CASE ~ByRef(o)
  BY <1>2 DEF Resolved
<1> QED BY <1>1, <1>2

\* The names are Azure's.
LEMMA DeleteIdType ==
  ASSUME NEW o \in Objects, o.status.id # None
  PROVE  DeleteId(o) \in Ids
  BY DEF DeleteId, Ids, Objects, ObjectsOf, Statuses, Manifests, Specs

LEMMA WrittenIdType ==
  ASSUME NEW o \in Objects, o.status.id = None => NewUuids # {}
  PROVE  /\ WrittenId(o) \in Ids
         /\ o.status.id = None => WrittenId(o).uuid \in NewUuids
         /\ o.status.id # None => WrittenId(o).uuid = o.status.id.uuid
         /\ WrittenId(o).scope = o.man.spec.scope
<1>1. o.man.spec.scope \in Scopes /\ o.status.id \in Ids \cup {None}
  BY DEF Objects, ObjectsOf, Statuses, Manifests, Specs
<1>2. o.status.id = None => NameFor(o) \in NewUuids
  BY DEF NameFor
<1>3. o.status.id # None => NameFor(o) = o.status.id.uuid /\ NameFor(o) \in Uuids
  BY <1>1 DEF NameFor, Ids
<1>4. NewUuids \subseteq Uuids
  BY DEF NewUuids
<1> QED BY <1>1, <1>2, <1>3, <1>4 DEF WrittenId, Ids

LEMMA ExemptionFacts ==
  ASSUME NEW c \in CRs, NEW o \in Objects, o.man.spec.assignment # None
  PROVE  LET e == Exemption(c, o)
         IN  e \in Resources /\ e # None /\ e.by = c /\ e.gen = o.gen
<1>1. Exemption(c, o) \in Resources
  BY DEF Exemption, Resources, Objects, ObjectsOf, Manifests, Specs
<1> QED BY <1>1, NoneAssumption DEF Exemption

-----------------------------------------------------------------------------
(* What a step does to one object.                                         *)

Reported(c) ==
  /\ pc[c] = "StatusUpdate" /\ fresh[c] /\ Present(obj[c]) /\ Rests(c)
  /\ obj'[c].status = copy[c].status
  /\ obj'[c].phase = obj[c].phase /\ obj'[c].man = obj[c].man /\ obj'[c].gen = obj[c].gen

ObjectMoves(c) == ~Present(obj'[c]) \/ Created(c, NoStatus) \/ Edited(c) \/ Reported(c)

Begins(c) ==
  /\ pc[c] = "idle" /\ Present(cache[c]) /\ obj'[c] = obj[c] /\ fresh'[c] = synced[c]
  /\ copy'[c].phase = cache[c].phase /\ copy'[c].status.id = cache[c].status.id
  /\ copy'[c].man.spec.scope = cache[c].man.spec.scope
  /\ pc'[c] = "CreateOrUpdate" => cache[c].phase = "live"
  /\ pc'[c] \in {"Delete", "RemoveFinalizer"} => cache[c].phase = "deleting"
  /\ pc'[c] = "Delete" => ~LetsGo(cache[c])
  /\ pc'[c] = "RemoveFinalizer" => LetsGo(cache[c])
  /\ pc'[c] = "StatusUpdate" => copy'[c].status.ready # "Reconciled"

GoesOn(c) ==
  /\ pc[c] # "idle" /\ obj'[c] = obj[c] /\ fresh'[c] = fresh[c]
  /\ copy'[c].phase = copy[c].phase /\ copy'[c].man = copy[c].man

Fails(c) ==
  /\ GoesOn(c) /\ pc'[c] = "StatusUpdate"
  /\ copy'[c].status.id = copy[c].status.id /\ copy'[c].status.ready # "Reconciled"

Deletes(c) ==
  /\ GoesOn(c) /\ pc[c] = "Delete" /\ pc'[c] = "RemoveFinalizer" /\ copy'[c] = copy[c]
  /\ azure' = [azure EXCEPT ![DeleteId(copy[c])] = None]

Exempts(c) ==
  /\ GoesOn(c) /\ pc[c] = "CreateOrUpdate" /\ pc'[c] = "StatusUpdate"
  /\ copy[c].man.spec.assignment # None
  /\ azure' = [azure EXCEPT ![WrittenId(copy[c])] = Exemption(c, copy[c])]
  /\ copy[c].status.id = None => NewUuids # {}
  /\ copy'[c].status.id = WrittenId(copy[c])
  /\ copy'[c].status.ready = "Reconciled" /\ copy'[c].status.observed = copy[c].gen

CopyMoves(c) ==
  Rests(c) \/ Waits(c) \/ Begins(c) \/ Fails(c) \/ Deletes(c) \/ Exempts(c)

ObjectStep(c) == ObjectMoves(c) /\ CacheMoves(c) /\ CopyMoves(c) /\ edits <= edits'

LEMMA OutsideStep ==
  ASSUME NEW c \in CRs, Outside(c, NoStatus)
  PROVE  ObjectStep(c)
  BY DEF Outside, Vanishes, ObjectStep, ObjectMoves, CopyMoves

\* The reconcile of c goes on; CopyMoves says how.
LEMMA WithinStep ==
  ASSUME IInv, NEW c \in CRs, NEW call, NEW o, Within(c, call, o), CopyMoves(c)
  PROVE  ObjectStep(c)
<1>1. edits <= edits'
  BY CopyFields DEF IInv, Runtime, Within
<1>2. ObjectMoves(c) /\ CacheMoves(c)
  BY DEF Within, ObjectMoves, Edited, Present, CacheMoves
<1> QED BY <1>1, <1>2 DEF ObjectStep

\* What a step is for the finalizer protocol, and for every object.
StepOK ==
  /\ Runtime'
  /\ SafeStep \/ \E c \in CRs : StepOf(c, Owes(obj[c]))
  /\ \A c \in CRs : ObjectStep(c)

LEMMA EnvironmentOK ==
  ASSUME IInv, Environment
  PROVE  StepOK
<1> USE DEF IInv, Runtime
<1>1. CASE User(NoStatus)
  <2>1. NoStatus \in Statuses /\ NoStatus.id = None /\ NoStatus.observed = 0
    BY DEF NoStatus, Statuses, Reasons
  <2> QED BY <1>1, <2>1, UserStep, UserOutside, OutsideStep DEF StepOK
<1>2. CASE Crash \/ (\E c \in CRs : Sync(c) \/ Resync(c))
  BY <1>2, CrashStep, SyncStep, ResyncStep, InformerOutside, OutsideStep DEF StepOK
<1>3. CASE UNCHANGED runtimeVars
  <2>1. queue' \subseteq CRs
    BY <1>3 DEF runtimeVars, RuntimeInv, Typed, RuntimeTypeOK
  <2> QED BY <1>3, <2>1, QuietStep, StillOutside, OutsideStep DEF runtimeVars, store, StepOK
<1> QED BY <1>1, <1>2, <1>3 DEF Environment, AssignmentChanges

\* A reconcile begins with what the cache shows.
LEMMA BeginOK ==
  ASSUME IInv, NEW c \in CRs, NEW call \in Calls \ {"idle"}, NEW o \in Objects,
         Begin(c, call, o), cache[c] \in Objects,
         o.phase = cache[c].phase, o.fin = cache[c].fin, o.gen = cache[c].gen,
         o.status.observed <= o.gen, o.status.id = cache[c].status.id,
         o.man.spec.scope = cache[c].man.spec.scope,
         \/ call = "AddFinalizer" /\ o = cache[c] /\ o.phase = "live"
         \/ call = "Delete" /\ o.phase = "deleting" /\ o.fin /\ ~LetsGo(cache[c])
         \/ call = "RemoveFinalizer" /\ o.phase = "deleting" /\ o.fin /\ LetsGo(cache[c])
         \/ call = "CreateOrUpdate" /\ Managed(o)
         \/ call = "StatusUpdate" /\ Managed(o) /\ o.status.ready # "Reconciled"
  PROVE  StepOK
<1>1. Present(cache[c])
  BY DEF Objects, ObjectsOf, Present
<1>2. Runtime' /\ SafeStep
  BY <1>1, BeginStep DEF IInv, Runtime, Managed, Objects
<1>3. Within(c, call, o) /\ pc[c] = "idle" /\ fresh'[c] = synced[c]
  BY BeginWithin DEF IInv, Runtime
<1>4. Begins(c)
  BY <1>1, <1>3 DEF Within, Begins, Managed
<1>5. ObjectStep(c)
  BY <1>3, <1>4, WithinStep DEF CopyMoves
<1>6. \A d \in CRs \ {c} : ObjectStep(d)
  BY OthersOutside, OutsideStep DEF IInv, Runtime
<1> QED BY <1>2, <1>5, <1>6 DEF StepOK

\* The cache as a copy.
LEMMA CacheFacts ==
  ASSUME IInv, NEW c \in CRs, Present(cache[c])
  PROVE  cache[c] \in Objects /\ cache[c].status.observed <= cache[c].gen
  BY CopyFields DEF IInv, Runtime, RuntimeInv, Protocol, GenOK, Dated, Objects

LEMMA ReconcileOK ==
  ASSUME IInv, NEW c \in CRs, Reconcile(c)
  PROVE  StepOK
<1> USE DEF Calls
<1>1. CASE IgnoreGone(c)
  BY <1>1, ReturnAtOnceStep, StillOutside, OutsideStep
     DEF IgnoreGone, ReturnAtOnce, store, IInv, Runtime, StepOK
<1>2. CASE BeginAddFinalizer(c)
  <2>1. Present(cache[c])
    BY <1>2 DEF BeginAddFinalizer, Present
  <2> QED BY <1>2, <2>1, CacheFacts, BeginOK DEF BeginAddFinalizer
<1>3. CASE HandleDeletion(c)
  <2>1. Present(cache[c])
    BY <1>3 DEF HandleDeletion, Present
  <2> QED BY <1>3, <2>1, CacheFacts, BeginOK DEF HandleDeletion
<1>4. CASE RejectRef(c)
  <2> DEFINE reason == IF RefState(cache[c]) = "missing" THEN "RefResolutionFailed"
                       ELSE "RefNotReady"
             o == Ready(cache[c], reason)
  <2>1. Present(cache[c]) /\ Managed(cache[c]) /\ Begin(c, "StatusUpdate", o)
    BY <1>4 DEF RejectRef, Managed, Present
  <2>2. reason \in Reasons /\ reason # "Reconciled"
    BY DEF Reasons
  <2>3. /\ Restated(cache[c], o) /\ o.status.ready = reason
        /\ o.status.id = cache[c].status.id
    BY <2>1, <2>2, CacheFacts, ReadyFacts
  <2> HIDE DEF o, reason
  <2> QED BY <2>1, <2>2, <2>3, CacheFacts, BeginOK DEF Restated, Managed
<1>5. CASE BeginCreateOrUpdate(c)
  <2> DEFINE o == Resolved(cache[c])
  <2>1. /\ Present(cache[c]) /\ Managed(cache[c]) /\ ~Unresolved(cache[c])
        /\ Begin(c, "CreateOrUpdate", o)
    BY <1>5 DEF BeginCreateOrUpdate, Managed, Present
  <2>2. /\ o \in Objects /\ o.phase = cache[c].phase /\ o.fin = cache[c].fin
        /\ o.gen = cache[c].gen /\ o.status = cache[c].status
        /\ o.man.spec.scope = cache[c].man.spec.scope
    BY <2>1, CacheFacts, ResolvedFacts DEF IInv
  <2> HIDE DEF o
  <2> QED BY <2>1, <2>2, CacheFacts, BeginOK DEF Managed
<1> QED BY <1>1, <1>2, <1>3, <1>4, <1>5 DEF Reconcile

\* A reconcile goes on with a copy whose status alone has changed.
LEMMA ContinueOK ==
  ASSUME IInv, NEW c \in CRs, NEW call \in {"RemoveFinalizer", "StatusUpdate"},
         NEW o, Restated(copy[c], o), Continue(c, call, o), Fault \/ UNCHANGED faults,
         pc[c] \notin {"idle", "AddFinalizer"},
         /\ pc'[c] = call /\ copy'[c] = o /\ GoesOn(c)
         => Fails(c) \/ Deletes(c) \/ Exempts(c)
  PROVE  StepOK
<1>1. call \in Calls \ {"idle", "AddFinalizer"}
  BY DEF Calls
<1>2. Runtime' /\ SafeStep
  BY <1>1, ContinueStep DEF IInv, Runtime, Restated, Objects
<1>3. Within(c, call, o) /\ fresh'[c] = fresh[c]
  BY ContinueWithin DEF IInv, Runtime
<1>4. GoesOn(c)
  BY <1>3 DEF Within, GoesOn, Restated
<1>5. ObjectStep(c)
  BY <1>3, <1>4, WithinStep DEF Within, CopyMoves
<1>6. \A d \in CRs \ {c} : ObjectStep(d)
  BY OthersOutside, OutsideStep DEF IInv, Runtime
<1> QED BY <1>2, <1>5, <1>6 DEF StepOK

\* The write that ends a reconcile.
LEMMA WriteOK ==
  ASSUME IInv, NEW c \in CRs, NEW o, Writes(c, o), Runtime',
         SafeStep \/ StepOf(c, Owes(obj[c])),
         fresh[c] /\ obj'[c] = o /\ Rests(c) => ObjectMoves(c)
  PROVE  StepOK
<1>1. /\ Rests(c) /\ cache'[c] = cache[c] /\ edits' = edits
      /\ (fresh[c] /\ obj'[c] = o) \/ obj'[c] = obj[c]
  BY WriteMoves DEF IInv, Runtime
<1>2. edits <= edits'
  BY <1>1, CopyFields DEF IInv, Runtime
<1>3. obj'[c] = obj[c] => ObjectMoves(c)
  BY DEF ObjectMoves, Edited, Present
<1>4. ObjectStep(c)
  BY <1>1, <1>2, <1>3 DEF ObjectStep, CacheMoves, CopyMoves
<1>5. \A d \in CRs \ {c} : ObjectStep(d)
  BY OthersOutside, OutsideStep DEF IInv, Runtime
<1> QED BY <1>4, <1>5 DEF StepOK

LEMMA CallOKStep ==
  ASSUME IInv, NEW c \in CRs, Call(c)
  PROVE  StepOK
<1> DEFINE o == copy[c]
<1>1. /\ LocalInv(c) /\ Protocol(c)
      /\ (pc[c] # "idle" => o \in Objects /\ o.status.observed <= o.gen)
      /\ (Present(obj[c]) => obj[c] \in Objects)
  BY CopyFields DEF IInv, Runtime, RuntimeInv, Objects, Protocol, GenOK, Dated
<1>2. CASE AddFinalizer(c)
  <2> DEFINE p == [o EXCEPT !.fin = TRUE]
  <2>1. Writes(c, p) /\ pc[c] = "AddFinalizer"
    BY <1>2 DEF AddFinalizer, Writes
  <2>2. Runtime' /\ SafeStep
    BY <2>1, AddFinalizerStep DEF IInv, Runtime
  <2>3. /\ p.man = o.man /\ p.status = o.status /\ p.gen = o.gen /\ p.phase = o.phase
    BY <1>1, <2>1 DEF Objects, ObjectsOf
  <2>4. fresh[c] => o = obj[c] /\ Present(obj[c])
    BY <1>1, <2>1 DEF Protocol, FlagsOK
  <2> HIDE DEF p
  <2>5. fresh[c] /\ obj'[c] = p => ObjectMoves(c)
    BY <2>3, <2>4 DEF ObjectMoves, Edited
  <2> QED BY <2>1, <2>2, <2>5, WriteOK
<1>3. CASE RemoveFinalizer(c)
  <2>1. Writes(c, Absent) /\ pc[c] = "RemoveFinalizer"
    BY <1>3 DEF RemoveFinalizer, Writes
  <2>2. Work(pc[c], o) = "clean"
    BY <1>1, <2>1 DEF LocalInv, CallOK, Work
  <2>3. ASSUME fresh[c]
        PROVE  ~Owes(obj[c])
    <3>1. /\ o.status.id = obj[c].status.id /\ o.man.spec.scope = obj[c].man.spec.scope
          /\ Present(obj[c])
      BY <1>1, <2>1, <2>3 DEF LocalInv, CopyAgrees, Protocol, FlagsOK
    <3>2. o.status.id = None \/ azure[DeleteId(o)] = None
      BY <1>1, <2>1 DEF LocalInv, CleanedUp
    <3>3. obj[c].status.id \in Ids \cup {None}
      BY <1>1, <3>1 DEF Objects, ObjectsOf, Statuses
    <3>4. obj[c].status.id # None /\ obj[c].status.id.scope = obj[c].man.spec.scope =>
            DeleteId(o) = obj[c].status.id
      BY <3>1, <3>3 DEF DeleteId, Ids
    <3> QED BY <3>1, <3>2, <3>4 DEF Owes, HasId
  <2>4. Runtime' /\ (SafeStep \/ StepOf(c, Owes(obj[c])))
    BY <2>1, <2>2, <2>3, RemoveFinalizerStep DEF IInv, Runtime
  <2>5. obj'[c] = Absent => ObjectMoves(c)
    BY DEF ObjectMoves, Present, Absent
  <2> QED BY <2>1, <2>4, <2>5, WriteOK
<1>4. CASE StatusUpdate(c)
  <2> DEFINE p == [obj[c] EXCEPT !.status = o.status]
  <2>1. Writes(c, p) /\ pc[c] = "StatusUpdate" /\ o \in Objects /\ o.status.observed <= o.gen
    BY <1>1, <1>4 DEF StatusUpdate, Writes
  <2>2. ASSUME fresh[c]
        PROVE  /\ p \in Objects /\ p.phase = obj[c].phase /\ p.fin = obj[c].fin
               /\ p.gen = obj[c].gen /\ p.man = obj[c].man /\ p.status = o.status
               /\ o.gen = obj[c].gen /\ Present(obj[c])
    BY <1>1, <2>1, <2>2 DEF Protocol, FlagsOK, Objects, ObjectsOf
  <2>3. fresh[c] => /\ HasId(obj[c]) => o.status.id # None
                    /\ o.phase = "deleting" => o.status.id = obj[c].status.id
    BY <1>1, <2>1, NoneAssumption DEF LocalInv, CopyAgrees, Rebinds, HasId
  <2> HIDE DEF p
  <2>4. fresh[c] => /\ HasId(obj[c]) => HasId(p)
                    /\ o.phase = "deleting" => HasId(p) = HasId(obj[c])
    BY <2>2, <2>3 DEF HasId, Present
  <2>5. Runtime' /\ SafeStep
    BY <2>1, <2>2, <2>4, StatusStep DEF IInv, Runtime, Objects
  <2>6. fresh[c] /\ obj'[c] = p /\ Rests(c) => ObjectMoves(c)
    BY <2>1, <2>2 DEF ObjectMoves, Reported
  <2> QED BY <2>1, <2>5, <2>6, WriteOK
<1>5. ASSUME pc[c] \in {"Delete", "CreateOrUpdate"}, NEW reason \in {"DeleteFailed", "ReconcileFailed"},
             Continue(c, "StatusUpdate", Ready(o, reason)), Fault \/ UNCHANGED faults
      PROVE  StepOK
  <2> DEFINE p == Ready(o, reason)
  <2>1. Restated(o, p) /\ p.status.id = o.status.id /\ p.status.ready # "Reconciled"
    BY <1>1, <1>5, ReadyFacts DEF Reasons
  <2>2. pc'[c] = "StatusUpdate" /\ copy'[c] = p /\ GoesOn(c) => Fails(c)
    BY <2>1 DEF Fails
  <2>3. Continue(c, "StatusUpdate", p)
    BY <1>5
  <2> HIDE DEF p
  <2> QED BY <1>5, <2>1, <2>2, <2>3, ContinueOK
<1>6. CASE Delete(c)
  <2>1. pc[c] = "Delete" /\ Restated(o, o)
    BY <1>1, <1>6 DEF Delete, Restated
  <2>2. ASSUME azure' = [azure EXCEPT ![DeleteId(o)] = None],
               Continue(c, "RemoveFinalizer", o), UNCHANGED faults
        PROVE  StepOK
    <3>1. pc'[c] = "RemoveFinalizer" /\ copy'[c] = o /\ GoesOn(c) => Deletes(c)
      BY <2>1, <2>2 DEF Deletes
    <3> QED BY <2>1, <2>2, <3>1, ContinueOK
  <2> QED BY <1>5, <1>6, <2>1, <2>2 DEF Delete, DeleteId
<1>7. CASE CreateOrUpdate(c)
  <2> DEFINE id == WrittenId(o)
             p == Ready([o EXCEPT !.status.id = id], "Reconciled")
  <2>1. pc[c] = "CreateOrUpdate" /\ (o.status.id = None => NewUuids # {}) /\ o \in Objects
    BY <1>1, <1>7 DEF CreateOrUpdate
  <2>2. ASSUME Accepted(o, id), azure' = [azure EXCEPT ![id] = Exemption(c, o)],
               Continue(c, "StatusUpdate", p), UNCHANGED faults
        PROVE  StepOK
    <3>1. id \in Ids
      BY <2>1, WrittenIdType
    <3>2. /\ Restated(o, p) /\ p.status.ready = "Reconciled" /\ p.status.observed = o.gen
          /\ p.status.id = id
      BY <2>1, <3>1, BoundFacts
    <3>3. o.man.spec.assignment # None
      BY <2>2 DEF Accepted
    <3>4. Continue(c, "StatusUpdate", p)
      BY <2>2
    <3> HIDE DEF p
    <3>5. pc'[c] = "StatusUpdate" /\ copy'[c] = p /\ GoesOn(c) => Exempts(c)
      BY <2>1, <2>2, <3>2, <3>3 DEF Exempts
    <3> QED BY <2>1, <2>2, <3>2, <3>4, <3>5, ContinueOK
  <2>3. \/ /\ Accepted(o, id) /\ azure' = [azure EXCEPT ![id] = Exemption(c, o)]
           /\ Continue(c, "StatusUpdate", p) /\ UNCHANGED faults
        \/ /\ Continue(c, "StatusUpdate", Ready(o, "ReconcileFailed"))
           /\ Fault \/ UNCHANGED faults
    BY <1>7 DEF CreateOrUpdate, WrittenId, Failed
  <2> QED BY <1>5, <2>1, <2>2, <2>3
<1> QED BY <1>2, <1>3, <1>4, <1>6, <1>7 DEF Call

LEMMA NextOK ==
  ASSUME IInv, [Next]_vars
  PROVE  StepOK
<1>1. CASE UNCHANGED vars
  <2>1. queue' \subseteq CRs
    BY <1>1 DEF vars, runtimeVars, IInv, Runtime, RuntimeInv, Typed, RuntimeTypeOK
  <2> QED BY <1>1, <2>1, QuietStep, StillOutside, OutsideStep
          DEF vars, runtimeVars, store, IInv, Runtime, StepOK
<1> QED BY <1>1, EnvironmentOK, ReconcileOK, CallOKStep DEF Next

-----------------------------------------------------------------------------
(* What a step does to Azure.                                              *)

AzureMoves ==
  \/ azure' = azure
  \/ \E d \in CRs :
       pc[d] = "Delete" /\ azure' = [azure EXCEPT ![DeleteId(copy[d])] = None]
  \/ \E d \in CRs :
       /\ pc[d] = "CreateOrUpdate" /\ copy[d].man.spec.assignment # None
       /\ copy[d].status.id = None => NewUuids # {}
       /\ azure' = [azure EXCEPT ![WrittenId(copy[d])] = Exemption(d, copy[d])]

LEMMA AzureStep ==
  ASSUME IInv, [Next]_vars
  PROVE  AzureMoves /\ OutsideTyped'
<1>1. Environment => azure' = azure
  BY DEF Environment, AssignmentChanges
<1>2. \A d \in CRs : Reconcile(d) => azure' = azure
  BY DEF Reconcile, IgnoreGone, BeginAddFinalizer, HandleDeletion, RejectRef,
         BeginCreateOrUpdate
<1>3. ASSUME NEW d \in CRs, Call(d)
      PROVE  AzureMoves
  <2>1. CASE Delete(d)
    BY <2>1 DEF Delete, DeleteId, AzureMoves
  <2>2. CASE CreateOrUpdate(d)
    BY <2>2 DEF CreateOrUpdate, Accepted, WrittenId, AzureMoves
  <2> QED BY <1>3, <2>1, <2>2 DEF Call, AddFinalizer, RemoveFinalizer, StatusUpdate, AzureMoves
<1>4. AzureMoves
  BY <1>1, <1>2, <1>3 DEF Next, vars, AzureMoves
<1>5. azure' \in [Ids -> Resources \cup {None}]
  <2>1. \A d \in CRs : pc[d] # "idle" => copy[d] \in Objects
    BY CopyFields DEF IInv, Runtime, Objects
  <2> QED BY <1>4, <2>1, ExemptionFacts DEF AzureMoves, IInv, OutsideTyped
<1>6. assigned' \in [Assignments -> RefStates] /\ refChanges' \in 0..MaxRefChanges
  <2>1. CASE UNCHANGED <<assigned, refChanges>>
    BY <2>1 DEF IInv, OutsideTyped
  <2>2. CASE \E a \in Assignments : AssignmentChanges(a)
    BY <2>2, ConstantsAssumption DEF AssignmentChanges, IInv, OutsideTyped
  <2>3. (\E c \in CRs : Reconcile(c) \/ Call(c)) => UNCHANGED <<assigned, refChanges>>
    BY DEF Reconcile, IgnoreGone, BeginAddFinalizer, HandleDeletion, RejectRef,
           BeginCreateOrUpdate, Call, AddFinalizer, RemoveFinalizer, StatusUpdate, Delete,
           CreateOrUpdate
  <2> QED BY <2>1, <2>2, <2>3 DEF Next, Environment, vars
<1> QED BY <1>4, <1>5, <1>6 DEF OutsideTyped

-----------------------------------------------------------------------------
(* The invariant is inductive.                                             *)

LEMMA InitOK == Init => IInv /\ Managing!Init
<1> SUFFICES ASSUME Init
             PROVE  IInv /\ Managing!Init
  OBVIOUS
<1>1. Kind(Manifests, Statuses, Calls)
  BY ConstantsAssumption DEF Kind, Statuses, Calls
<1>2. Runtime
  BY <1>1, RuntimeStart DEF Init, Runtime
<1>3. OutsideTyped
  BY ConstantsAssumption DEF Init, OutsideTyped, RefStates
<1>4. \A c \in CRs : LocalInv(c)
  BY DEF Init, RuntimeInit, LocalInv, CallOK, CopyAgrees, CleanedUp
<1>5. \A c \in CRs : ~Present(obj[c]) /\ pc[c] = "idle"
  BY DEF Init, RuntimeInit, Present, Absent
<1>6. \A c \in CRs : HasId(obj[c]) = FALSE /\ Owes(obj[c]) = FALSE
  BY <1>5 DEF HasId, Owes
<1>7. Managing!Init
  BY <1>5, <1>6 DEF Managing!Init, Stage, Work
<1> QED BY <1>2, <1>3, <1>4, <1>7 DEF IInv

LEMMA LocalStep ==
  ASSUME IInv, [Next]_vars, NEW c \in CRs
  PROVE  LocalInv(c)'
<1>1. /\ LocalInv(c) /\ Protocol(c) /\ ObjectStep(c) /\ AzureMoves
      /\ (pc[c] # "idle" => copy[c] \in Objects)
  BY NextOK, AzureStep, CopyFields DEF IInv, Runtime, RuntimeInv, StepOK, Objects
<1>2. CASE Rests(c)
  BY <1>2 DEF Rests, LocalInv, CallOK, CopyAgrees, CleanedUp
<1>3. CASE Waits(c)
  <2>1. CallOK(c)' /\ CopyAgrees(c)'
    BY <1>1, <1>3 DEF Waits, LocalInv, CallOK, CopyAgrees, Rebinds
  <2>2. pc[c] = "RemoveFinalizer" => azure' = azure
    BY <1>1 DEF AzureMoves, IInv, Runtime, RuntimeInv, OneWorker
  <2>3. CleanedUp(c)'
    BY <1>1, <1>3, <2>2 DEF Waits, LocalInv, CleanedUp
  <2> QED BY <2>1, <2>3 DEF LocalInv
<1>4. CASE Begins(c)
  <2>1. synced[c] => cache[c] = obj[c]
    BY <1>1 DEF Protocol, FlagsOK
  <2> QED BY <1>4, <2>1 DEF Begins, LocalInv, CallOK, CopyAgrees, CleanedUp, LetsGo
<1>5. CASE Fails(c)
  <2>1. CopyAgrees(c)'
    BY <1>1, <1>5 DEF Fails, GoesOn, LocalInv, CopyAgrees, Rebinds
  <2> QED BY <1>5, <2>1 DEF Fails, LocalInv, CallOK, CleanedUp
<1>6. CASE Deletes(c)
  <2>1. DeleteId(copy[c]) \in Ids
    BY <1>1, <1>6, DeleteIdType DEF Deletes, LocalInv, CallOK
  <2>2. azure'[DeleteId(copy[c])] = None
    BY <1>6, <2>1 DEF Deletes, IInv, OutsideTyped
  <2>3. CopyAgrees(c)'
    BY <1>1, <1>6 DEF Deletes, GoesOn, LocalInv, CopyAgrees
  <2>4. CallOK(c)'
    BY <1>1, <1>6 DEF Deletes, LocalInv, CallOK
  <2>5. CleanedUp(c)'
    BY <1>6, <2>2 DEF Deletes, CleanedUp, DeleteId
  <2> QED BY <2>3, <2>4, <2>5 DEF LocalInv
<1>7. CASE Exempts(c)
  <2> DEFINE id == WrittenId(copy[c])
  <2>1. /\ id \in Ids /\ id.scope = copy[c].man.spec.scope
        /\ copy[c].status.id # None => id.uuid = copy[c].status.id.uuid
    BY <1>1, <1>7, WrittenIdType DEF Exempts, GoesOn
  <2>2. /\ fresh[c] => /\ copy[c].man.spec.scope = obj[c].man.spec.scope
                       /\ copy[c].status.id = obj[c].status.id
        /\ copy[c].phase = "live"
    BY <1>1, <1>7 DEF Exempts, LocalInv, CopyAgrees, CallOK
  <2>3. CopyAgrees(c)'
    BY <1>7, <2>1, <2>2 DEF Exempts, GoesOn, CopyAgrees, Rebinds
  <2> QED BY <1>7, <2>3 DEF Exempts, LocalInv, CallOK, CleanedUp
<1> QED BY <1>1, <1>2, <1>3, <1>4, <1>5, <1>6, <1>7 DEF ObjectStep, CopyMoves

M == INSTANCE ManagedResourceProofs WITH
  stage <- [c \in CRs |-> Stage(obj[c])],
  work <- [c \in CRs |-> Work(pc[c], copy[c])],
  bound <- [c \in CRs |-> HasId(obj[c])],
  owed <- [c \in CRs |-> Owes(obj[c])]

LEMMA SameModule == M!Next => Managing!Next
  BY DEF M!Next, M!Create, M!Guard, M!MarkDeleted, M!StartWriting, M!StartCleaning, M!Bind,
         M!Forget, M!GiveUp, M!Owes, M!Moves, M!Starts, M!Ends,
         Managing!Next, Managing!Create, Managing!Guard, Managing!MarkDeleted,
         Managing!StartWriting, Managing!StartCleaning, Managing!Bind, Managing!Forget,
         Managing!GiveUp, Managing!Owes, Managing!Moves, Managing!Starts, Managing!Ends

\* One object's step is a step of ManagedResource.
LEMMA Lifting ==
  ASSUME NEW c \in CRs, StepOf(c, Owes(obj[c]))
  PROVE  Managing!Next
<1> DEFINE stage == [d \in CRs |-> Stage(obj[d])]
           work == [d \in CRs |-> Work(pc[d], copy[d])]
           bound == [d \in CRs |-> HasId(obj[d])]
<1>1. M!Owes
  BY DEF M!Owes, Owes
<1>2. /\ stage' = [stage EXCEPT ![c] = stage'[c]]
      /\ work' = [work EXCEPT ![c] = work'[c]]
      /\ bound' = [bound EXCEPT ![c] = bound'[c]]
  BY DEF StepOf, Untouched, SameStage, SameWork, SameBound
<1>3. HasId(obj'[c]) \in BOOLEAN
  BY DEF HasId
<1>4. \/ M!Same(c) /\ work'[c] = work[c]
      \/ M!Lives(c) \/ M!StartsWork(c) \/ M!EndsWork(c)
  BY <1>3 DEF StepOf, Untouched, LifeStep, StartStep, EndStep, SameStage, SameWork, SameBound,
         M!Same, M!Lives, M!StartsWork, M!EndsWork
<1>5. M!Next
  BY <1>1, <1>2, <1>4, M!ObjectStep
<1> QED BY <1>5, SameModule

LEMMA SafeLifting ==
  ASSUME SafeStep
  PROVE  Managing!Next
<1>1. CASE \E c \in CRs : StepOf(c, TRUE)
  <2> PICK c \in CRs : StepOf(c, TRUE)
    BY <1>1
  <2>1. StepOf(c, Owes(obj[c]))
    BY DEF StepOf, EndStep
  <2> QED BY <2>1, Lifting
<1>2. CASE \A d \in CRs : Untouched(d)
  BY <1>2 DEF Untouched, SameStage, SameWork, SameBound, Managing!Next, Managing!Owes, Owes
<1> QED BY <1>1, <1>2 DEF SafeStep

LEMMA Step == IInv /\ [Next]_vars => IInv' /\ Managing!Next
<1> SUFFICES ASSUME IInv, [Next]_vars
             PROVE  IInv' /\ Managing!Next
  OBVIOUS
<1>1. StepOK
  BY NextOK
<1>2. IInv'
  BY <1>1, AzureStep, LocalStep DEF StepOK, IInv
<1>3. Managing!Next
  BY <1>1, Lifting, SafeLifting DEF StepOK
<1> QED BY <1>2, <1>3

LEMMA Invariance == Spec => []IInv
  BY InitOK, Step, PTL DEF Spec

\* The variables have their types: the copy stays an exemption's object while
\* references are resolved in it and bindings are written to it, and Azure
\* holds no exemption without an assignment.
THEOREM TypeCorrect == Spec => []TypeOK
<1>1. IInv => TypeOK
  BY DEF IInv, Runtime, RuntimeInv, Typed, OutsideTyped, TypeOK, Objects
<1> QED BY <1>1, Invariance, PTL

\* The controller implements ManagedResource: its exemptions are created and
\* bound under the finalizer, no stale reconcile cleans up a guarded object,
\* and an object ends when the exemption it is bound to is deleted.
THEOREM ExemptionsAreManaged == Spec => Lifecycle
<1>1. IInv /\ [Next]_vars => [Managing!Next]_(Managing!vars)
  BY Step
<1> QED BY <1>1, InitOK, Invariance, PTL DEF Spec, Lifecycle, Managing!Spec

-----------------------------------------------------------------------------
(* A name in Azure belongs to one object.                                  *)

\* c is bound to the name u, or was in what the cache or the copy still say.
Holds(c, u) ==
  \E o \in {obj[c], cache[c], copy[c]} :
    Present(o) /\ o.status.id # None /\ o.status.id.uuid = u

OneHolder == \A u \in Uuids : \A c, d \in CRs : Holds(c, u) /\ Holds(d, u) => c = d

\* A name that is held is not new.
LEMMA NewIsUnheld ==
  ASSUME IInv, NEW u \in NewUuids, NEW c \in CRs
  PROVE  ~Holds(c, u)
<1> SUFFICES ASSUME NEW o \in {obj[c], cache[c], copy[c]}, Present(o),
                    o.status.id # None, o.status.id.uuid = u
             PROVE  FALSE
  BY DEF Holds
<1>1. o \in Objects
  BY PresentIsObject DEF IInv, Runtime, RuntimeInv, Typed, RuntimeTypeOK, Objects
<1>2. o.status.id \in Ids
  BY <1>1 DEF Objects, ObjectsOf, Statuses
<1>3. PICK s \in Scopes : o.status.id = [scope |-> s, uuid |-> u]
  BY <1>2 DEF Ids
<1> QED BY <1>3 DEF NewUuids

\* What c holds after a step it has held before, or it has just written.
LEMMA Holding ==
  ASSUME IInv, [Next]_vars, NEW c \in CRs, NEW u, Holds(c, u)'
  PROVE  Holds(c, u) \/ (Exempts(c) /\ copy[c].status.id = None /\ u \in NewUuids)
<1>1. /\ ObjectStep(c) /\ (pc[c] # "idle" => copy[c] \in Objects /\ Present(copy[c]))
  BY NextOK, CopyFields DEF StepOK, IInv, Runtime, Objects, ObjectsOf, Present
<1>2. PICK o \in {obj'[c], cache'[c], copy'[c]} :
        Present(o) /\ o.status.id # None /\ o.status.id.uuid = u
  BY DEF Holds
<1>3. CASE o = obj'[c]
  BY <1>1, <1>2, <1>3 DEF ObjectStep, ObjectMoves, Created, Edited, Reported, NoStatus, Holds
<1>4. CASE o = cache'[c]
  BY <1>1, <1>2, <1>4 DEF ObjectStep, CacheMoves, Holds
<1>5. CASE o = copy'[c]
  <2>1. CASE Exempts(c)
    <3>1. /\ WrittenId(copy[c]).uuid = u
          /\ copy[c].status.id = None => u \in NewUuids
          /\ copy[c].status.id # None => copy[c].status.id.uuid = u
      BY <1>1, <1>2, <1>5, <2>1, WrittenIdType DEF Exempts, GoesOn
    <3> QED BY <1>1, <2>1, <3>1 DEF Exempts, GoesOn, Holds
  <2> QED BY <1>1, <1>2, <1>5, <2>1
          DEF ObjectStep, CopyMoves, Rests, Waits, Begins, Fails, Deletes, GoesOn, Holds
<1> QED BY <1>2, <1>3, <1>4, <1>5

LEMMA OneHolderStep ==
  ASSUME IInv, [Next]_vars, OneHolder
  PROVE  OneHolder'
<1> SUFFICES ASSUME NEW u \in Uuids, NEW c \in CRs, NEW d \in CRs, Holds(c, u)', Holds(d, u)',
                    c # d
             PROVE  FALSE
  BY DEF OneHolder
<1>1. ~(Exempts(c) /\ Exempts(d))
  BY DEF Exempts, IInv, Runtime, RuntimeInv, OneWorker
<1> QED BY <1>1, Holding, NewIsUnheld DEF OneHolder

-----------------------------------------------------------------------------
(* What the status says of Azure.                                          *)

Backed(c, o) ==
  o.status.ready = "Reconciled" =>
    LET e == azure[o.status.id]
    IN  o.status.id # None /\ e # None /\ e.by = c /\ e.gen >= o.status.observed

StatusInv(c) ==
  /\ obj[c].phase = "live" => Backed(c, obj[c])
  /\ pc[c] = "StatusUpdate" => Backed(c, copy[c])

\* The exemption an object holds is changed by its own reconcile alone.
LEMMA HeldStays ==
  ASSUME IInv, OneHolder, [Next]_vars, NEW c \in CRs, NEW id \in Ids, Holds(c, id.uuid),
         pc[c] # "Delete"
  PROVE  \/ azure'[id] = azure[id]
         \/ /\ pc[c] = "CreateOrUpdate" /\ copy[c].man.spec.assignment # None
            /\ azure'[id] = Exemption(c, copy[c])
<1>1. \A d \in CRs : pc[d] # "idle" => copy[d] \in Objects /\ Present(copy[d])
  BY CopyFields DEF IInv, Runtime, Objects, ObjectsOf, Present
<1>2. id.uuid \in Uuids
  BY DEF Ids
<1>3. CASE azure' = azure
  BY <1>3
<1>4. ASSUME NEW d \in CRs, pc[d] = "Delete",
             azure' = [azure EXCEPT ![DeleteId(copy[d])] = None]
      PROVE  azure'[id] = azure[id]
  <2>1. Holds(d, DeleteId(copy[d]).uuid)
    BY <1>1, <1>4 DEF Holds, DeleteId, IInv, LocalInv, CallOK
  <2>2. DeleteId(copy[d]) # id
    BY <1>2, <1>4, <2>1 DEF OneHolder
  <2> QED BY <1>4, <2>2 DEF IInv, OutsideTyped
<1>5. ASSUME NEW d \in CRs, pc[d] = "CreateOrUpdate", copy[d].man.spec.assignment # None,
             copy[d].status.id = None => NewUuids # {},
             azure' = [azure EXCEPT ![WrittenId(copy[d])] = Exemption(d, copy[d])]
      PROVE  \/ azure'[id] = azure[id]
             \/ /\ pc[c] = "CreateOrUpdate" /\ copy[c].man.spec.assignment # None
                /\ azure'[id] = Exemption(c, copy[c])
  <2>1. CASE d = c
    BY <1>5, <2>1 DEF IInv, OutsideTyped
  <2>2. CASE d # c
    <3>1. copy[d] \in Objects /\ Present(copy[d])
      BY <1>1, <1>5
    <3>2. WrittenId(copy[d]).uuid \in NewUuids \/ Holds(d, WrittenId(copy[d]).uuid)
      BY <1>5, <3>1, WrittenIdType DEF Holds
    <3>3. WrittenId(copy[d]) # id
      BY <1>2, <2>2, <3>2, NewIsUnheld DEF OneHolder
    <3> QED BY <1>5, <3>3 DEF IInv, OutsideTyped
  <2> QED BY <2>1, <2>2
<1> QED BY <1>3, <1>4, <1>5, AzureStep DEF AzureMoves

\* What is stored stays true.
LEMMA StoredStays ==
  ASSUME IInv, OneHolder, [Next]_vars, NEW c \in CRs, obj[c].phase = "live", Backed(c, obj[c]),
         NEW status, status = obj[c].status, status.ready = "Reconciled"
  PROVE  LET e == azure'[status.id]
         IN  status.id # None /\ e # None /\ e.by = c /\ e.gen >= status.observed
<1>1. /\ obj[c] \in Objects /\ Present(obj[c]) /\ Protocol(c)
      /\ (pc[c] # "idle" => copy[c] \in Objects)
  BY CopyFields DEF IInv, Runtime, RuntimeInv, Objects, Present
<1>2. status.id \in Ids /\ status.id # None /\ Holds(c, status.id.uuid)
  BY <1>1 DEF Backed, Objects, ObjectsOf, Statuses, Holds
<1>3. pc[c] # "Delete"
  BY <1>1, <1>2 DEF Protocol, CacheOK, GuardOK, Managed, HasId, Work, IInv, LocalInv, CallOK
<1>4. CASE azure'[status.id] = azure[status.id]
  BY <1>4 DEF Backed
<1>5. CASE pc[c] = "CreateOrUpdate" /\ copy[c].man.spec.assignment # None
           /\ azure'[status.id] = Exemption(c, copy[c])
  <2>1. copy[c].gen >= status.observed
    BY <1>1, <1>5 DEF Protocol, GenOK
  <2> QED BY <1>1, <1>2, <1>5, <2>1, ExemptionFacts
<1> QED BY <1>2, <1>3, <1>4, <1>5, HeldStays

LEMMA StatusStart ==
  ASSUME Init, NEW c \in CRs
  PROVE  StatusInv(c)
  BY DEF Init, RuntimeInit, StatusInv, Absent

LEMMA StatusInvStep ==
  ASSUME IInv, OneHolder, [Next]_vars, NEW c \in CRs, StatusInv(c)
  PROVE  StatusInv(c)'
<1>1. /\ ObjectStep(c)
      /\ (pc[c] # "idle" => copy[c] \in Objects /\ Present(copy[c]))
  BY NextOK, CopyFields DEF StepOK, IInv, Runtime, Objects, ObjectsOf, Present
<1>2. ASSUME pc[c] = "StatusUpdate", copy[c].status.ready = "Reconciled", NEW status,
             status = copy[c].status
      PROVE  LET e == azure'[status.id]
             IN  status.id # None /\ e # None /\ e.by = c /\ e.gen >= status.observed
  <2>1. status.id \in Ids /\ status.id # None /\ Holds(c, status.id.uuid)
    BY <1>1, <1>2 DEF StatusInv, Backed, Objects, ObjectsOf, Statuses, Holds
  <2>2. azure'[status.id] = azure[status.id]
    BY <1>2, <2>1, HeldStays
  <2> QED BY <1>2, <2>2 DEF StatusInv, Backed
<1>3. ASSUME obj'[c].phase = "live", obj'[c].status.ready = "Reconciled"
      PROVE  Backed(c, obj[c])'
  <2>1. CASE Created(c, NoStatus)
    BY <1>3, <2>1, NoneAssumption DEF Created, NoStatus
  <2>2. CASE Edited(c)
    <3>1. obj[c].phase = "live" /\ obj'[c].status = obj[c].status
      BY <1>3, <2>2 DEF Edited
    <3>2. Backed(c, obj[c])
      BY <3>1 DEF StatusInv
    <3> QED BY <1>3, <3>1, <3>2, StoredStays DEF Backed
  <2>3. CASE Reported(c)
    BY <1>2, <1>3, <2>3 DEF Reported, Backed
  <2> QED BY <1>1, <1>3, <2>1, <2>2, <2>3 DEF ObjectStep, ObjectMoves, Present
<1>4. ASSUME pc'[c] = "StatusUpdate", copy'[c].status.ready = "Reconciled"
      PROVE  Backed(c, copy[c])'
  <2>1. CASE Waits(c)
    BY <1>2, <1>4, <2>1 DEF Waits, Backed
  <2>2. CASE Exempts(c)
    <3>1. /\ copy[c] \in Objects /\ copy[c].gen \in Nat
          /\ copy'[c].status.id = WrittenId(copy[c])
          /\ copy'[c].status.observed = copy[c].gen
          /\ copy[c].man.spec.assignment # None
      BY <1>1, <2>2 DEF Exempts, GoesOn, Objects, ObjectsOf
    <3>2. WrittenId(copy[c]) \in Ids
      BY <2>2, <3>1, WrittenIdType DEF Exempts
    <3>3. azure'[WrittenId(copy[c])] = Exemption(c, copy[c])
      BY <2>2, <3>2 DEF Exempts, IInv, OutsideTyped
    <3> QED BY <3>1, <3>2, <3>3, ExemptionFacts, NoneAssumption DEF Backed
  <2> QED BY <1>1, <1>4, <2>1, <2>2
          DEF ObjectStep, CopyMoves, Rests, Begins, Fails, Deletes
<1> QED BY <1>3, <1>4 DEF StatusInv, Backed

LEMMA StatusInvariance == Spec => [](OneHolder /\ \A c \in CRs : StatusInv(c))
<1>1. Init => OneHolder /\ \A c \in CRs : StatusInv(c)
  BY StatusStart DEF Init, RuntimeInit, OneHolder, Holds, Present, Absent
<1>2. IInv /\ OneHolder /\ (\A c \in CRs : StatusInv(c)) /\ [Next]_vars =>
        OneHolder' /\ (\A c \in CRs : StatusInv(c))'
  BY OneHolderStep, StatusInvStep
<1> QED BY <1>1, <1>2, Invariance, PTL DEF Spec

\* A live object that reports Reconciled has its exemption in Azure, written
\* by itself from the reported generation or a later one: whatever is lost,
\* no other object ever writes or deletes the name it is bound to.
THEOREM ReconciledIsBacked == Spec => []ReconciledExists
<1>1. (\A c \in CRs : StatusInv(c)) => ReconciledExists
  BY DEF StatusInv, Backed, ReconciledExists
<1> QED BY <1>1, StatusInvariance, PTL

\* Only a report changes a binding, and it keeps the name.
LEMMA KeepsBinding ==
  ASSUME IInv, [Next]_vars, NEW c \in CRs, Present(obj[c]), Present(obj'[c]),
         obj[c].status.id # None, obj[c].status.id.scope = obj'[c].man.spec.scope
  PROVE  obj'[c].status.id = obj[c].status.id
<1>1. ObjectMoves(c) /\ LocalInv(c) /\ obj[c] \in Objects
  BY NextOK, CopyFields DEF StepOK, ObjectStep, IInv, Runtime, Objects
<1>2. CASE Reported(c)
  <2>1. /\ obj'[c].status.id = copy[c].status.id /\ obj'[c].man = obj[c].man
        /\ copy[c].status.id = obj[c].status.id \/ Rebinds(obj[c], copy[c].status.id)
    BY <1>1, <1>2 DEF Reported, LocalInv, CopyAgrees
  <2>2. obj[c].status.id \in Ids
    BY <1>1 DEF Objects, ObjectsOf, Statuses
  <2> QED BY <2>1, <2>2 DEF Rebinds, Ids
<1> QED BY <1>1, <1>2 DEF ObjectMoves, Created, Edited

\* Once bound, an object keeps its binding as long as its scope stays.
THEOREM BindingIsKept == Spec => BindingStays
<1>1. IInv /\ [Next]_vars =>
        [\A c \in CRs :
           /\ Present(obj[c]) /\ Present(obj'[c])
           /\ obj[c].status.id # None
           /\ obj[c].status.id.scope = obj'[c].man.spec.scope
           => obj'[c].status.id = obj[c].status.id]_vars
  BY KeepsBinding
<1> QED BY <1>1, Invariance, PTL DEF Spec, BindingStays
=============================================================================
