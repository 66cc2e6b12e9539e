------------------------ MODULE PolicyDefinitionStatus ------------------------
(***************************************************************************)
(* What the status of a definition says, and what Azure holds: theorems    *)
(* about PolicyDefinition for every set of objects, offers and bounds.     *)
(*                                                                         *)
(* They depend on what users and others do, and say so: that annotations   *)
(* and spec point to one definition (Aligned), that objects do not share a *)
(* name in Azure (NamesApart), that nobody else writes there.              *)
(***************************************************************************)
EXTENDS PolicyDefinitionProofs

\* The names that the manifests of c may give its definition.
OwnNames(c) ==
  {NameOf[c]} \cup {m.importName : m \in {n \in Offers[c] : n.importName # None}}
              \cup {m.importId.name : m \in {n \in Offers[c] : n.importId # None}}

\* Two objects never ask for the same name.
NamesApart == \A c, d \in CRs : c # d => OwnNames(c) \cap OwnNames(d) = {}

\* An import that may write asks for the scope and the name of its import-id.
Aligned ==
  \A c \in CRs : \A m \in Offers[c] :
    m.importId # None /\ ~ObserveOnly(m) => Target(c, m) = ImportRef(m.importId)

-----------------------------------------------------------------------------
(* What an object can say: users' manifests, and names of its own.         *)

Own(c, o) ==
  /\ o.man \in Offers[c]
  /\ o.status.id # None => o.status.id.name \in OwnNames(c)

\* A copy of the stored generation has the stored spec.
OwnInv(c) ==
  /\ Present(obj[c]) => Own(c, obj[c])
  /\ Present(cache[c]) => Own(c, cache[c])
  /\ pc[c] # "idle" => Own(c, copy[c])
  /\ Present(obj[c]) /\ pc[c] # "idle" /\ copy[c].gen = obj[c].gen =>
       copy[c].man.spec = obj[c].man.spec

\* What o says of Azure.
Backed(c, o) ==
  o.status.ready \in {"Reconciled", "AppliedOnce"} =>
    LET d == azure[BoundRef(o)]
    IN  o.status.id # None /\ d # None /\ d.by = c /\ d.gen >= o.status.observed

SeenInSync(o) ==
  o.status.ready = "ObservedOnly" /\ o.status.drift = "InSync" =>
    o.status.id # None /\ azure[BoundRef(o)].head = o.man.spec.head

\* The stored status is true, and so is the one that is about to be stored.
StatusInv(c) ==
  /\ obj[c].phase = "live" =>
       /\ Backed(c, obj[c])
       /\ obj[c].status.observed = obj[c].gen => SeenInSync(obj[c])
  /\ pc[c] = "StatusUpdate" /\ copy[c].phase = "live" =>
       Backed(c, copy[c]) /\ SeenInSync(copy[c])

\* The binding that a reconcile of an import holds.
BindingInv(c) ==
  /\ /\ pc[c] = "CreateOrUpdate" /\ copy[c].man.importId # None
     => copy[c].status.id = copy[c].man.importId
  /\ /\ pc[c] = "StatusUpdate" /\ copy[c].man.importId # None
     /\ copy[c].status.ready \in {"Reconciled", "AppliedOnce", "ObservedOnly"}
     => BoundRef(copy[c]) = ImportRef(copy[c].man.importId)
  /\ fresh[c] /\ HasId(obj[c]) /\ obj[c].man.importId # None /\ obj[c].phase = "live" =>
       /\ pc[c] = "Import" => copy[c].man.importId = obj[c].status.id
       /\ BoundRef(copy[c]) = BoundRef(obj[c])

-----------------------------------------------------------------------------
(* What a step does to one object: the stored object, the cached one and   *)
(* the copy of the reconcile.                                              *)

Reported(c) ==
  pc[c] = "StatusUpdate" /\ fresh[c] /\ Present(obj[c]) /\ obj'[c] = copy[c] /\ Rests(c)

ObjectMoves(c) == ~Present(obj'[c]) \/ Created(c, NoStatus) \/ Edited(c) \/ Reported(c)

Begins(c) ==
  /\ pc[c] = "idle" /\ Present(cache[c]) /\ obj'[c] = obj[c] /\ fresh'[c] = synced[c]
  /\ copy'[c].man = cache[c].man /\ copy'[c].gen = cache[c].gen
  /\ copy'[c].status.id = cache[c].status.id
  /\ pc'[c] = "StatusUpdate" => copy'[c].status.ready = "ImportConflict"
  /\ pc'[c] = "CreateOrUpdate" => cache[c].man.importId = None
  /\ pc'[c] = "Import" => ~Rebinds(cache[c]) /\ cache[c].man.importId # None

GoesOn(c) ==
  /\ pc[c] # "idle" /\ obj'[c] = obj[c] /\ fresh'[c] = fresh[c]
  /\ copy'[c].man = copy[c].man /\ copy'[c].gen = copy[c].gen

Fails(c) ==
  /\ GoesOn(c) /\ pc'[c] = "StatusUpdate"
  /\ copy'[c].status.ready \in {"DeleteFailed", "ImportFailed", "AlreadyExists",
                                "ReconcileFailed"}
  /\ copy'[c].status.id = copy[c].status.id

Passes(c) ==
  /\ GoesOn(c) /\ copy'[c].status.id = copy[c].status.id
  /\ \/ pc'[c] = "RemoveFinalizer"
     \/ pc[c] = "Get" /\ pc'[c] = "CreateOrUpdate"

Imports(c) ==
  /\ GoesOn(c) /\ pc[c] = "Import" /\ azure' = azure
  /\ copy'[c].status.id = copy[c].man.importId
  /\ \/ pc'[c] = "CreateOrUpdate" /\ ~ObserveOnly(copy[c].man)
     \/ /\ pc'[c] = "StatusUpdate" /\ copy'[c].status.ready = "ObservedOnly"
        /\ copy'[c].status.drift =
             DriftOf(azure[ImportRef(copy[c].man.importId)], copy[c].man.spec)

Applies(c) ==
  LET r == Target(c, copy[c].man)
  IN  /\ GoesOn(c) /\ pc[c] = "CreateOrUpdate" /\ pc'[c] = "StatusUpdate" /\ r \in Refs
      /\ azure' = [azure EXCEPT ![r] = Definition(c, copy[c])]
      /\ copy'[c].status.id = [scope |-> r.scope, name |-> r.name, text |-> "canonical"]
      /\ copy'[c].status.ready \in {"Reconciled", "AppliedOnce"}
      /\ copy'[c].status.observed = copy[c].gen

CopyMoves(c) ==
  Rests(c) \/ Waits(c) \/ Begins(c) \/ Fails(c) \/ Passes(c) \/ Imports(c) \/ Applies(c)

ObjectStep(c) == ObjectMoves(c) /\ CacheMoves(c) /\ CopyMoves(c) /\ edits <= edits'

LEMMA OutsideStep ==
  ASSUME NEW c \in CRs, Outside(c, NoStatus)
  PROVE  ObjectStep(c)
  BY DEF Outside, Vanishes, ObjectStep, ObjectMoves, CopyMoves

\* The reconcile of c goes on; CopyMoves says how.
LEMMA WithinStep ==
  ASSUME IInv, NEW c \in CRs, NEW call, NEW o, Within(c, call, o), CopyMoves(c)
  PROVE  ObjectStep(c)
<1>1. edits <= edits'
  BY CopyFields DEF IInv, Runtime, Within
<1>2. ObjectMoves(c) /\ CacheMoves(c)
  BY DEF Within, ObjectMoves, Edited, Present, CacheMoves
<1> QED BY <1>1, <1>2 DEF ObjectStep

LEMMA EnvironmentObject ==
  ASSUME IInv, NEW c \in CRs, Environment
  PROVE  ObjectStep(c)
<1>1. (\E r \in Refs : Portal(r)) => Outside(c, NoStatus)
  BY StillOutside DEF Portal, runtimeVars, IInv, Runtime
<1> QED BY <1>1, UserOutside, InformerOutside, OutsideStep DEF Environment, IInv, Runtime

LEMMA ReconcileObject ==
  ASSUME IInv, NEW c \in CRs, NEW d \in CRs, Reconcile(d)
  PROVE  ObjectStep(c)
<1>1. ASSUME NEW requeue, ReturnAtOnce(d, requeue)
      PROVE  ObjectStep(c)
  BY <1>1, StillOutside, OutsideStep DEF ReturnAtOnce, store, IInv, Runtime
<1>2. ASSUME NEW call, NEW o, Begin(d, call, o), d # c
      PROVE  ObjectStep(c)
  BY <1>2, OthersOutside, OutsideStep DEF IInv, Runtime
<1>3. ASSUME NEW call, NEW o, Begin(c, call, o), Present(cache[c]),
             o.man = cache[c].man, o.gen = cache[c].gen, o.status.id = cache[c].status.id,
             call = "StatusUpdate" => o.status.ready = "ImportConflict",
             call = "CreateOrUpdate" => o.man.importId = None,
             call = "Import" => ~Rebinds(cache[c]) /\ o.man.importId # None
      PROVE  ObjectStep(c)
  <2>1. Within(c, call, o) /\ pc[c] = "idle" /\ fresh'[c] = synced[c]
    BY <1>3, BeginWithin DEF IInv, Runtime
  <2>2. Begins(c)
    BY <1>3, <2>1 DEF Within, Begins
  <2> QED BY <2>1, <2>2, WithinStep DEF CopyMoves
<1>4. CASE IgnoreGone(d) \/ SkipApplied(d)
  BY <1>1, <1>4 DEF IgnoreGone, SkipApplied
<1>5. CASE BeginAddFinalizer(d)
  BY <1>2, <1>3, <1>5 DEF BeginAddFinalizer, Present
<1>6. CASE HandleDeletion(d)
  BY <1>2, <1>3, <1>6 DEF HandleDeletion, Present
<1>7. CASE RejectRebinding(d)
  <2> DEFINE o == Ready(cache[d], "ImportConflict")
  <2>1. Begin(d, "StatusUpdate", o) /\ Present(cache[d])
    BY <1>7 DEF RejectRebinding, Managed, Present
  <2>2. /\ o.man = cache[d].man /\ o.gen = cache[d].gen /\ o.status.id = cache[d].status.id
        /\ o.status.ready = "ImportConflict"
    BY <2>1, CacheFacts, ReadyFacts DEF Reasons, Restated
  <2> HIDE DEF o
  <2> QED BY <1>2, <1>3, <2>1, <2>2
<1>8. CASE BeginImport(d)
  BY <1>2, <1>3, <1>8 DEF BeginImport, Managed, Present
<1>9. CASE BeginReconcileDefinition(d)
  <2>1. FirstCall(cache[d]) \in {"Get", "CreateOrUpdate"} /\ Present(cache[d])
    BY <1>9 DEF BeginReconcileDefinition, FirstCall, Managed, Present
  <2> QED BY <1>2, <1>3, <1>9, <2>1 DEF BeginReconcileDefinition
<1> QED BY <1>4, <1>5, <1>6, <1>7, <1>8, <1>9 DEF Reconcile

\* The call of d is nothing for another object.
LEMMA OthersCall ==
  ASSUME IInv, NEW c \in CRs, NEW d \in CRs, Call(d), c # d
  PROVE  ObjectStep(c)
<1>1. \/ \E call, o : Continue(d, call, o)
      \/ \E o : Writes(d, o)
      \/ \E requeue : Return(d, requeue) /\ UNCHANGED store
  BY DEF Call, AddFinalizer, RemoveFinalizer, StatusUpdate, Delete, Import, Get, CreateOrUpdate,
         Writes
<1> QED BY <1>1, OthersOutside, OutsideStep DEF IInv, Runtime

\* The write that ends the reconcile of c.
LEMMA OwnWrite ==
  ASSUME IInv, NEW c \in CRs, AddFinalizer(c) \/ RemoveFinalizer(c) \/ StatusUpdate(c)
  PROVE  ObjectStep(c)
<1>1. Protocol(c) /\ edits \in Nat
  BY CopyFields DEF IInv, Runtime, RuntimeInv
<1>2. ASSUME NEW o, Writes(c, o), fresh[c] /\ obj'[c] = o => ObjectMoves(c)
      PROVE  ObjectStep(c)
  <2>1. /\ Rests(c) /\ cache'[c] = cache[c] /\ edits' = edits
        /\ (fresh[c] /\ obj'[c] = o) \/ obj'[c] = obj[c]
    BY <1>2, WriteMoves DEF IInv, Runtime
  <2>2. obj'[c] = obj[c] => ObjectMoves(c)
    BY DEF ObjectMoves, Edited, Present
  <2> QED BY <1>1, <1>2, <2>1, <2>2 DEF ObjectStep, CacheMoves, CopyMoves
<1>3. CASE AddFinalizer(c)
  <2> DEFINE o == [copy[c] EXCEPT !.fin = TRUE]
  <2>1. Writes(c, o) /\ pc[c] = "AddFinalizer"
    BY <1>3 DEF AddFinalizer, Writes
  <2>2. copy[c] \in Objects
    BY <2>1, CopyFields DEF IInv, Runtime, Objects
  <2>3. /\ o.man = copy[c].man /\ o.status = copy[c].status /\ o.gen = copy[c].gen
        /\ o.phase = copy[c].phase
    BY <2>2 DEF Objects, ObjectsOf
  <2>4. fresh[c] => copy[c] = obj[c] /\ Present(obj[c])
    BY <1>1, <2>1 DEF Protocol, FlagsOK
  <2> HIDE DEF o
  <2>5. fresh[c] /\ obj'[c] = o => ObjectMoves(c)
    BY <2>3, <2>4 DEF ObjectMoves, Edited
  <2> QED BY <1>2, <2>1, <2>5
<1>4. CASE RemoveFinalizer(c)
  <2>1. Writes(c, Absent)
    BY <1>4 DEF RemoveFinalizer, Writes
  <2>2. fresh[c] /\ obj'[c] = Absent => ObjectMoves(c)
    BY DEF ObjectMoves, Present, Absent
  <2> QED BY <1>2, <2>1, <2>2
<1>5. CASE StatusUpdate(c)
  <2>1. Writes(c, copy[c]) /\ pc[c] = "StatusUpdate"
    BY <1>5 DEF StatusUpdate, Writes
  <2>2. fresh[c] => Present(obj[c])
    BY <1>1 DEF Protocol, FlagsOK
  <2>3. Rests(c)
    BY <2>1, WriteMoves DEF IInv, Runtime
  <2>4. fresh[c] /\ obj'[c] = copy[c] => ObjectMoves(c)
    BY <2>1, <2>2, <2>3 DEF ObjectMoves, Reported
  <2> QED BY <1>2, <2>1, <2>4
<1> QED BY <1>3, <1>4, <1>5

\* The other calls of c.
LEMMA OwnCall ==
  ASSUME IInv, NEW c \in CRs, Delete(c) \/ Import(c) \/ Get(c) \/ CreateOrUpdate(c)
  PROVE  ObjectStep(c)
<1> DEFINE o == copy[c]
<1>1. pc[c] # "idle" /\ o \in Objects /\ o.status.observed <= o.gen
  BY CopyFields DEF IInv, Runtime, RuntimeInv, Objects, Protocol, GenOK, Dated, Delete, Import,
                    Get, CreateOrUpdate
<1>2. ASSUME NEW call, NEW p, Continue(c, call, p), p.man = o.man, p.gen = o.gen
      PROVE  /\ pc'[c] = call /\ copy'[c] = p /\ GoesOn(c)
             /\ CopyMoves(c) => ObjectStep(c)
  <2>1. Within(c, call, p) /\ fresh'[c] = fresh[c]
    BY <1>2, ContinueWithin DEF IInv, Runtime
  <2>2. GoesOn(c)
    BY <1>1, <1>2, <2>1 DEF Within, GoesOn
  <2> QED BY <2>1, <2>2, WithinStep DEF Within
<1>3. ASSUME NEW p, Continue(c, "StatusUpdate", p), Restated(o, p),
             p.status.ready \in {"DeleteFailed", "ImportFailed", "AlreadyExists",
                                 "ReconcileFailed"},
             p.status.id = o.status.id
      PROVE  ObjectStep(c)
  BY <1>2, <1>3 DEF Restated, Fails, CopyMoves
<1>4. ASSUME NEW call, Continue(c, call, o),
             call = "RemoveFinalizer" \/ (pc[c] = "Get" /\ call = "CreateOrUpdate")
      PROVE  ObjectStep(c)
  BY <1>2, <1>4 DEF Passes, CopyMoves
<1>5. CASE Delete(c)
  <2>1. \/ Continue(c, "RemoveFinalizer", o)
        \/ Continue(c, "StatusUpdate", Ready(o, "DeleteFailed"))
    BY <1>5 DEF Delete
  <2> QED BY <1>1, <1>3, <1>4, <2>1, ReadyFacts DEF Reasons
<1>6. CASE Import(c)
  <2> DEFINE p == Imported(o)
             q == Ready(p, "ObservedOnly")
             f == ImportFailed(o)
  <2>1. /\ pc[c] = "Import" /\ azure' = azure
        /\ \/ Continue(c, "StatusUpdate", q)
           \/ Continue(c, "CreateOrUpdate", p) /\ ~ObserveOnly(o.man)
           \/ Continue(c, "StatusUpdate", f)
    BY <1>6 DEF Import
  <2>2. /\ Restated(o, p) /\ p.status.id = o.man.importId
        /\ p.status.drift = DriftOf(azure[ImportRef(o.man.importId)], o.man.spec)
    BY <1>1, ImportedFacts
  <2>3. /\ Restated(o, q) /\ q.status.id = o.man.importId
        /\ q.status.drift = p.status.drift /\ q.status.ready = "ObservedOnly"
    BY <2>2, ReadyFacts DEF Restated, Reasons
  <2>4. Restated(o, f) /\ f.status.ready = "ImportFailed" /\ f.status.id = o.status.id
    BY <1>1, ImportFailedFacts
  <2> HIDE DEF p, q, f
  <2>5. ASSUME Continue(c, "StatusUpdate", q)
        PROVE  ObjectStep(c)
    BY <1>2, <2>1, <2>2, <2>3, <2>5 DEF Restated, Imports, CopyMoves
  <2>6. ASSUME Continue(c, "CreateOrUpdate", p), ~ObserveOnly(o.man)
        PROVE  ObjectStep(c)
    BY <1>2, <2>1, <2>2, <2>6 DEF Restated, Imports, CopyMoves
  <2> QED BY <1>3, <2>1, <2>4, <2>5, <2>6
<1>7. CASE Get(c)
  <2>1. \/ Continue(c, "StatusUpdate", Ready(o, "AlreadyExists"))
        \/ pc[c] = "Get" /\ Continue(c, "CreateOrUpdate", o)
        \/ Return(c, TRUE) /\ UNCHANGED store
    BY <1>7 DEF Get
  <2>2. ASSUME Return(c, TRUE), UNCHANGED store
        PROVE  ObjectStep(c)
    <3>1. Within(c, "idle", Absent) /\ Rests(c)
      BY <2>2 DEF Return, store, Within, Rests, Present, Absent, IInv, Runtime, RuntimeInv, Typed,
                  RuntimeTypeOK
    <3> QED BY <3>1, WithinStep DEF CopyMoves
  <2> QED BY <1>1, <1>3, <1>4, <2>1, <2>2, ReadyFacts DEF Reasons
<1>8. CASE CreateOrUpdate(c)
  <2> DEFINE r == Target(c, o.man)
             p == Applied(c, o)
  <2>1. ASSUME r \in Refs, Continue(c, "StatusUpdate", p),
               azure' = [azure EXCEPT ![r] = Definition(c, o)]
        PROVE  ObjectStep(c)
    <3>1. /\ Restated(o, p)
          /\ p.status.id = [scope |-> r.scope, name |-> r.name, text |-> "canonical"]
          /\ p.status.ready \in {"Reconciled", "AppliedOnce"}
          /\ p.status.observed = o.gen
      BY <1>1, <2>1, AppliedFacts
    <3> HIDE DEF p
    <3>2. pc[c] = "CreateOrUpdate"
      BY <1>8 DEF CreateOrUpdate
    <3>3. Continue(c, "StatusUpdate", p)
      BY <2>1
    <3>4. pc'[c] = "StatusUpdate" /\ copy'[c] = p /\ GoesOn(c)
      BY <1>2, <3>1, <3>3 DEF Restated
    <3>5. Applies(c)
      BY <2>1, <3>1, <3>2, <3>4 DEF Applies
    <3> QED BY <1>2, <3>1, <3>3, <3>5 DEF Restated, CopyMoves
  <2>2. \/ r \in Refs /\ Continue(c, "StatusUpdate", p)
           /\ azure' = [azure EXCEPT ![r] = Definition(c, o)]
        \/ Continue(c, "StatusUpdate", Ready(o, "ReconcileFailed"))
    BY <1>8 DEF CreateOrUpdate, ReconcileFailed
  <2> HIDE DEF p
  <2> QED BY <1>1, <1>3, <2>1, <2>2, ReadyFacts DEF Reasons, p
<1> QED BY <1>5, <1>6, <1>7, <1>8

LEMMA NextObject ==
  ASSUME IInv, [Next]_vars, NEW c \in CRs
  PROVE  ObjectStep(c)
<1>1. CASE UNCHANGED vars
  BY <1>1, StillOutside, OutsideStep DEF vars, runtimeVars, IInv, Runtime
<1>2. ASSUME NEW d \in CRs, Call(d)
      PROVE  ObjectStep(c)
  BY <1>2, OthersCall, OwnWrite, OwnCall DEF Call
<1> QED BY <1>1, <1>2, EnvironmentObject, ReconcileObject DEF Next

-----------------------------------------------------------------------------
(* Objects keep to their offers and their names.                           *)

LEMMA NamesOfOffers ==
  ASSUME NEW c \in CRs, NEW m \in Offers[c]
  PROVE  /\ m.importId # None => m.importId.name \in OwnNames(c)
         /\ Target(c, m) \in Refs => Target(c, m).name \in OwnNames(c)
<1>1. m.importName # None => m.importName \in OwnNames(c)
  BY DEF OwnNames
<1>2. m.importId # None => m.importId.name \in OwnNames(c)
  BY DEF OwnNames
<1>3. NameOf[c] \in OwnNames(c)
  BY DEF OwnNames
<1>4. Target(c, m).name = TargetName(c, m)
  BY DEF Target
<1>5. Target(c, m) \in Refs => TargetName(c, m) # None
  BY <1>4, NoneAssumption DEF Refs
<1> QED BY <1>1, <1>2, <1>3, <1>4, <1>5 DEF TargetName

LEMMA OwnStart ==
  ASSUME Init, NEW c \in CRs
  PROVE  OwnInv(c)
  BY DEF Init, RuntimeInit, OwnInv, Present, Absent

LEMMA OwnStep ==
  ASSUME IInv, [Next]_vars, NEW c \in CRs, OwnInv(c)
  PROVE  OwnInv(c)'
<1>1. ObjectStep(c) /\ Protocol(c) /\ LocalInv(c) /\ edits \in Nat
      /\ (pc[c] # "idle" => copy[c].gen \in Nat)
  BY NextObject, CopyFields DEF IInv, Runtime, RuntimeInv, ObjectsOf
<1>2. Present(obj'[c]) => Own(c, obj'[c])
  BY <1>1 DEF ObjectStep, ObjectMoves, Created, Edited, Reported, Own, OwnInv, NoStatus
<1>3. Present(cache'[c]) => Own(c, cache'[c])
  BY <1>1 DEF ObjectStep, CacheMoves, OwnInv
<1>4. pc'[c] # "idle" => Own(c, copy'[c])
  <2>1. Rests(c) \/ Waits(c) \/ Begins(c) \/ Fails(c) \/ Passes(c) =>
          (pc'[c] # "idle" => Own(c, copy'[c]))
    BY <1>1 DEF Rests, Waits, Begins, Fails, Passes, GoesOn, OwnInv, Own
  <2>2. ASSUME Imports(c)
        PROVE  Own(c, copy'[c])
    BY <1>1, <2>2, NamesOfOffers DEF Imports, GoesOn, OwnInv, Own, LocalInv, CallOK
  <2>3. ASSUME Applies(c)
        PROVE  Own(c, copy'[c])
    BY <2>3, NamesOfOffers DEF Applies, GoesOn, OwnInv, Own
  <2> QED BY <1>1, <2>1, <2>2, <2>3 DEF ObjectStep, CopyMoves
<1>5. Present(obj'[c]) /\ pc'[c] # "idle" /\ copy'[c].gen = obj'[c].gen =>
        copy'[c].man.spec = obj'[c].man.spec
  <2> SUFFICES ASSUME Present(obj'[c]), pc'[c] # "idle", copy'[c].gen = obj'[c].gen
               PROVE  copy'[c].man.spec = obj'[c].man.spec
    OBVIOUS
  <2>1. CASE Waits(c)
    <3>1. copy[c].gen <= edits
      BY <1>1, <2>1 DEF Waits, Protocol, GenOK, Dated
    <3> QED BY <1>1, <2>1, <3>1
            DEF ObjectStep, ObjectMoves, Created, Edited, Reported, Waits, OwnInv
  <2>2. CASE Begins(c)
    BY <1>1, <2>2 DEF Begins, Protocol, GenOK, Present
  <2>3. CASE GoesOn(c)
    BY <2>3 DEF GoesOn, OwnInv, Present
  <2> QED BY <1>1, <2>1, <2>2, <2>3
          DEF ObjectStep, CopyMoves, Rests, Fails, Passes, Imports, Applies
<1> QED BY <1>2, <1>3, <1>4, <1>5 DEF OwnInv

-----------------------------------------------------------------------------
(* Azure as one object's status knows it.                                  *)

\* What a step changes in Azure when nobody else does.
AzureMoves ==
  \/ azure' = azure
  \/ \E d \in CRs :
       pc[d] = "Delete" /\ azure' = [azure EXCEPT ![DeleteRef(copy[d])] = None]
  \/ \E d \in CRs :
       /\ pc[d] = "CreateOrUpdate" /\ Target(d, copy[d].man) \in Refs
       /\ azure' = [azure EXCEPT ![Target(d, copy[d].man)] = Definition(d, copy[d])]

LEMMA AzureStep ==
  ASSUME IInv, [Next]_vars, MaxPortal = 0
  PROVE  AzureMoves
<1>1. ~\E r \in Refs : Portal(r)
  BY DEF Portal, IInv, AzureTyped
<1>2. Environment => azure' = azure
  BY <1>1 DEF Environment
<1>3. \A d \in CRs : Reconcile(d) => azure' = azure
  BY DEF Reconcile, IgnoreGone, BeginAddFinalizer, HandleDeletion, RejectRebinding, SkipApplied,
         BeginImport, BeginReconcileDefinition
<1>4. ASSUME NEW d \in CRs, Call(d)
      PROVE  AzureMoves
  <2>1. CASE Delete(d)
    BY <2>1 DEF Delete, AzureMoves
  <2>2. CASE CreateOrUpdate(d)
    BY <2>2 DEF CreateOrUpdate, AzureMoves
  <2> QED BY <1>4, <2>1, <2>2 DEF Call, AddFinalizer, RemoveFinalizer, Import, Get, StatusUpdate,
                                  AzureMoves
<1> QED BY <1>2, <1>3, <1>4 DEF Next, vars, AzureMoves

\* Where Import looks for what CreateOrUpdate wrote.
LEMMA AppliedRef ==
  ASSUME NEW c \in CRs, NEW o \in Objects, Target(c, o.man) \in Refs
  PROVE  ImportRef([scope |-> Target(c, o.man).scope, name |-> Target(c, o.man).name,
                    text |-> "canonical"]) = Target(c, o.man)
<1>1. o.man.spec.mg \in MGs \cup {None}
  BY DEF Objects, ObjectsOf, Manifests, Specs
<1> QED BY <1>1 DEF ImportRef, Target, TargetScope

\* What a name of c is bound to is changed by c alone.
LEMMA BoundStays ==
  ASSUME IInv, \A d \in CRs : OwnInv(d), NamesApart, MaxPortal = 0, [Next]_vars,
         NEW c \in CRs, NEW id \in Ids, id.name \in OwnNames(c), pc[c] # "Delete"
  PROVE  LET b == ImportRef(id)
         IN  \/ azure'[b] = azure[b]
             \/ pc[c] = "CreateOrUpdate" /\ azure'[b] = Definition(c, copy[c])
<1> DEFINE b == ImportRef(id)
<1>1. b.name = id.name
  BY DEF ImportRef
<1>2. CASE azure' = azure
  BY <1>2
<1>3. ASSUME NEW d \in CRs, pc[d] = "Delete",
             azure' = [azure EXCEPT ![DeleteRef(copy[d])] = None]
      PROVE  azure'[b] = azure[b]
  <2>1. d # c
    BY <1>3
  <2>2. copy[d].status.id # None
    BY <1>3 DEF IInv, LocalInv, CallOK, Releases
  <2>3. DeleteRef(copy[d]).name \in OwnNames(d)
    BY <1>3, <2>2 DEF DeleteRef, OwnInv, Own
  <2>4. DeleteRef(copy[d]) # b
    BY <1>1, <2>1, <2>3 DEF NamesApart
  <2> QED BY <1>3, <2>4 DEF IInv, AzureTyped
<1>4. ASSUME NEW d \in CRs, pc[d] = "CreateOrUpdate", Target(d, copy[d].man) \in Refs,
             azure' = [azure EXCEPT ![Target(d, copy[d].man)] = Definition(d, copy[d])]
      PROVE  azure'[b] = azure[b]
             \/ (pc[c] = "CreateOrUpdate" /\ azure'[b] = Definition(c, copy[c]))
  <2>1. Target(d, copy[d].man).name \in OwnNames(d)
    BY <1>4, NamesOfOffers DEF OwnInv, Own
  <2>2. CASE d # c
    <3>1. Target(d, copy[d].man) # b
      BY <1>1, <2>1, <2>2 DEF NamesApart
    <3> QED BY <1>4, <3>1 DEF IInv, AzureTyped
  <2>3. CASE d = c
    BY <1>4, <2>3 DEF IInv, AzureTyped
  <2> QED BY <2>2, <2>3
<1> QED BY <1>2, <1>3, <1>4, AzureStep DEF AzureMoves

-----------------------------------------------------------------------------
(* The stored status is true of Azure.                                     *)

\* A definition that c has written, and what its generation is.
LEMMA DefinitionFacts ==
  ASSUME NEW c \in CRs, NEW o \in Objects
  PROVE  LET d == Definition(c, o)
         IN  d # None /\ d.by = c /\ d.gen = o.gen /\ d.head = o.man.spec.head
  BY DefinitionType, NoneAssumption DEF Definition

\* What is bound and stored stays true.
LEMMA StoredStays ==
  ASSUME IInv, \A d \in CRs : OwnInv(d), NamesApart, MaxPortal = 0, [Next]_vars,
         NEW c \in CRs, StatusInv(c), obj[c].phase = "live", Edited(c), obj'[c].phase = "live"
  PROVE  /\ Backed(c, obj[c])'
         /\ obj'[c].status.observed = obj'[c].gen => SeenInSync(obj[c])'
<1> DEFINE b == BoundRef(obj[c])
<1>1. /\ obj[c] \in Objects /\ Protocol(c) /\ edits \in Nat
      /\ (pc[c] # "idle" => copy[c] \in Objects) /\ Present(obj[c])
  BY CopyFields DEF IInv, Runtime, RuntimeInv, Objects, Present
<1>2. /\ obj[c].gen \in Nat /\ obj[c].status.observed \in Nat /\ obj[c].gen <= edits
      /\ pc[c] # "idle" => copy[c].gen \in Nat
  BY <1>1, ObjectFields DEF IInv, Runtime, RuntimeInv, Objects, Protocol, GenOK, Dated
<1>3. obj'[c].status = obj[c].status
  BY DEF Edited
<1>4. obj'[c].status.observed = obj'[c].gen =>
        obj[c].status.observed = obj[c].gen /\ obj'[c].man.spec = obj[c].man.spec
  BY <1>1, <1>2, <1>3 DEF Edited, Protocol, GenOK, Dated
<1>5. CASE obj[c].status.id = None
  BY <1>3, <1>4, <1>5 DEF StatusInv, Backed, SeenInSync
<1>6. CASE obj[c].status.id # None
  <2>1. obj[c].status.id \in Ids /\ obj[c].status.id.name \in OwnNames(c)
    BY <1>1, <1>6 DEF Objects, ObjectsOf, Statuses, OwnInv, Own
  <2>2. pc[c] # "Delete"
    BY <1>1, <1>6 DEF Protocol, CacheOK, GuardOK, Managed, HasId, Work, IInv, LocalInv, CallOK,
                      CleaningUp
  <2>3. \/ azure'[b] = azure[b]
        \/ pc[c] = "CreateOrUpdate" /\ azure'[b] = Definition(c, copy[c])
    BY <2>1, <2>2, BoundStays DEF BoundRef
  <2>4. obj'[c].status = obj[c].status /\ BoundRef(obj'[c]) = b
    BY DEF Edited, BoundRef
  <2>5. CASE azure'[b] = azure[b]
    <3>1. Backed(c, obj[c])'
      BY <2>4, <2>5 DEF StatusInv, Backed
    <3>2. obj'[c].status.observed = obj'[c].gen => SeenInSync(obj[c])'
      BY <1>4, <2>4, <2>5 DEF StatusInv, SeenInSync
    <3> QED BY <3>1, <3>2
  <2>6. CASE pc[c] = "CreateOrUpdate" /\ azure'[b] = Definition(c, copy[c])
    <3>1. copy[c].gen >= obj[c].status.observed /\ copy[c].gen <= obj[c].gen
      BY <1>1, <2>6 DEF Protocol, GenOK
    <3>2. Backed(c, obj[c])'
      BY <1>1, <1>6, <2>4, <2>6, <3>1, DefinitionFacts DEF Backed
    <3>3. ASSUME obj'[c].status.observed = obj'[c].gen
          PROVE  copy[c].man.spec = obj'[c].man.spec
      <4>1. obj[c].status.observed = obj[c].gen /\ obj'[c].man.spec = obj[c].man.spec
        BY <1>4, <3>3
      <4>2. copy[c].gen = obj[c].gen
        BY <1>2, <2>6, <3>1, <4>1
      <4> QED BY <1>1, <2>6, <4>1, <4>2 DEF OwnInv
    <3>4. obj'[c].status.observed = obj'[c].gen => SeenInSync(obj[c])'
      BY <1>1, <1>6, <2>4, <2>6, <3>3, DefinitionFacts DEF SeenInSync
    <3> QED BY <3>2, <3>4
  <2> QED BY <2>3, <2>5, <2>6
<1> QED BY <1>5, <1>6

\* What a reconcile is about to report is and stays true.
LEMMA ReportStays ==
  ASSUME IInv, \A d \in CRs : OwnInv(d), NamesApart, MaxPortal = 0, [Next]_vars,
         NEW c \in CRs, pc[c] = "StatusUpdate", Backed(c, copy[c]), SeenInSync(copy[c]),
         NEW o, o = copy[c]
  PROVE  /\ o.status.ready \in {"Reconciled", "AppliedOnce"} =>
              LET d == azure'[BoundRef(o)]
              IN  o.status.id # None /\ d # None /\ d.by = c /\ d.gen >= o.status.observed
         /\ o.status.ready = "ObservedOnly" /\ o.status.drift = "InSync" =>
              o.status.id # None /\ azure'[BoundRef(o)].head = o.man.spec.head
<1>1. copy[c] \in Objects
  BY CopyFields DEF IInv, Runtime, Objects
<1>2. CASE o.status.id = None
  BY <1>2 DEF Backed, SeenInSync
<1>3. CASE o.status.id # None
  <2>1. o.status.id \in Ids /\ o.status.id.name \in OwnNames(c)
    BY <1>1, <1>3 DEF Objects, ObjectsOf, Statuses, OwnInv, Own
  <2>2. azure'[BoundRef(o)] = azure[BoundRef(o)]
    BY <2>1, BoundStays DEF BoundRef
  <2> QED BY <2>2 DEF Backed, SeenInSync
<1> QED BY <1>2, <1>3

LEMMA StatusStart ==
  ASSUME Init, NEW c \in CRs
  PROVE  StatusInv(c)
  BY DEF Init, RuntimeInit, StatusInv, Absent

LEMMA StatusInvStep ==
  ASSUME IInv, \A d \in CRs : OwnInv(d), NamesApart, MaxPortal = 0, [Next]_vars,
         NEW c \in CRs, StatusInv(c)
  PROVE  StatusInv(c)'
<1>1. ObjectStep(c)
  BY NextObject
<1>2. (pc[c] # "idle" => copy[c] \in Objects) /\ AzureTyped
  BY CopyFields DEF IInv, Runtime, Objects
<1>3. ASSUME obj'[c].phase = "live"
      PROVE  /\ Backed(c, obj[c])'
             /\ obj'[c].status.observed = obj'[c].gen => SeenInSync(obj[c])'
  <2>1. CASE Created(c, NoStatus)
    BY <2>1, NoneAssumption DEF Created, NoStatus, Backed, SeenInSync
  <2>2. CASE Edited(c)
    <3>1. obj[c].phase = "live"
      BY <1>3, <2>2 DEF Edited
    <3> QED BY <1>3, <2>2, <3>1, StoredStays
  <2>3. CASE Reported(c)
    <3>1. pc[c] = "StatusUpdate" /\ obj'[c] = copy[c] /\ copy[c].phase = "live"
      BY <1>3, <2>3 DEF Reported
    <3>2. Backed(c, copy[c]) /\ SeenInSync(copy[c])
      BY <3>1 DEF StatusInv
    <3> QED BY <3>1, <3>2, ReportStays DEF Backed, SeenInSync
  <2> QED BY <1>1, <1>3, <2>1, <2>2, <2>3 DEF ObjectStep, ObjectMoves, Present
<1>4. ASSUME pc'[c] = "StatusUpdate", copy'[c].phase = "live"
      PROVE  Backed(c, copy[c])' /\ SeenInSync(copy[c])'
  <2>1. CASE Waits(c)
    <3>1. pc[c] = "StatusUpdate" /\ copy'[c] = copy[c] /\ copy[c].phase = "live"
      BY <1>4, <2>1 DEF Waits
    <3>2. Backed(c, copy[c]) /\ SeenInSync(copy[c])
      BY <3>1 DEF StatusInv
    <3> QED BY <3>1, <3>2, ReportStays DEF Backed, SeenInSync
  <2>2. CASE Begins(c) \/ Fails(c)
    BY <1>4, <2>2 DEF Begins, Fails, Backed, SeenInSync
  <2>3. CASE Imports(c)
    <3>1. /\ copy'[c].status.id = copy[c].man.importId /\ copy'[c].man = copy[c].man
          /\ copy[c].man.importId # None /\ azure' = azure
          /\ copy'[c].status.ready = "ObservedOnly"
          /\ copy'[c].status.drift =
               DriftOf(azure[ImportRef(copy[c].man.importId)], copy[c].man.spec)
      BY <1>4, <2>3 DEF Imports, GoesOn, IInv, LocalInv, CallOK
    <3> QED BY <3>1 DEF Backed, SeenInSync, DriftOf, BoundRef
  <2>4. CASE Applies(c)
    <3> DEFINE r == Target(c, copy[c].man)
    <3>1. /\ r \in Refs /\ copy[c] \in Objects /\ azure'[r] = Definition(c, copy[c])
          /\ copy'[c].status.ready \in {"Reconciled", "AppliedOnce"}
          /\ copy'[c].status.observed = copy[c].gen
          /\ copy'[c].status.id = [scope |-> r.scope, name |-> r.name, text |-> "canonical"]
      BY <1>2, <2>4 DEF Applies, AzureTyped
    <3>2. BoundRef(copy'[c]) = r
      BY <3>1, AppliedRef DEF BoundRef
    <3>3. copy'[c].status.id # None
      BY <3>1, NoneAssumption DEF Refs, Ids
    <3>4. copy[c].gen \in Nat
      BY <3>1 DEF Objects, ObjectsOf
    <3> HIDE DEF r
    <3> QED BY <3>1, <3>2, <3>3, <3>4, DefinitionFacts DEF Backed, SeenInSync
  <2> QED BY <1>1, <1>4, <2>1, <2>2, <2>3, <2>4 DEF ObjectStep, CopyMoves, Rests, Passes
<1> QED BY <1>3, <1>4 DEF StatusInv

-----------------------------------------------------------------------------
(* What a reconcile of an import binds.                                    *)

LEMMA BindingStart ==
  ASSUME Init, NEW c \in CRs
  PROVE  BindingInv(c)
  BY DEF Init, RuntimeInit, BindingInv

LEMMA BindingStep ==
  ASSUME IInv, \A d \in CRs : OwnInv(d), Aligned, [Next]_vars, NEW c \in CRs, BindingInv(c)
  PROVE  BindingInv(c)'
<1>1. /\ ObjectStep(c) /\ LocalInv(c) /\ Protocol(c)
      /\ (pc[c] # "idle" => copy[c] \in Objects)
  BY NextObject, CopyFields DEF IInv, Runtime, RuntimeInv, Objects
<1>2. CASE Rests(c)
  BY <1>2 DEF Rests, BindingInv
<1>3. CASE Waits(c)
  BY <1>3 DEF Waits, BindingInv
<1>4. CASE Begins(c)
  <2>1. synced[c] => cache[c] = obj[c]
    BY <1>1 DEF Protocol, FlagsOK
  <2> QED BY <1>4, <2>1 DEF Begins, BindingInv, HasId, Present, Rebinds, BoundRef
<1>5. CASE Fails(c) \/ Passes(c)
  BY <1>1, <1>5 DEF Fails, Passes, GoesOn, BindingInv, BoundRef, LocalInv, CallOK
<1>6. CASE Imports(c)
  BY <1>1, <1>6 DEF Imports, GoesOn, BindingInv, BoundRef
<1>7. CASE Applies(c)
  <2> DEFINE r == Target(c, copy[c].man)
  <2>1. r \in Refs /\ copy[c] \in Objects /\ BoundRef(copy'[c]) = r
    BY <1>1, <1>7, AppliedRef DEF Applies, BoundRef
  <2>2. copy[c].man.importId # None =>
          /\ r = ImportRef(copy[c].man.importId)
          /\ BoundRef(copy[c]) = r
    BY <1>1, <1>7 DEF Applies, LocalInv, CallOK, OwnInv, Own, Aligned, BindingInv, BoundRef
  <2>3. fresh[c] => copy[c].man = obj[c].man
    BY <1>1 DEF LocalInv, CopyAgrees
  <2> HIDE DEF r
  <2> QED BY <1>7, <2>1, <2>2, <2>3 DEF Applies, GoesOn, BindingInv
<1> QED BY <1>1, <1>2, <1>3, <1>4, <1>5, <1>6, <1>7 DEF ObjectStep, CopyMoves

-----------------------------------------------------------------------------
(* The theorems.                                                           *)

LEMMA OwnInvariance == Spec => [](IInv /\ \A c \in CRs : OwnInv(c))
<1>1. Init => \A c \in CRs : OwnInv(c)
  BY OwnStart
<1>2. IInv /\ (\A c \in CRs : OwnInv(c)) /\ [Next]_vars => (\A c \in CRs : OwnInv(c))'
  BY OwnStep
<1> QED BY <1>1, <1>2, Invariance, PTL DEF Spec

LEMMA StatusInvariance ==
  ASSUME NamesApart, MaxPortal = 0
  PROVE  Spec => []\A c \in CRs : StatusInv(c)
<1>1. Init => \A c \in CRs : StatusInv(c)
  BY StatusStart
<1>2. /\ IInv /\ (\A c \in CRs : OwnInv(c)) /\ (\A c \in CRs : StatusInv(c)) /\ [Next]_vars
      => (\A c \in CRs : StatusInv(c))'
  BY StatusInvStep
<1> QED BY <1>1, <1>2, OwnInvariance, PTL DEF Spec

LEMMA BindingInvariance ==
  ASSUME Aligned
  PROVE  Spec => []\A c \in CRs : BindingInv(c)
<1>1. Init => \A c \in CRs : BindingInv(c)
  BY BindingStart
<1>2. /\ IInv /\ (\A c \in CRs : OwnInv(c)) /\ (\A c \in CRs : BindingInv(c)) /\ [Next]_vars
      => (\A c \in CRs : BindingInv(c))'
  BY BindingStep
<1> QED BY <1>1, <1>2, OwnInvariance, PTL DEF Spec

\* When nobody else writes to Azure and no two objects share a name there, a
\* live object that reports Reconciled or AppliedOnce has its definition in
\* Azure, written by itself from the reported generation or a later one.
THEOREM StatusIsBacked ==
  ASSUME NamesApart, MaxPortal = 0
  PROVE  Spec => []StatusNotAhead
<1>1. (\A c \in CRs : StatusInv(c)) => StatusNotAhead
  BY DEF StatusInv, Backed, StatusNotAhead
<1> QED BY <1>1, StatusInvariance, PTL

\* Under the same conditions, an InSync of the current generation is true:
\* the live definition has the displayName, description and mode of the spec.
THEOREM InSyncIsTrue ==
  ASSUME NamesApart, MaxPortal = 0
  PROVE  Spec => []InSyncIsCurrent
<1>1. (\A c \in CRs : StatusInv(c)) => InSyncIsCurrent
  BY DEF StatusInv, SeenInSync, InSyncIsCurrent
<1> QED BY <1>1, StatusInvariance, PTL

\* When annotations and spec point to one definition, what an import reports
\* as adopted is what its import-id names, whatever others do in Azure.
THEOREM ImportsAdopt ==
  ASSUME Aligned
  PROVE  Spec => []AdoptsTheImported
<1>1. (\A c \in CRs : BindingInv(c)) => AdoptsTheImported
  BY DEF BindingInv, AdoptsTheImported
<1> QED BY <1>1, BindingInvariance, PTL

\* The status of a live import changes with a report only, and the report
\* keeps the binding.
LEMMA KeepsBinding ==
  ASSUME IInv, NEW c \in CRs, BindingInv(c), [Next]_vars,
         obj[c].phase = "live", Present(obj'[c]),
         obj[c].status.id # None, obj[c].man.importId # None
  PROVE  BoundRef(obj'[c]) = BoundRef(obj[c])
<1>1. ObjectMoves(c)
  BY NextObject DEF ObjectStep
<1>2. CASE Edited(c)
  BY <1>2 DEF Edited, BoundRef
<1>3. CASE Reported(c)
  BY <1>3 DEF Reported, BindingInv, HasId
<1> QED BY <1>1, <1>2, <1>3 DEF ObjectMoves, Created, Present

\* Likewise, the binding of a live object that carries an import-id stays
\* with one definition, also when a user changes the annotation.
THEOREM BindingIsKept ==
  ASSUME Aligned
  PROVE  Spec => NoRebinding
<1>1. /\ IInv /\ (\A c \in CRs : BindingInv(c)) /\ [Next]_vars
      => [\A c \in CRs :
            /\ obj[c].phase = "live" /\ Present(obj'[c])
            /\ obj[c].status.id # None
            /\ obj[c].man.importId # None
            => BoundRef(obj'[c]) = BoundRef(obj[c])]_vars
  BY KeepsBinding
<1> QED BY <1>1, Invariance, BindingInvariance, PTL DEF Spec, NoRebinding
=============================================================================
