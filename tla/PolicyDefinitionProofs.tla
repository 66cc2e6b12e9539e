------------------------ MODULE PolicyDefinitionProofs ------------------------
(***************************************************************************)
(* Theorems about PolicyDefinition, for every set of objects, offers and   *)
(* bounds: type correctness, WritesUnderFinalizer, ObserveOnlyReads, and   *)
(* that the controller implements ManagedResource.                         *)
(*                                                                         *)
(* The finalizer protocol comes from ControllerRuntimeProofs.  What it     *)
(* leaves open is what the branches of Reconcile have established by the   *)
(* time a call is made, what a copy may still say of the binding when it   *)
(* is written back, and that the definition goes before the finalizer.     *)
(***************************************************************************)
EXTENDS PolicyDefinition, ControllerRuntimeProofs

Runtime == RuntimeInv(Manifests, Statuses, Calls)

AzureTyped == azure \in [Refs -> Resources \cup {None}] /\ portal \in 0..MaxPortal

Writing == {"Import", "Get", "CreateOrUpdate"}

CleaningUp == {"Delete", "RemoveFinalizer"}

\* What the branches on the way to a call have established about the copy.
CallOK(c) ==
  /\ pc[c] \in Writing => copy[c].phase = "live"
  /\ pc[c] \in CleaningUp => copy[c].phase = "deleting"
  /\ pc[c] = "Import" => copy[c].man.importId # None
  /\ pc[c] = "Get" => copy[c].man.importId = None
  /\ pc[c] = "CreateOrUpdate" => copy[c].man.importId = None \/ ~ObserveOnly(copy[c].man)
  /\ pc[c] = "Delete" => ~Releases(copy[c])

\* A fresh copy has the manifest of the stored object, does not lose its
\* binding, and changes it only where writing has been done.
CopyAgrees(c) ==
  fresh[c] =>
    /\ copy[c].man = obj[c].man
    /\ HasId(obj[c]) => HasId(copy[c])
    /\ copy[c].phase = "deleting" => copy[c].status.id = obj[c].status.id

\* Before the finalizer is removed the definition is, unless it is released.
CleanedUp(c) ==
  pc[c] = "RemoveFinalizer" =>
    Releases(copy[c]) \/ azure[DeleteRef(copy[c])] = None \/ portal # 0

LocalInv(c) == CallOK(c) /\ CopyAgrees(c) /\ CleanedUp(c)

IInv == Runtime /\ AzureTyped /\ \A c \in CRs : LocalInv(c)

-----------------------------------------------------------------------------
(* What the steps between two calls do to the copy.                        *)

\* p is o with another status, reported for a generation that o has seen.
Restated(o, p) ==
  /\ p \in Objects
  /\ p.phase = o.phase /\ p.fin = o.fin /\ p.gen = o.gen /\ p.man = o.man
  /\ p.status.observed <= p.gen

LEMMA ReadyFacts ==
  ASSUME NEW o \in Objects, NEW reason \in Reasons
  PROVE  LET p == Ready(o, reason)
         IN  /\ Restated(o, p)
             /\ p.status.ready = reason /\ p.status.observed = o.gen
             /\ p.status.id = o.status.id /\ p.status.drift = o.status.drift
<1> DEFINE p == Ready(o, reason)
<1>1. /\ p \in Objects /\ p.phase = o.phase /\ p.fin = o.fin /\ p.gen = o.gen /\ p.man = o.man
      /\ p.status.ready = reason /\ p.status.observed = o.gen
      /\ p.status.id = o.status.id /\ p.status.drift = o.status.drift
  BY DEF Ready, Objects, ObjectsOf, Statuses
<1>2. o.gen \in Nat
  BY DEF Objects, ObjectsOf
<1> HIDE DEF p
<1> QED BY <1>1, <1>2 DEF Restated, p

LEMMA ImportedFacts ==
  ASSUME NEW o \in Objects, o.status.observed <= o.gen
  PROVE  LET p == Imported(o)
         IN  /\ Restated(o, p)
             /\ p.status.id = o.man.importId
             /\ p.status.drift = DriftOf(azure[ImportRef(o.man.importId)], o.man.spec)
<1>1. o.man.importId \in Ids \cup {None}
  BY DEF Objects, ObjectsOf, Manifests
<1>2. DriftOf(azure[ImportRef(o.man.importId)], o.man.spec) \in {"SpecMismatch", "InSync"}
  BY DEF DriftOf
<1> QED BY <1>1, <1>2 DEF Imported, Restated, Objects, ObjectsOf, Statuses

LEMMA ImportFailedFacts ==
  ASSUME NEW o \in Objects
  PROVE  LET p == ImportFailed(o)
         IN  Restated(o, p) /\ p.status.ready = "ImportFailed" /\ p.status.id = o.status.id
<1> DEFINE q == [o EXCEPT !.status.imported = "ImportFailed"]
<1>1. /\ q \in Objects /\ q.phase = o.phase /\ q.fin = o.fin /\ q.gen = o.gen /\ q.man = o.man
      /\ q.status.id = o.status.id
  BY DEF Objects, ObjectsOf, Statuses
<1> HIDE DEF q
<1> QED BY <1>1, ReadyFacts DEF ImportFailed, q, Restated, Reasons

LEMMA AppliedFacts ==
  ASSUME NEW c \in CRs, NEW o \in Objects, Target(c, o.man) \in Refs
  PROVE  LET p == Applied(c, o)
         IN  /\ Restated(o, p)
             /\ p.status.id = [scope |-> Target(c, o.man).scope,
                               name |-> Target(c, o.man).name, text |-> "canonical"]
             /\ p.status.id \in Ids
             /\ p.status.ready \in {"Reconciled", "AppliedOnce"}
             /\ p.status.observed = o.gen
<1> DEFINE r == Target(c, o.man)
           id == [scope |-> r.scope, name |-> r.name, text |-> "canonical"]
           q == [o EXCEPT !.status.id = id, !.status.applied = o.man.spec.version]
           reason == IF o.man.mode = "adopt-once" THEN "AppliedOnce" ELSE "Reconciled"
<1>1. id \in Ids
  BY DEF Refs, Ids
<1>2. o.man.spec.version \in Versions
  BY DEF Objects, ObjectsOf, Manifests, Specs
<1>3. /\ q \in Objects /\ q.phase = o.phase /\ q.fin = o.fin /\ q.gen = o.gen /\ q.man = o.man
      /\ q.status.id = id
  BY <1>1, <1>2 DEF Objects, ObjectsOf, Statuses
<1>4. Applied(c, o) = Ready(q, reason)
  BY DEF Applied
<1>5. reason \in Reasons /\ reason \in {"Reconciled", "AppliedOnce"}
  BY DEF Reasons
<1> HIDE DEF q, id, reason
<1> QED BY <1>1, <1>3, <1>4, <1>5, ReadyFacts DEF Restated, id

LEMMA DefinitionType ==
  ASSUME NEW c \in CRs, NEW o \in Objects
  PROVE  Definition(c, o) \in Resources
  BY DEF Definition, Resources, Objects, ObjectsOf, Manifests, Specs

\* The definition that Delete removes is one of Azure's.
LEMMA DeleteRefType ==
  ASSUME NEW o \in Objects, ~Releases(o)
  PROVE  DeleteRef(o) \in Refs
<1>1. o.status.id \in Ids /\ o.man.spec.mg \in MGs \cup {None}
  BY DEF Releases, Objects, ObjectsOf, Statuses, Manifests, Specs
<1> QED BY <1>1, ConstantsAssumption DEF DeleteRef, TargetScope, Scopes, Ids, Refs

-----------------------------------------------------------------------------
(* A step that keeps IInv, and is a step of ManagedResource.               *)

M == INSTANCE ManagedResourceProofs WITH
  stage <- [c \in CRs |-> Stage(obj[c])],
  work <- [c \in CRs |-> Work(pc[c], copy[c])],
  bound <- [c \in CRs |-> HasId(obj[c])],
  owed <- [c \in CRs |-> Owes(obj[c])]

LEMMA SameModule == M!Next => Managing!Next
  BY DEF M!Next, M!Create, M!Guard, M!MarkDeleted, M!StartWriting, M!StartCleaning, M!Bind,
         M!Forget, M!GiveUp, M!Owes, M!Moves, M!Starts, M!Ends,
         Managing!Next, Managing!Create, Managing!Guard, Managing!MarkDeleted,
         Managing!StartWriting, Managing!StartCleaning, Managing!Bind, Managing!Forget,
         Managing!GiveUp, Managing!Owes, Managing!Moves, Managing!Starts, Managing!Ends

\* One object's step is a step of ManagedResource.
LEMMA Lifting ==
  ASSUME NEW c \in CRs, StepOf(c, Owes(obj[c]))
  PROVE  Managing!Next
<1> DEFINE stage == [d \in CRs |-> Stage(obj[d])]
           work == [d \in CRs |-> Work(pc[d], copy[d])]
           bound == [d \in CRs |-> HasId(obj[d])]
<1>1. M!Owes
  BY DEF M!Owes, Owes
<1>2. /\ stage' = [stage EXCEPT ![c] = stage'[c]]
      /\ work' = [work EXCEPT ![c] = work'[c]]
      /\ bound' = [bound EXCEPT ![c] = bound'[c]]
  BY DEF StepOf, Untouched, SameStage, SameWork, SameBound
<1>3. HasId(obj'[c]) \in BOOLEAN
  BY DEF HasId
<1>4. \/ M!Same(c) /\ work'[c] = work[c]
      \/ M!Lives(c) \/ M!StartsWork(c) \/ M!EndsWork(c)
  BY <1>3 DEF StepOf, Untouched, LifeStep, StartStep, EndStep, SameStage, SameWork, SameBound,
         M!Same, M!Lives, M!StartsWork, M!EndsWork
<1>5. M!Next
  BY <1>1, <1>2, <1>4, M!ObjectStep
<1> QED BY <1>5, SameModule

LEMMA SafeLifting ==
  ASSUME SafeStep
  PROVE  Managing!Next
<1>1. CASE \E c \in CRs : StepOf(c, TRUE)
  <2> PICK c \in CRs : StepOf(c, TRUE)
    BY <1>1
  <2>1. StepOf(c, Owes(obj[c]))
    BY DEF StepOf, EndStep
  <2> QED BY <2>1, Lifting
<1>2. CASE \A d \in CRs : Untouched(d)
  BY <1>2 DEF Untouched, SameStage, SameWork, SameBound, Managing!Next, Managing!Owes, Owes
<1> QED BY <1>1, <1>2 DEF SafeStep

\* A step of the one worker: the others are idle and stay so.
LEMMA WorkerStep ==
  ASSUME IInv, Runtime', AzureTyped', NEW c \in CRs, Apart(c),
         \A d \in CRs \ {c} : pc[d] = "idle",
         LocalInv(c)'
  PROVE  IInv'
<1>1. \A d \in CRs \ {c} : pc'[d] = "idle" /\ ~fresh'[d]
  BY DEF Apart, IInv, Runtime, RuntimeInv, Protocol, FlagsOK
<1>2. \A d \in CRs \ {c} : LocalInv(d)'
  BY <1>1 DEF LocalInv, CallOK, CopyAgrees, CleanedUp, Writing, CleaningUp
<1> QED BY <1>2 DEF IInv

\* A step that is not the worker's, and not a crash.
LEMMA OtherStep ==
  ASSUME IInv, Runtime', AzureTyped', UNCHANGED <<pc, copy>>,
         (azure' = azure /\ portal' = portal) \/ portal' # 0,
         \A c \in CRs : fresh'[c] => fresh[c] /\ obj'[c] = obj[c]
  PROVE  IInv'
<1>1. ASSUME NEW c \in CRs
      PROVE  LocalInv(c)'
  <2>1. LocalInv(c)
    BY DEF IInv
  <2>2. CallOK(c)' /\ CopyAgrees(c)'
    BY <2>1 DEF LocalInv, CallOK, CopyAgrees
  <2>3. CleanedUp(c)'
    BY <2>1 DEF LocalInv, CleanedUp
  <2> QED BY <2>2, <2>3 DEF LocalInv
<1> QED BY <1>1 DEF IInv

LEMMA InitOK == Init => IInv /\ Managing!Init
<1> SUFFICES ASSUME Init
             PROVE  IInv /\ Managing!Init
  OBVIOUS
<1>1. Kind(Manifests, Statuses, Calls)
  BY ConstantsAssumption DEF Kind, Statuses, Calls
<1>2. Runtime
  BY <1>1, RuntimeStart DEF Init, Runtime
<1>3. AzureTyped
  BY ConstantsAssumption DEF Init, AzureTyped
<1>4. \A c \in CRs : LocalInv(c)
  BY DEF Init, RuntimeInit, LocalInv, CallOK, CopyAgrees, CleanedUp, Writing, CleaningUp
<1>5. \A c \in CRs : ~Present(obj[c]) /\ pc[c] = "idle"
  BY DEF Init, RuntimeInit, Present, Absent
<1>6. \A c \in CRs : HasId(obj[c]) = FALSE /\ Owes(obj[c]) = FALSE
  BY <1>5 DEF HasId, Owes
<1>7. Managing!Init
  BY <1>5, <1>6 DEF Managing!Init, Stage, Work
<1> QED BY <1>2, <1>3, <1>4, <1>7 DEF IInv

LEMMA EnvironmentStep ==
  ASSUME IInv, Environment
  PROVE  IInv' /\ Managing!Next
<1> USE DEF IInv
<1>1. CASE User(NoStatus) /\ UNCHANGED <<azure, portal>>
  <2>1. NoStatus \in Statuses /\ NoStatus.id = None /\ NoStatus.observed = 0
    BY DEF NoStatus, Statuses, Reasons
  <2>2. Runtime' /\ SafeStep
    BY <1>1, <2>1, UserStep DEF Runtime
  <2> PICK c \in CRs : \E o : StoredByUser(c, o)
    BY <1>1 DEF User, UserCreate, UserApply, UserDelete
  <2> PICK o : StoredByUser(c, o)
    OBVIOUS
  <2>3. /\ UNCHANGED <<pc, copy>>
        /\ \A d \in CRs : fresh'[d] => fresh[d] /\ obj'[d] = obj[d]
    BY DEF StoredByUser, Stored, Runtime, RuntimeInv, Typed, RuntimeTypeOK
  <2>4. IInv'
    <3> HIDE DEF IInv
    <3> QED BY <1>1, <2>2, <2>3, OtherStep DEF IInv, AzureTyped
  <2> QED BY <2>2, <2>4, SafeLifting
<1>2. CASE Crash /\ UNCHANGED <<azure, portal>>
  <2>1. Runtime' /\ SafeStep
    BY <1>2, CrashStep DEF Runtime
  <2>2. \A c \in CRs : pc'[c] = "idle" /\ ~fresh'[c]
    BY <1>2 DEF Crash
  <2>3. \A c \in CRs : LocalInv(c)'
    BY <2>2 DEF LocalInv, CallOK, CopyAgrees, CleanedUp, Writing, CleaningUp
  <2> QED BY <1>2, <2>1, <2>3, SafeLifting DEF AzureTyped
<1>3. CASE \E c \in CRs : (Sync(c) \/ Resync(c)) /\ UNCHANGED <<azure, portal>>
  <2>1. Runtime' /\ SafeStep
    BY <1>3, SyncStep, ResyncStep DEF Runtime
  <2>2. UNCHANGED <<pc, copy, fresh, obj>>
    BY <1>3 DEF Sync, Resync, store
  <2>3. AzureTyped'
    BY <1>3 DEF AzureTyped
  <2>4. IInv'
    <3> HIDE DEF IInv
    <3> QED BY <1>3, <2>1, <2>2, <2>3, OtherStep
  <2> QED BY <2>1, <2>4, SafeLifting
<1>4. CASE \E r \in Refs : Portal(r)
  <2> PICK r \in Refs : Portal(r)
    BY <1>4
  <2>1. UNCHANGED runtimeVars /\ portal' # 0 /\ portal' \in 0..MaxPortal
    BY ConstantsAssumption DEF Portal, AzureTyped
  <2>2. Runtime' /\ SafeStep
    <3>1. queue' \subseteq CRs
      BY <2>1 DEF runtimeVars, Runtime, RuntimeInv, Typed, RuntimeTypeOK
    <3> QED BY <2>1, <3>1, QuietStep DEF runtimeVars, store, Runtime
  <2>3. \A d \in {None} \cup [head : Heads, version : Versions, by : {None}, gen : {0}] :
          d \in Resources \cup {None}
    BY DEF Resources
  <2>4. AzureTyped'
    BY <2>1, <2>3 DEF Portal, AzureTyped
  <2>5. IInv'
    <3> HIDE DEF IInv
    <3> QED BY <2>1, <2>2, <2>4, OtherStep DEF runtimeVars
  <2> QED BY <2>2, <2>5, SafeLifting
<1> QED BY <1>1, <1>2, <1>3, <1>4 DEF Environment

-----------------------------------------------------------------------------
(* The steps of Reconcile.                                                 *)

\* A reconcile begins with what the cache shows, and with its binding.
LEMMA BeginOK ==
  ASSUME IInv, NEW c \in CRs, NEW call \in Calls \ {"idle"}, NEW o \in Objects,
         Begin(c, call, o), UNCHANGED <<azure, portal>>,
         cache[c] \in Objects, Restated(cache[c], o), o.status.id = cache[c].status.id,
         \/ call = "AddFinalizer" /\ o = cache[c] /\ o.phase = "live"
         \/ call \in CleaningUp /\ o.phase = "deleting" /\ o.fin
         \/ call \in Writing \cup {"StatusUpdate"} /\ Managed(o),
         call = "RemoveFinalizer" <=> call \in CleaningUp /\ Releases(o),
         call = "Import" => o.man.importId # None,
         call \in {"Get", "CreateOrUpdate"} => o.man.importId = None
  PROVE  IInv' /\ Managing!Next
<1>1. Present(cache[c])
  BY DEF Objects, ObjectsOf, Present
<1>2. Runtime' /\ SafeStep
  BY <1>1, BeginStep DEF IInv, Runtime, Restated, Managed, Objects, CleaningUp, Writing
<1>3. /\ obj'[c] = obj[c] /\ pc'[c] = call /\ copy'[c] = o /\ fresh'[c] = synced[c]
      /\ Apart(c) /\ \A d \in CRs : pc[d] = "idle"
  BY DEF Begin, Dequeue, store, Apart, IInv, Runtime, RuntimeInv, Typed, RuntimeTypeOK
<1>4. synced[c] => cache[c] = obj[c]
  BY DEF IInv, Runtime, RuntimeInv, Protocol, FlagsOK
<1>5. CallOK(c)'
  BY <1>3 DEF CallOK, Writing, CleaningUp, Managed, Releases, ObserveOnly
<1>6. CopyAgrees(c)'
  BY <1>3, <1>4 DEF CopyAgrees, Restated, HasId, Present
<1>7. CleanedUp(c)'
  BY <1>3 DEF CleanedUp, Releases
<1>8. AzureTyped'
  BY DEF IInv, AzureTyped
<1>9. IInv'
  BY <1>2, <1>3, <1>5, <1>6, <1>7, <1>8, WorkerStep DEF LocalInv
<1> QED BY <1>2, <1>9, SafeLifting

\* The cache as a copy.
LEMMA CacheFacts ==
  ASSUME IInv, NEW c \in CRs, Present(cache[c])
  PROVE  cache[c] \in Objects /\ Restated(cache[c], cache[c])
  BY CopyFields DEF IInv, Runtime, RuntimeInv, Protocol, GenOK, Dated, Objects, Restated

LEMMA ReconcileStep ==
  ASSUME IInv, NEW c \in CRs, Reconcile(c)
  PROVE  IInv' /\ Managing!Next
<1> USE DEF Calls, Writing, CleaningUp
<1>1. CASE IgnoreGone(c) \/ SkipApplied(c)
  <2> PICK requeue \in BOOLEAN : ReturnAtOnce(c, requeue) /\ UNCHANGED <<azure, portal>>
    BY <1>1 DEF IgnoreGone, SkipApplied
  <2>1. Runtime' /\ SafeStep
    BY ReturnAtOnceStep DEF IInv, Runtime
  <2>2. UNCHANGED <<pc, copy, fresh, obj>>
    BY DEF ReturnAtOnce, store
  <2>3. AzureTyped'
    BY DEF IInv, AzureTyped
  <2>4. IInv'
    BY <2>1, <2>2, <2>3, OtherStep
  <2> QED BY <2>1, <2>4, SafeLifting
<1>2. CASE BeginAddFinalizer(c)
  <2>1. Present(cache[c])
    BY <1>2 DEF BeginAddFinalizer, Present
  <2> QED BY <1>2, <2>1, CacheFacts, BeginOK DEF BeginAddFinalizer
<1>3. CASE HandleDeletion(c)
  <2>1. Present(cache[c])
    BY <1>3 DEF HandleDeletion, Present
  <2> QED BY <1>3, <2>1, CacheFacts, BeginOK DEF HandleDeletion
<1>4. CASE RejectRebinding(c)
  <2> DEFINE o == Ready(cache[c], "ImportConflict")
  <2>1. Present(cache[c])
    BY <1>4 DEF RejectRebinding, Managed, Present
  <2>2. /\ Restated(cache[c], o) /\ o \in Objects /\ o.status.id = cache[c].status.id
        /\ Begin(c, "StatusUpdate", o) /\ UNCHANGED <<azure, portal>> /\ Managed(cache[c])
    BY <1>4, <2>1, CacheFacts, ReadyFacts DEF RejectRebinding, Reasons, Restated
  <2>3. Managed(o)
    BY <2>2 DEF Managed, Restated
  <2> HIDE DEF o
  <2> QED BY <2>1, <2>2, <2>3, CacheFacts, BeginOK
<1>5. CASE BeginImport(c)
  <2>1. Present(cache[c])
    BY <1>5 DEF BeginImport, Managed, Present
  <2> QED BY <1>5, <2>1, CacheFacts, BeginOK DEF BeginImport
<1>6. CASE BeginReconcileDefinition(c)
  <2>1. Present(cache[c])
    BY <1>6 DEF BeginReconcileDefinition, Managed, Present
  <2>2. FirstCall(cache[c]) \in {"Get", "CreateOrUpdate"}
    BY DEF FirstCall
  <2> QED BY <1>6, <2>1, <2>2, CacheFacts, BeginOK DEF BeginReconcileDefinition
<1> QED BY <1>1, <1>2, <1>3, <1>4, <1>5, <1>6 DEF Reconcile

-----------------------------------------------------------------------------
(* The calls.                                                              *)

\* A reconcile goes on with a copy whose binding it has not lost.
LEMMA ContinueOK ==
  ASSUME IInv, NEW c \in CRs, NEW call \in {"RemoveFinalizer", "CreateOrUpdate", "StatusUpdate"},
         NEW o, Restated(copy[c], o), Continue(c, call, o), Fault \/ UNCHANGED faults,
         pc[c] \notin {"idle", "AddFinalizer"},
         azure' \in [Refs -> Resources \cup {None}], UNCHANGED portal,
         HasId(copy[c]) => HasId(o),
         o.phase = "deleting" => o.status.id = copy[c].status.id,
         call = "RemoveFinalizer" => o.phase = "deleting" /\ azure'[DeleteRef(o)] = None,
         call = "CreateOrUpdate" =>
           o.phase = "live" /\ (o.man.importId = None \/ ~ObserveOnly(o.man))
  PROVE  IInv' /\ Managing!Next
<1>1. call \in Calls \ {"idle", "AddFinalizer"}
  BY DEF Calls
<1>2. Runtime' /\ SafeStep
  BY <1>1, ContinueStep DEF IInv, Runtime, Restated, Objects
<1>3. /\ obj'[c] = obj[c] /\ pc'[c] = call /\ copy'[c] = o /\ fresh'[c] = fresh[c] /\ Apart(c)
  BY DEF Continue, store, Apart, IInv, Runtime, RuntimeInv, Typed, RuntimeTypeOK
<1>4. \A d \in CRs \ {c} : pc[d] = "idle"
  BY DEF IInv, Runtime, RuntimeInv, OneWorker
<1>5. CallOK(c)'
  BY <1>3 DEF CallOK, Writing, CleaningUp
<1>6. CopyAgrees(c)'
  BY <1>3 DEF CopyAgrees, Restated, HasId, IInv, LocalInv
<1>7. CleanedUp(c)'
  BY <1>3 DEF CleanedUp, DeleteRef
<1>8. AzureTyped'
  BY DEF IInv, AzureTyped
<1>9. IInv'
  BY <1>2, <1>3, <1>4, <1>5, <1>6, <1>7, <1>8, WorkerStep DEF LocalInv
<1> QED BY <1>2, <1>9, SafeLifting

\* A reconcile that has returned leaves nothing to agree with.
LEMMA ReturnOK ==
  ASSUME IInv, NEW c \in CRs, Runtime', UNCHANGED <<azure, portal>>,
         pc[c] # "idle", Apart(c), pc'[c] = "idle", fresh'[c] = FALSE
  PROVE  IInv'
<1>1. \A d \in CRs \ {c} : pc[d] = "idle"
  BY DEF IInv, Runtime, RuntimeInv, OneWorker
<1>2. LocalInv(c)'
  BY DEF LocalInv, CallOK, CopyAgrees, CleanedUp, Writing, CleaningUp
<1>3. AzureTyped'
  BY DEF IInv, AzureTyped
<1> QED BY <1>1, <1>2, <1>3, WorkerStep

LEMMA ReturnApart ==
  ASSUME IInv, NEW c \in CRs, NEW requeue, Return(c, requeue),
         UNCHANGED store \/ (\E o : Stored(c, o))
  PROVE  Apart(c) /\ pc'[c] = "idle" /\ fresh'[c] = FALSE
  BY DEF Return, store, Stored, Apart, IInv, Runtime, RuntimeInv, Typed, RuntimeTypeOK

LEMMA WriteApart ==
  ASSUME IInv, NEW c \in CRs, NEW o, Writes(c, o)
  PROVE  Apart(c) /\ pc'[c] = "idle" /\ fresh'[c] = FALSE
  BY WriteCases, ReturnApart

\* The write that ends a reconcile.
LEMMA WriteStep ==
  ASSUME IInv, NEW c \in CRs, AddFinalizer(c) \/ RemoveFinalizer(c) \/ StatusUpdate(c)
  PROVE  IInv' /\ Managing!Next
<1>1. LocalInv(c) /\ Protocol(c)
  BY DEF IInv, Runtime, RuntimeInv
<1>2. ASSUME NEW o, Writes(c, o), Runtime', UNCHANGED <<azure, portal>>, pc[c] # "idle"
      PROVE  IInv'
  BY <1>2, WriteApart, ReturnOK
<1>3. CASE AddFinalizer(c)
  <2>1. Writes(c, [copy[c] EXCEPT !.fin = TRUE]) /\ pc[c] = "AddFinalizer"
        /\ UNCHANGED <<azure, portal>>
    BY <1>3 DEF AddFinalizer, Writes
  <2>2. Runtime' /\ SafeStep
    BY <2>1, AddFinalizerStep DEF IInv, Runtime
  <2> QED BY <1>2, <2>1, <2>2, SafeLifting
<1>4. CASE RemoveFinalizer(c)
  <2>1. Writes(c, Absent) /\ pc[c] = "RemoveFinalizer" /\ UNCHANGED <<azure, portal>>
    BY <1>4 DEF RemoveFinalizer, Writes
  <2>2. Work(pc[c], copy[c]) = "clean"
    BY <1>1, <2>1 DEF LocalInv, CallOK, CleaningUp, Work
  <2>3. fresh[c] => ~Owes(obj[c])
    BY <1>1, <2>1 DEF LocalInv, CopyAgrees, CallOK, CleaningUp, CleanedUp, Releases, Owes,
                      HasId, DeleteRef
  <2>4. Runtime' /\ (SafeStep \/ StepOf(c, Owes(obj[c])))
    BY <2>1, <2>2, <2>3, RemoveFinalizerStep DEF IInv, Runtime
  <2>5. pc[c] # "idle"
    BY <2>1
  <2> QED BY <1>2, <2>1, <2>4, <2>5, Lifting, SafeLifting
<1>5. CASE StatusUpdate(c)
  <2>1. Writes(c, copy[c]) /\ pc[c] = "StatusUpdate" /\ UNCHANGED <<azure, portal>>
    BY <1>5 DEF StatusUpdate, Writes
  <2>2. copy[c] \in Objects /\ copy[c].status.observed <= copy[c].gen
    BY <1>1, <2>1, CopyFields DEF IInv, Runtime, RuntimeInv, Objects, Protocol, GenOK, Dated
  <2>3. fresh[c] => /\ copy[c].phase = obj[c].phase /\ copy[c].fin = obj[c].fin
                    /\ copy[c].gen = obj[c].gen /\ copy[c].man = obj[c].man
                    /\ HasId(obj[c]) => HasId(copy[c])
                    /\ copy[c].phase = "deleting" => copy[c].status.id = obj[c].status.id
                    /\ Present(obj[c])
    BY <1>1 DEF LocalInv, CopyAgrees, Protocol, FlagsOK
  <2>4. fresh[c] /\ copy[c].phase = "deleting" => HasId(copy[c]) = HasId(obj[c])
    BY <2>3 DEF HasId, Present
  <2>5. Runtime' /\ SafeStep
    BY <2>1, <2>2, <2>3, <2>4, StatusStep DEF IInv, Runtime, Objects
  <2> QED BY <1>2, <2>1, <2>5, SafeLifting
<1> QED BY <1>3, <1>4, <1>5

LEMMA CallStep ==
  ASSUME IInv, NEW c \in CRs, Call(c)
  PROVE  IInv' /\ Managing!Next
<1> DEFINE o == copy[c]
<1>1. LocalInv(c) /\ (pc[c] # "idle" => o \in Objects /\ o.status.observed <= o.gen)
  BY CopyFields DEF IInv, Runtime, RuntimeInv, Objects, Protocol, GenOK, Dated
<1>2. ASSUME pc[c] # "idle"
      PROVE  Restated(o, o)
  BY <1>1, <1>2 DEF Restated
<1>3. CASE AddFinalizer(c) \/ RemoveFinalizer(c) \/ StatusUpdate(c)
  BY <1>3, WriteStep
<1>4. CASE Delete(c)
  <2>1. pc[c] = "Delete" /\ o.phase = "deleting" /\ DeleteRef(o) \in Refs /\ UNCHANGED portal
    BY <1>1, <1>4, DeleteRefType DEF Delete, LocalInv, CallOK, CleaningUp
  <2>2. azure' \in [Refs -> Resources \cup {None}]
    BY <1>4 DEF Delete, IInv, AzureTyped
  <2>3. CASE azure' = [azure EXCEPT ![DeleteRef(o)] = None]
             /\ Continue(c, "RemoveFinalizer", o) /\ UNCHANGED faults
    <3>1. azure'[DeleteRef(o)] = None
      BY <2>1, <2>3 DEF IInv, AzureTyped
    <3> QED BY <1>2, <2>1, <2>2, <2>3, <3>1, ContinueOK
  <2>4. CASE Continue(c, "StatusUpdate", Ready(o, "DeleteFailed")) /\ Fault
    <3> DEFINE p == Ready(o, "DeleteFailed")
    <3>1. Restated(o, p) /\ p.status.id = o.status.id
      BY <1>1, <2>1, ReadyFacts DEF Reasons
    <3>2. HasId(o) => HasId(p)
      BY <3>1 DEF Restated, HasId, Present
    <3>3. Continue(c, "StatusUpdate", p) /\ Fault
      BY <2>4
    <3> HIDE DEF p
    <3> QED BY <2>1, <2>2, <3>1, <3>2, <3>3, ContinueOK
  <2> QED BY <1>4, <2>3, <2>4 DEF Delete
<1>5. CASE Import(c)
  <2>1. /\ pc[c] = "Import" /\ o.phase = "live" /\ o.man.importId # None
        /\ o \in Objects /\ o.status.observed <= o.gen /\ UNCHANGED <<azure, portal>>
    BY <1>1, <1>5 DEF Import, LocalInv, CallOK, Writing
  <2>2. azure' \in [Refs -> Resources \cup {None}]
    BY <2>1 DEF IInv, AzureTyped
  <2> DEFINE p == Imported(o)
             q == Ready(p, "ObservedOnly")
             f == ImportFailed(o)
  <2>3. Restated(o, p) /\ p.status.id = o.man.importId
    BY <2>1, ImportedFacts
  <2>4. Restated(o, q) /\ q.status.id = o.man.importId
    BY <2>3, ReadyFacts DEF Restated, Reasons
  <2>5. Restated(o, f) /\ f.status.id = o.status.id
    BY <2>1, ImportFailedFacts
  <2>6. \/ Continue(c, "StatusUpdate", q) /\ UNCHANGED faults
        \/ Continue(c, "CreateOrUpdate", p) /\ UNCHANGED faults /\ ~ObserveOnly(o.man)
        \/ Continue(c, "StatusUpdate", f) /\ (Fault \/ UNCHANGED faults)
    BY <1>5 DEF Import
  <2> HIDE DEF p, q, f
  <2>7. HasId(p) /\ HasId(q) /\ (HasId(o) => HasId(f))
    BY <2>1, <2>3, <2>4, <2>5 DEF HasId, Present, Restated
  <2>8. /\ p.phase = "live" /\ q.phase = "live" /\ f.phase = "live" /\ p.man = o.man
    BY <2>1, <2>3, <2>4, <2>5 DEF Restated
  <2> HIDE DEF o
  <2>9. CASE Continue(c, "StatusUpdate", q) /\ UNCHANGED faults
    BY <2>1, <2>2, <2>4, <2>7, <2>8, <2>9, ContinueOK DEF o
  <2>10. CASE Continue(c, "CreateOrUpdate", p) /\ UNCHANGED faults /\ ~ObserveOnly(o.man)
    BY <2>1, <2>2, <2>3, <2>7, <2>8, <2>10, ContinueOK DEF o
  <2>11. CASE Continue(c, "StatusUpdate", f) /\ (Fault \/ UNCHANGED faults)
    BY <2>1, <2>2, <2>5, <2>7, <2>8, <2>11, ContinueOK DEF o
  <2> QED BY <2>6, <2>9, <2>10, <2>11
<1>6. CASE Get(c)
  <2>1. /\ pc[c] = "Get" /\ o.phase = "live" /\ o.man.importId = None
        /\ o \in Objects /\ UNCHANGED <<azure, portal>> /\ Restated(o, o)
    BY <1>1, <1>2, <1>6 DEF Get, LocalInv, CallOK, Writing
  <2>2. azure' \in [Refs -> Resources \cup {None}]
    BY <2>1 DEF IInv, AzureTyped
  <2>3. CASE Continue(c, "StatusUpdate", Ready(o, "AlreadyExists")) /\ UNCHANGED faults
    <3> DEFINE p == Ready(o, "AlreadyExists")
    <3>1. Restated(o, p) /\ p.status.id = o.status.id
      BY <2>1, ReadyFacts DEF Reasons
    <3>2. (HasId(o) => HasId(p)) /\ p.phase = "live"
      BY <2>1, <3>1 DEF Restated, HasId, Present
    <3>3. Continue(c, "StatusUpdate", p) /\ UNCHANGED faults
      BY <2>3
    <3> HIDE DEF p
    <3> QED BY <2>1, <2>2, <3>1, <3>2, <3>3, ContinueOK
  <2>4. CASE Continue(c, "CreateOrUpdate", o) /\ (Fault \/ UNCHANGED faults)
    BY <2>1, <2>2, <2>4, ContinueOK
  <2>5. CASE Return(c, TRUE) /\ UNCHANGED store /\ (Fault \/ UNCHANGED faults)
    <3>1. Runtime' /\ SafeStep
      BY <2>5, ReturnStep DEF IInv, Runtime
    <3>2. Apart(c) /\ pc'[c] = "idle" /\ fresh'[c] = FALSE
      BY <2>5, ReturnApart
    <3> QED BY <2>1, <3>1, <3>2, ReturnOK, SafeLifting
  <2>6. \/ Continue(c, "StatusUpdate", Ready(o, "AlreadyExists")) /\ UNCHANGED faults
        \/ Continue(c, "CreateOrUpdate", o) /\ (Fault \/ UNCHANGED faults)
        \/ Return(c, TRUE) /\ UNCHANGED store /\ (Fault \/ UNCHANGED faults)
    BY <1>6 DEF Get
  <2> QED BY <2>3, <2>4, <2>5, <2>6
<1>7. CASE CreateOrUpdate(c)
  <2>1. /\ pc[c] = "CreateOrUpdate" /\ o.phase = "live" /\ o \in Objects
        /\ UNCHANGED portal
    BY <1>1, <1>7 DEF CreateOrUpdate, LocalInv, CallOK, Writing
  <2>2. azure' \in [Refs -> Resources \cup {None}]
    BY <1>7, <2>1, DefinitionType DEF CreateOrUpdate, IInv, AzureTyped
  <2>3. CASE Target(c, o.man) \in Refs /\ Continue(c, "StatusUpdate", Applied(c, o))
             /\ UNCHANGED faults
    <3> DEFINE p == Applied(c, o)
    <3>1. Restated(o, p) /\ p.status.id \in Ids
      BY <2>1, <2>3, AppliedFacts
    <3>2. Continue(c, "StatusUpdate", p) /\ UNCHANGED faults
      BY <2>3
    <3> HIDE DEF p
    <3>3. HasId(p) /\ p.phase = "live"
      BY <2>1, <3>1, NoneAssumption DEF Restated, HasId, Present
    <3> QED BY <2>1, <2>2, <3>1, <3>2, <3>3, ContinueOK
  <2>4. CASE Continue(c, "StatusUpdate", Ready(o, "ReconcileFailed"))
             /\ (Fault \/ UNCHANGED faults)
    <3> DEFINE p == Ready(o, "ReconcileFailed")
    <3>1. Restated(o, p) /\ p.status.id = o.status.id
      BY <2>1, ReadyFacts DEF Reasons
    <3>2. (HasId(o) => HasId(p)) /\ p.phase = "live"
      BY <2>1, <3>1 DEF Restated, HasId, Present
    <3>3. Continue(c, "StatusUpdate", p) /\ (Fault \/ UNCHANGED faults)
      BY <2>4
    <3> HIDE DEF p
    <3> QED BY <2>1, <2>2, <3>1, <3>2, <3>3, ContinueOK
  <2> QED BY <1>7, <2>3, <2>4 DEF CreateOrUpdate, ReconcileFailed
<1> QED BY <1>3, <1>4, <1>5, <1>6, <1>7 DEF Call

-----------------------------------------------------------------------------
(* The theorems.                                                           *)

LEMMA Step == IInv /\ [Next]_vars => IInv' /\ [Managing!Next]_(Managing!vars)
<1> SUFFICES ASSUME IInv, [Next]_vars
             PROVE  IInv' /\ [Managing!Next]_(Managing!vars)
  OBVIOUS
<1>1. CASE UNCHANGED vars
  <2>1. Runtime' /\ SafeStep
    <3>1. queue' \subseteq CRs
      BY <1>1 DEF vars, runtimeVars, IInv, Runtime, RuntimeInv, Typed, RuntimeTypeOK
    <3> QED BY <1>1, <3>1, QuietStep DEF vars, runtimeVars, store, IInv, Runtime
  <2>2. AzureTyped'
    BY <1>1 DEF vars, IInv, AzureTyped
  <2>3. IInv'
    BY <1>1, <2>1, <2>2, OtherStep DEF vars, runtimeVars
  <2> QED BY <2>1, <2>3, SafeLifting
<1>2. CASE Environment
  BY <1>2, EnvironmentStep
<1>3. ASSUME NEW c \in CRs, Reconcile(c) \/ Call(c)
      PROVE  IInv' /\ Managing!Next
  BY <1>3, ReconcileStep, CallStep
<1> QED BY <1>1, <1>2, <1>3 DEF Next

LEMMA Invariance == Spec => []IInv
  BY InitOK, Step, PTL DEF Spec

\* The variables have their types: the copy a reconcile holds is an object
\* of the kind throughout, however the calls, the annotations and the faults
\* have changed it.
THEOREM TypeCorrect == Spec => []TypeOK
<1>1. IInv => TypeOK
  BY DEF IInv, Runtime, RuntimeInv, Typed, AzureTyped, TypeOK, Objects
<1> QED BY <1>1, Invariance, PTL

\* However users, the cache, conflicts, failures and crashes interleave with
\* the reconciles, a definition is written or bound only for a stored object
\* whose finalizer still guards its clean-up.
THEOREM FinalizerGuardsWrites == Spec => []WritesUnderFinalizer
<1>1. IInv => WritesUnderFinalizer
  BY DEF IInv, LocalInv, CallOK, Writing, Runtime, RuntimeInv, Protocol, GuardOK, Work, HasId,
         WritesUnderFinalizer
<1> QED BY <1>1, Invariance, PTL

\* The controller implements ManagedResource: its definitions are created and
\* bound under the finalizer, no stale reconcile cleans up a guarded object,
\* and an object ends when what it owes Azure is deleted.
THEOREM DefinitionsAreManaged == Spec => Lifecycle
  BY InitOK, Step, Invariance, PTL DEF Spec, Lifecycle, Managing!Spec

\* A call that changes Azure is made for a copy that allows it.
LEMMA ReadsOnly ==
  ASSUME IInv, Next, NEW c \in CRs, pc'[c] # pc[c],
         copy[c].man.importId # None, ObserveOnly(copy[c].man),
         copy[c].phase = "deleting" => copy[c].man.mode = "observe-only"
  PROVE  azure' = azure
<1> SUFFICES ASSUME azure' # azure
             PROVE  FALSE
  OBVIOUS
<1>1. PICK d \in CRs : Delete(d) \/ CreateOrUpdate(d)
  <2>1. ~Environment
    BY DEF Environment, Portal, runtimeVars
  <2>2. PICK d \in CRs : Reconcile(d) \/ Call(d)
    BY <2>1 DEF Next
  <2>3. ~Reconcile(d)
    BY DEF Reconcile, IgnoreGone, BeginAddFinalizer, HandleDeletion, RejectRebinding,
           SkipApplied, BeginImport, BeginReconcileDefinition
  <2> QED BY <2>2, <2>3 DEF Call, AddFinalizer, RemoveFinalizer, Import, Get, StatusUpdate
<1>2. d = c
  BY <1>1 DEF Delete, CreateOrUpdate, Continue, IInv, Runtime, RuntimeInv, Typed, RuntimeTypeOK
<1>3. CallOK(c)
  BY DEF IInv, LocalInv
<1> QED BY <1>1, <1>2, <1>3 DEF Delete, CreateOrUpdate, CallOK, CleaningUp, Releases

\* A live object that imports as observe-only, whether its annotation says so or
\* nothing, is never written to Azure, and one whose annotation says so is not
\* deleted there: whatever the copy has been through, the calls that change
\* Azure are made in other modes, or by the clean-up of the default one.
THEOREM ObservingOnlyReads == Spec => ObserveOnlyReads
<1>1. IInv /\ [Next]_vars =>
        [\A c \in CRs :
           /\ pc'[c] # pc[c]
           /\ Present(copy[c]) /\ copy[c].man.importId # None
           /\ ObserveOnly(copy[c].man)
           /\ copy[c].phase = "deleting" => copy[c].man.mode = "observe-only"
           => azure' = azure]_vars
  BY ReadsOnly
<1> QED BY <1>1, Invariance, PTL DEF Spec, ObserveOnlyReads
=============================================================================
