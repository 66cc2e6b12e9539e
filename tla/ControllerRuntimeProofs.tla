------------------------ MODULE ControllerRuntimeProofs ------------------------
(***************************************************************************)
(* What the API server, the informer and the worker guarantee to every     *)
(* controller, whatever its kind: manifests M, statuses S and calls K are  *)
(* parameters of each lemma.  The controllers' own proofs cite one lemma   *)
(* per shape of a step, twice: for the invariant it keeps and for what it  *)
(* is in the words of ManagedResource.                                     *)
(***************************************************************************)
EXTENDS ControllerRuntime, TLAPS

\* What a kind has to bring.
Kind(M, S, K) ==
  /\ \A c \in CRs : Offers[c] \subseteq M
  /\ \A s \in S : s.observed \in Nat
  /\ "idle" \in K

\* The worker's copy is an object whenever a reconcile is under way.
Typed(M, S, K) ==
  /\ RuntimeTypeOK(ObjectsOf(M, S), K)
  /\ \A c \in CRs : pc[c] # "idle" => copy[c] \in ObjectsOf(M, S)

\* There is one worker.
OneWorker == \A c, d \in CRs : pc[c] # "idle" /\ pc[d] # "idle" => c = d

\* The flags mean what they say: a synced cache holds the stored object, and a
\* fresh copy is one of the stored object.
FlagsOK(c) ==
  /\ synced[c] => cache[c] = obj[c]
  /\ fresh[c] => /\ synced[c] /\ pc[c] # "idle" /\ Present(obj[c])
                 /\ copy[c].phase = obj[c].phase
                 /\ copy[c].fin = obj[c].fin
                 /\ copy[c].gen = obj[c].gen
  /\ fresh[c] /\ pc[c] = "AddFinalizer" => copy[c] = obj[c]

\* A reconcile that goes past the finalizer has seen it.
CopyOK(c) ==
  /\ pc[c] = "AddFinalizer" => copy[c].phase = "live"
  /\ pc[c] \notin {"idle", "AddFinalizer"} => copy[c].fin

\* The cache lags, but not arbitrarily: what it shows with a finalizer still
\* has one, and what it shows being deleted has not come back with one.
CacheOK(c) ==
  /\ Managed(cache[c]) => HasFinalizer(obj[c])
  /\ cache[c].phase = "deleting" => ~Managed(obj[c])
  /\ Work(pc[c], copy[c]) = "clean" => ~Managed(cache[c]) /\ ~Managed(obj[c])

\* Work and bindings are under the finalizer.
GuardOK(c) ==
  /\ Work(pc[c], copy[c]) = "write" => HasFinalizer(obj[c])
  /\ HasId(obj[c]) => obj[c].fin

\* A generation is one that a user made, and the status is not ahead of it.
Dated(o) == o.gen <= edits /\ o.status.observed <= o.gen

\* The cache and the copy are older than the object, but not older than what
\* its status reports.
GenOK(c) ==
  /\ Present(obj[c]) => Dated(obj[c])
  /\ Present(cache[c]) => Dated(cache[c])
  /\ pc[c] # "idle" => Dated(copy[c])
  /\ Present(obj[c]) /\ Present(cache[c]) =>
       /\ obj[c].status.observed <= cache[c].gen /\ cache[c].gen <= obj[c].gen
       /\ cache[c].gen = obj[c].gen => cache[c].man.spec = obj[c].man.spec
  /\ Present(obj[c]) /\ pc[c] # "idle" =>
       obj[c].status.observed <= copy[c].gen /\ copy[c].gen <= obj[c].gen

Protocol(c) == FlagsOK(c) /\ CopyOK(c) /\ CacheOK(c) /\ GuardOK(c) /\ GenOK(c)

RuntimeInv(M, S, K) ==
  /\ Kind(M, S, K)
  /\ Typed(M, S, K)
  /\ OneWorker
  /\ \A c \in CRs : Protocol(c)

-----------------------------------------------------------------------------
(* Objects and steps of one object.                                        *)

\* A present object has the fields of one.
LEMMA PresentIsObject ==
  ASSUME NEW O, NEW o \in O \cup {Absent}, Present(o)
  PROVE  o \in O
  BY DEF Present, Absent

\* What the fields of an object are.
LEMMA ObjectFields ==
  ASSUME NEW M, NEW S, NEW K, Kind(M, S, K), NEW o \in ObjectsOf(M, S)
  PROVE  /\ o.phase \in {"live", "deleting"} /\ o.fin \in BOOLEAN /\ o.man \in M
         /\ o.gen \in Nat /\ o.status \in S /\ o.status.observed \in Nat
         /\ Present(o)
  BY DEF ObjectsOf, Kind, Present

\* One object's step leaves the others alone.
Apart(c) ==
  \A d \in CRs \ {c} :
    /\ obj'[d] = obj[d] /\ cache'[d] = cache[d] /\ synced'[d] = synced[d]
    /\ pc'[d] = pc[d] /\ copy'[d] = copy[d] /\ fresh'[d] = fresh[d]

\* An object none of whose variables a step changes keeps its invariant.
LEMMA Frame ==
  ASSUME NEW M, NEW S, NEW K, RuntimeInv(M, S, K), NEW d \in CRs,
         obj'[d] = obj[d], cache'[d] = cache[d], synced'[d] = synced[d],
         pc'[d] = pc[d], copy'[d] = copy[d], fresh'[d] = fresh[d],
         edits' \in Nat, edits <= edits'
  PROVE  Protocol(d)'
<1> USE DEF RuntimeInv, Typed, RuntimeTypeOK
<1>1. Protocol(d)
  OBVIOUS
<1>2. FlagsOK(d)' /\ CopyOK(d)' /\ CacheOK(d)' /\ GuardOK(d)'
  BY <1>1 DEF Protocol, FlagsOK, CopyOK, CacheOK, GuardOK, HasFinalizer, Managed, HasId,
              Present, Work
<1>3. /\ Present(obj[d]) => obj[d].gen \in Nat
      /\ Present(cache[d]) => cache[d].gen \in Nat
      /\ pc[d] # "idle" => copy[d].gen \in Nat
  BY PresentIsObject, ObjectFields
<1>4. GenOK(d)'
  BY <1>1, <1>3 DEF Protocol, GenOK, Dated, Present
<1> QED BY <1>2, <1>4 DEF Protocol

LEMMA OneAtATime ==
  ASSUME NEW M, NEW S, NEW K, RuntimeInv(M, S, K), NEW c \in CRs, Apart(c),
         Typed(M, S, K)', Protocol(c)', OneWorker', edits <= edits'
  PROVE  RuntimeInv(M, S, K)'
<1>1. edits' \in Nat
  BY BoundsAssumption DEF Typed, RuntimeTypeOK
<1>2. ASSUME NEW d \in CRs
      PROVE  Protocol(d)'
  <2>1. CASE d = c
    BY <2>1
  <2>2. CASE d # c
    BY <1>1, <2>2, Frame DEF Apart
  <2> QED BY <2>1, <2>2
<1> QED BY <1>2 DEF RuntimeInv, Kind

-----------------------------------------------------------------------------
(* What a step does to one object, in the words of ManagedResource.        *)

SameStage(c) == Stage(obj'[c]) = Stage(obj[c])
SameWork(c) == Work(pc'[c], copy'[c]) = Work(pc[c], copy[c])
SameBound(c) == HasId(obj'[c]) = HasId(obj[c])

Untouched(c) == SameStage(c) /\ SameWork(c) /\ SameBound(c)

LifeStep(c) ==
  /\ \/ Stage(obj[c]) = "absent" /\ Stage(obj'[c]) = "new"
     \/ Stage(obj[c]) = "new" /\ Stage(obj'[c]) \in {"guarded", "absent"}
     \/ Stage(obj[c]) = "guarded" /\ Stage(obj'[c]) = "leaving"
  /\ SameWork(c) /\ SameBound(c)

StartStep(c) ==
  /\ Work(pc[c], copy[c]) = "none"
  /\ \/ Work(pc'[c], copy'[c]) = "write" /\ Stage(obj[c]) \in {"guarded", "leaving"}
     \/ Work(pc'[c], copy'[c]) = "clean" /\ Stage(obj[c]) # "guarded"
  /\ SameStage(c) /\ SameBound(c)

\* owes: the object has something to delete in Azure.
EndStep(c, owes) ==
  /\ Work(pc'[c], copy'[c]) = "none"
  /\ \/ SameStage(c) /\ SameBound(c)
     \/ /\ Work(pc[c], copy[c]) = "write"
        /\ Stage(obj[c]) = "guarded" /\ SameStage(c)
        /\ HasId(obj'[c])
     \/ /\ Work(pc[c], copy[c]) = "clean" /\ ~owes
        /\ Stage(obj[c]) = "leaving" /\ Stage(obj'[c]) = "absent"
        /\ ~HasId(obj'[c])

StepOf(c, owes) ==
  /\ \A d \in CRs \ {c} : Untouched(d)
  /\ Untouched(c) \/ LifeStep(c) \/ StartStep(c) \/ EndStep(c, owes)

\* A step that is one of ManagedResource, or none, also if every object owes.
SafeStep == (\A d \in CRs : Untouched(d)) \/ (\E c \in CRs : StepOf(c, TRUE))

\* The step of one object, the others apart.
LEMMA ApartUntouched ==
  ASSUME NEW c \in CRs, Apart(c)
  PROVE  \A d \in CRs \ {c} : Untouched(d)
  BY DEF Apart, Untouched, SameStage, SameWork, SameBound

-----------------------------------------------------------------------------
(* The beginning.                                                          *)

LEMMA RuntimeStart ==
  ASSUME NEW M, NEW S, NEW K, Kind(M, S, K), RuntimeInit
  PROVE  RuntimeInv(M, S, K)
<1>1. Typed(M, S, K)
  BY BoundsAssumption DEF RuntimeInit, Typed, RuntimeTypeOK, Kind
<1>2. OneWorker
  BY DEF RuntimeInit, OneWorker
<1>3. ASSUME NEW c \in CRs
      PROVE  Protocol(c)
  BY DEF RuntimeInit, Protocol, FlagsOK, CopyOK, CacheOK, GuardOK, GenOK, Absent, Present,
         HasId, HasFinalizer, Managed, Work
<1> QED BY <1>1, <1>2, <1>3 DEF RuntimeInv

-----------------------------------------------------------------------------
(* Users.                                                                  *)

\* A user's write clears fresh, never gives or takes a finalizer of a present
\* object, never brings a deleted object back, and dates the object right.
LEMMA UserWrite ==
  ASSUME NEW M, NEW S, NEW K, RuntimeInv(M, S, K), NEW c \in CRs,
         NEW o \in ObjectsOf(M, S) \cup {Absent}, StoredByUser(c, o),
         edits' \in 0..MaxEdits, edits <= edits',
         HasFinalizer(obj[c]) <=> HasFinalizer(o),
         Managed(o) => Managed(obj[c]),
         HasId(o) => HasId(obj[c]),
         Present(o) =>
           \/ /\ ~Present(obj[c]) /\ o.gen = edits' /\ edits < edits'
              /\ o.status.observed = 0
           \/ /\ Present(obj[c]) /\ o.status = obj[c].status
              /\ \/ o.gen = obj[c].gen /\ o.man.spec = obj[c].man.spec
                 \/ o.gen = edits' /\ edits < edits'
  PROVE  RuntimeInv(M, S, K)'
<1> USE DEF RuntimeInv, Typed, RuntimeTypeOK
<1>1. Protocol(c) /\ edits \in Nat /\ edits' \in Nat
  BY BoundsAssumption
<1>2. /\ obj'[c] = o /\ cache'[c] = cache[c] /\ synced'[c] = (synced[c] /\ o = obj[c])
      /\ pc'[c] = pc[c] /\ copy'[c] = copy[c] /\ fresh'[c] = FALSE
  BY DEF StoredByUser, Stored
<1>3. Apart(c)
  BY DEF StoredByUser, Stored, Apart
<1>4. Typed(M, S, K)' /\ OneWorker'
  BY DEF StoredByUser, Stored, OneWorker
<1>5. FlagsOK(c)' /\ CopyOK(c)' /\ CacheOK(c)' /\ GuardOK(c)'
  BY <1>1, <1>2 DEF Protocol, FlagsOK, CopyOK, CacheOK, GuardOK, HasFinalizer, HasId
<1>6. GenOK(c)'
  <2>1. /\ obj[c] \in ObjectsOf(M, S) \/ ~Present(obj[c])
        /\ cache[c] \in ObjectsOf(M, S) \/ ~Present(cache[c])
        /\ o \in ObjectsOf(M, S) \/ ~Present(o)
    BY PresentIsObject
  <2>2. /\ Present(obj[c]) => obj[c].gen \in Nat /\ obj[c].status.observed \in Nat
        /\ Present(cache[c]) => cache[c].gen \in Nat /\ cache[c].status.observed \in Nat
        /\ pc[c] # "idle" => copy[c].gen \in Nat /\ copy[c].status.observed \in Nat
        /\ Present(o) => o.gen \in Nat /\ o.status.observed \in Nat
    BY <2>1, ObjectFields
  <2> HIDE DEF RuntimeInv
  <2> QED BY <1>1, <1>2, <2>2 DEF Protocol, GenOK, Dated, Present
<1>7. Protocol(c)'
  BY <1>5, <1>6 DEF Protocol
<1> HIDE DEF RuntimeInv
<1> QED BY <1>3, <1>4, <1>7, OneAtATime

LEMMA UserStep ==
  ASSUME NEW M, NEW S, NEW K, RuntimeInv(M, S, K),
         NEW status0 \in S, status0.id = None, status0.observed = 0,
         User(status0)
  PROVE  RuntimeInv(M, S, K)' /\ SafeStep
<1> USE DEF RuntimeInv, Typed, RuntimeTypeOK
<1> PICK c \in CRs : \/ \E m \in Offers[c] : UserCreate(c, m, status0) \/ UserApply(c, m)
                     \/ UserDelete(c)
  BY DEF User
<1>1. obj[c] \in ObjectsOf(M, S) \cup {Absent} /\ edits \in Nat /\ GuardOK(c)
  BY BoundsAssumption DEF Protocol
<1>2. ASSUME NEW o, StoredByUser(c, o)
      PROVE  /\ \A d \in CRs \ {c} : Untouched(d)
             /\ SameWork(c) /\ obj'[c] = o
  BY <1>2 DEF StoredByUser, Stored, Untouched, SameStage, SameWork, SameBound
<1>3. ASSUME NEW m \in Offers[c], UserCreate(c, m, status0)
      PROVE  RuntimeInv(M, S, K)' /\ StepOf(c, TRUE)
  <2> DEFINE o == [phase |-> "live", fin |-> FALSE, man |-> m, gen |-> edits + 1,
                   status |-> status0]
  <2>1. StoredByUser(c, o) /\ ~Present(obj[c]) /\ edits' = edits + 1 /\ edits' \in 0..MaxEdits
    BY <1>1, <1>3, BoundsAssumption DEF UserCreate
  <2>2. o \in ObjectsOf(M, S)
    BY <1>1 DEF ObjectsOf, Kind
  <2>3. /\ HasId(o) = HasId(obj[c]) /\ ~HasFinalizer(o) /\ ~Managed(o) /\ ~HasFinalizer(obj[c])
        /\ o.gen = edits' /\ o.status.observed = 0
        /\ Stage(o) = "new" /\ Stage(obj[c]) = "absent"
    BY <2>1 DEF HasId, HasFinalizer, Managed, Stage, Present
  <2> HIDE DEF o
  <2>4. RuntimeInv(M, S, K)'
    <3> HIDE DEF RuntimeInv
    <3> QED BY <1>1, <2>1, <2>2, <2>3, UserWrite
  <2> QED BY <1>2, <2>1, <2>3, <2>4 DEF StepOf, LifeStep, SameBound
<1>4. ASSUME NEW m \in Offers[c], UserApply(c, m)
      PROVE  RuntimeInv(M, S, K)' /\ StepOf(c, TRUE)
  <2> DEFINE g == IF m.spec = obj[c].man.spec THEN obj[c].gen ELSE edits + 1
             o == [obj[c] EXCEPT !.man = m, !.gen = g]
  <2>1. edits < MaxEdits /\ Present(obj[c]) /\ edits' = edits + 1 /\ StoredByUser(c, o)
    BY <1>4 DEF UserApply
  <2>2. edits' \in 0..MaxEdits
    BY <1>1, <2>1, BoundsAssumption
  <2>3. obj[c] \in ObjectsOf(M, S)
    BY <1>1, <2>1, PresentIsObject
  <2>4. /\ g \in Nat
        /\ (g = obj[c].gen /\ m.spec = obj[c].man.spec) \/ g = edits'
    BY <1>1, <2>1, <2>3, ObjectFields
  <2> HIDE DEF g
  <2>5. /\ o \in ObjectsOf(M, S)
        /\ o.phase = obj[c].phase /\ o.fin = obj[c].fin /\ o.status = obj[c].status
        /\ o.man = m /\ o.gen = g
    BY <2>3, <2>4 DEF ObjectsOf, Kind
  <2> HIDE DEF o
  <2>6. /\ HasFinalizer(obj[c]) <=> HasFinalizer(o)
        /\ Managed(o) => Managed(obj[c])
        /\ HasId(o) = HasId(obj[c])
        /\ Stage(o) = Stage(obj[c])
    BY <2>5 DEF HasFinalizer, Managed, HasId, Stage, Present
  <2>7. RuntimeInv(M, S, K)'
    <3> HIDE DEF RuntimeInv
    <3> QED BY <1>1, <2>1, <2>2, <2>4, <2>5, <2>6, UserWrite
  <2> QED BY <1>2, <2>1, <2>6, <2>7 DEF StepOf, Untouched, SameStage, SameBound
<1>5. CASE UserDelete(c)
  <2> DEFINE o == IF obj[c].fin THEN [obj[c] EXCEPT !.phase = "deleting"] ELSE Absent
  <2>1. StoredByUser(c, o) /\ obj[c].phase = "live" /\ edits' = edits
    BY <1>5 DEF UserDelete
  <2>2. obj[c] \in ObjectsOf(M, S) /\ Present(obj[c])
    BY <1>1, <2>1, PresentIsObject DEF Present
  <2>3. \/ /\ obj[c].fin /\ o \in ObjectsOf(M, S)
           /\ o.phase = "deleting" /\ o.fin /\ o.status = obj[c].status
           /\ o.gen = obj[c].gen /\ o.man = obj[c].man
        \/ ~obj[c].fin /\ o = Absent /\ ~Present(o)
    BY <2>2 DEF ObjectsOf, Present, Absent
  <2> HIDE DEF o
  <2>4. /\ HasFinalizer(obj[c]) <=> HasFinalizer(o)
        /\ ~Managed(o)
        /\ HasId(o) = HasId(obj[c])
        /\ Stage(obj[c]) \in {"new", "guarded"}
        /\ Stage(obj[c]) = "new" => Stage(o) = "absent"
        /\ Stage(obj[c]) = "guarded" => Stage(o) = "leaving"
    BY <1>1, <2>1, <2>2, <2>3
       DEF HasFinalizer, Managed, HasId, Stage, Present, Absent, GuardOK
  <2>5. RuntimeInv(M, S, K)'
    <3>1. edits' \in 0..MaxEdits
      BY <2>1
    <3> HIDE DEF RuntimeInv
    <3> QED BY <1>1, <2>1, <2>2, <2>3, <2>4, <3>1, UserWrite
  <2> QED BY <1>2, <2>1, <2>4, <2>5 DEF SafeStep, StepOf, LifeStep, SameBound
<1> QED BY <1>3, <1>4, <1>5 DEF SafeStep

-----------------------------------------------------------------------------
(* The informer, crashes, and steps that touch no object.                  *)

\* A resync, a reconcile that returns at once, a step elsewhere.
LEMMA QuietStep ==
  ASSUME NEW M, NEW S, NEW K, RuntimeInv(M, S, K),
         UNCHANGED <<store, pc, copy, fresh, edits, faults>>, queue' \subseteq CRs
  PROVE  RuntimeInv(M, S, K)' /\ SafeStep
<1>1. Typed(M, S, K)' /\ Kind(M, S, K)' /\ OneWorker'
  BY DEF RuntimeInv, Typed, RuntimeTypeOK, store, OneWorker, Kind
<1>2. edits' = edits /\ edits \in Nat
  BY BoundsAssumption DEF RuntimeInv, Typed, RuntimeTypeOK
<1>3. \A c \in CRs : Protocol(c)'
  BY <1>2, Frame DEF store
<1>4. \A c \in CRs : Untouched(c)
  BY DEF store, Untouched, SameStage, SameWork, SameBound
<1> QED BY <1>1, <1>3, <1>4 DEF RuntimeInv, SafeStep

LEMMA ReturnAtOnceStep ==
  ASSUME NEW M, NEW S, NEW K, RuntimeInv(M, S, K), NEW c \in CRs, NEW requeue \in BOOLEAN,
         ReturnAtOnce(c, requeue)
  PROVE  RuntimeInv(M, S, K)' /\ SafeStep
<1>1. queue' \subseteq CRs
  BY DEF RuntimeInv, Typed, RuntimeTypeOK, ReturnAtOnce
<1> QED BY <1>1, QuietStep DEF ReturnAtOnce

LEMMA ResyncStep ==
  ASSUME NEW M, NEW S, NEW K, RuntimeInv(M, S, K), NEW c \in CRs, Resync(c)
  PROVE  RuntimeInv(M, S, K)' /\ SafeStep
<1>1. queue' \subseteq CRs
  BY DEF RuntimeInv, Typed, RuntimeTypeOK, Resync
<1> QED BY <1>1, QuietStep DEF Resync

LEMMA SyncStep ==
  ASSUME NEW M, NEW S, NEW K, RuntimeInv(M, S, K), NEW c \in CRs, Sync(c)
  PROVE  RuntimeInv(M, S, K)' /\ SafeStep
<1> USE DEF RuntimeInv, Typed, RuntimeTypeOK
<1>1. Protocol(c)
  OBVIOUS
<1>2. /\ obj'[c] = obj[c] /\ cache'[c] = obj[c] /\ synced'[c] = TRUE /\ ~synced[c]
      /\ pc'[c] = pc[c] /\ copy'[c] = copy[c] /\ fresh'[c] = fresh[c] /\ edits' = edits
  BY DEF Sync
<1>3. Apart(c) /\ Typed(M, S, K)' /\ OneWorker' /\ edits \in Nat
  BY BoundsAssumption DEF Sync, Apart, OneWorker
<1>4. Present(obj[c]) => obj[c].gen \in Nat /\ obj[c].status.observed \in Nat
  BY PresentIsObject, ObjectFields
<1>5. Protocol(c)'
  BY <1>1, <1>2, <1>4 DEF Protocol, FlagsOK, CopyOK, CacheOK, GuardOK, GenOK, Dated,
                          HasFinalizer, HasId, Managed, Present
<1>6. SafeStep
  BY DEF Sync, SafeStep, Untouched, SameStage, SameWork, SameBound
<1> HIDE DEF RuntimeInv
<1> QED BY <1>2, <1>3, <1>5, <1>6, OneAtATime

LEMMA CrashStep ==
  ASSUME NEW M, NEW S, NEW K, RuntimeInv(M, S, K), Crash
  PROVE  RuntimeInv(M, S, K)' /\ SafeStep
<1> USE DEF RuntimeInv, Typed, RuntimeTypeOK
<1>1. Typed(M, S, K)' /\ OneWorker' /\ Kind(M, S, K)'
  BY BoundsAssumption DEF Crash, Fault, OneWorker, Kind
<1>2. ASSUME NEW c \in CRs
      PROVE  Protocol(c)'
  <2>1. Protocol(c)
    OBVIOUS
  <2>2. /\ obj'[c] = obj[c] /\ cache'[c] = obj[c] /\ synced'[c] = TRUE
        /\ pc'[c] = "idle" /\ fresh'[c] = FALSE /\ edits' = edits
    BY DEF Crash
  <2>3. Present(obj[c]) => obj[c].gen \in Nat /\ obj[c].status.observed \in Nat
    BY PresentIsObject, ObjectFields
  <2> QED BY <2>1, <2>2, <2>3 DEF Protocol, FlagsOK, CopyOK, CacheOK, GuardOK, GenOK, Dated,
                                  HasFinalizer, HasId, Managed, Present, Work
<1>3. \A c \in CRs : SameStage(c) /\ SameBound(c) /\ Work(pc'[c], copy'[c]) = "none"
  BY DEF Crash, SameStage, SameBound, Work
<1>4. CASE \E c \in CRs : pc[c] # "idle"
  <2> PICK c \in CRs : pc[c] # "idle"
    BY <1>4
  <2>1. \A d \in CRs \ {c} : Untouched(d)
    BY <1>3 DEF OneWorker, Untouched, SameWork, Work
  <2> QED BY <1>1, <1>2, <1>3, <2>1 DEF StepOf, EndStep, SafeStep
<1>5. CASE \A c \in CRs : pc[c] = "idle"
  BY <1>1, <1>2, <1>3, <1>5 DEF SafeStep, Untouched, SameWork, Work
<1> QED BY <1>4, <1>5

-----------------------------------------------------------------------------
(* The worker.                                                             *)

LEMMA FaultTyped ==
  ASSUME NEW M, NEW S, NEW K, RuntimeInv(M, S, K), Fault \/ UNCHANGED faults
  PROVE  faults' \in 0..MaxFaults
  BY BoundsAssumption DEF Fault, RuntimeInv, Typed, RuntimeTypeOK

\* The copy of a running reconcile, and a fresh one, are objects.
LEMMA CopyFields ==
  ASSUME NEW M, NEW S, NEW K, RuntimeInv(M, S, K), NEW c \in CRs
  PROVE  /\ pc[c] # "idle" => copy[c] \in ObjectsOf(M, S)
         /\ Present(obj[c]) => obj[c] \in ObjectsOf(M, S)
         /\ Present(cache[c]) => cache[c] \in ObjectsOf(M, S)
         /\ edits \in Nat
  BY PresentIsObject, BoundsAssumption DEF RuntimeInv, Typed, RuntimeTypeOK

\* A reconcile begins with what the cache shows; of the copy, at most the
\* status and what the spec refers to differ from it.
LEMMA BeginStep ==
  ASSUME NEW M, NEW S, NEW K, RuntimeInv(M, S, K), NEW c \in CRs,
         NEW call \in K \ {"idle"}, NEW o \in ObjectsOf(M, S), Begin(c, call, o),
         Present(cache[c]),
         o.phase = cache[c].phase, o.fin = cache[c].fin, o.gen = cache[c].gen,
         o.status.observed <= o.gen,
         \/ call = "AddFinalizer" /\ o = cache[c] /\ o.phase = "live"
         \/ call # "AddFinalizer" /\ o.fin
  PROVE  RuntimeInv(M, S, K)' /\ SafeStep
<1> USE DEF RuntimeInv, Typed, RuntimeTypeOK
<1>1. Protocol(c) /\ edits \in Nat /\ cache[c] \in ObjectsOf(M, S)
      /\ (Present(obj[c]) => obj[c] \in ObjectsOf(M, S))
  BY CopyFields
<1>2. /\ obj'[c] = obj[c] /\ cache'[c] = cache[c] /\ synced'[c] = synced[c]
      /\ pc[c] = "idle" /\ pc'[c] = call /\ copy'[c] = o /\ fresh'[c] = synced[c]
      /\ edits' = edits /\ \A d \in CRs : pc[d] = "idle"
  BY DEF Begin, Dequeue, store
<1>3. Apart(c) /\ Typed(M, S, K)'
  BY DEF Begin, store, Apart
<1>4. OneWorker'
  BY <1>2, <1>3 DEF OneWorker, Apart
<1>5. FlagsOK(c)' /\ CopyOK(c)'
  BY <1>1, <1>2 DEF Protocol, FlagsOK, CopyOK, Present
<1>6. CacheOK(c)' /\ GuardOK(c)'
  BY <1>1, <1>2 DEF Protocol, CacheOK, GuardOK, Managed, HasFinalizer, Present, Work, ObjectsOf
<1>7. /\ cache[c].gen \in Nat /\ cache[c].status.observed \in Nat /\ o.status.observed \in Nat
      /\ Present(obj[c]) => obj[c].gen \in Nat /\ obj[c].status.observed \in Nat
  BY <1>1, ObjectFields
<1>8. GenOK(c)'
  BY <1>1, <1>2, <1>7 DEF Protocol, GenOK, Dated
<1>9. RuntimeInv(M, S, K)'
  <2>1. Protocol(c)' /\ edits <= edits'
    BY <1>1, <1>2, <1>5, <1>6, <1>8 DEF Protocol
  <2> HIDE DEF RuntimeInv
  <2> QED BY <1>3, <1>4, <2>1, OneAtATime
<1>10. SameStage(c) /\ SameBound(c) /\ \A d \in CRs \ {c} : Untouched(d)
  BY <1>2, <1>3, ApartUntouched DEF SameStage, SameBound
<1>11. Untouched(c) \/ StartStep(c)
  <2>1. CASE call = "AddFinalizer"
    BY <1>2, <1>10, <2>1 DEF Untouched, SameWork, Work
  <2>2. CASE call # "AddFinalizer" /\ o.phase = "deleting"
    <3>1. Stage(obj[c]) # "guarded"
      BY <1>1, <2>2 DEF Protocol, CacheOK, Stage, Managed, Present, ObjectsOf
    <3> QED BY <1>2, <1>10, <2>2, <3>1 DEF StartStep, Work
  <2>3. CASE call # "AddFinalizer" /\ o.phase = "live"
    <3>1. Stage(obj[c]) \in {"guarded", "leaving"}
      BY <1>1, <2>3 DEF Protocol, CacheOK, Stage, Managed, HasFinalizer, Present, ObjectsOf
    <3> QED BY <1>2, <1>10, <2>3, <3>1 DEF StartStep, Work
  <2> QED BY <2>1, <2>2, <2>3 DEF ObjectsOf
<1> QED BY <1>9, <1>10, <1>11 DEF SafeStep, StepOf

\* A reconcile goes on: of the copy only the status changes, and what the
\* spec refers to.
LEMMA ContinueStep ==
  ASSUME NEW M, NEW S, NEW K, RuntimeInv(M, S, K), NEW c \in CRs,
         NEW call \in K \ {"idle", "AddFinalizer"}, NEW o \in ObjectsOf(M, S),
         Continue(c, call, o), Fault \/ UNCHANGED faults,
         pc[c] \notin {"idle", "AddFinalizer"},
         o.phase = copy[c].phase, o.fin = copy[c].fin, o.gen = copy[c].gen,
         o.status.observed <= o.gen
  PROVE  RuntimeInv(M, S, K)' /\ SafeStep
<1> USE DEF RuntimeInv, Typed, RuntimeTypeOK
<1>1. Protocol(c) /\ edits \in Nat /\ copy[c] \in ObjectsOf(M, S)
      /\ (Present(obj[c]) => obj[c] \in ObjectsOf(M, S))
  BY CopyFields
<1>2. /\ obj'[c] = obj[c] /\ cache'[c] = cache[c] /\ synced'[c] = synced[c]
      /\ pc'[c] = call /\ copy'[c] = o /\ fresh'[c] = fresh[c] /\ edits' = edits
  BY DEF Continue, store
<1>3. faults' \in 0..MaxFaults
  BY FaultTyped
<1>4. Apart(c) /\ Typed(M, S, K)'
  BY <1>3 DEF Continue, store, Apart
<1>5. OneWorker'
  BY <1>4 DEF OneWorker, Apart
<1>6. FlagsOK(c)' /\ CopyOK(c)' /\ CacheOK(c)' /\ GuardOK(c)'
  BY <1>1, <1>2 DEF Protocol, FlagsOK, CopyOK, CacheOK, GuardOK, Work
<1>7. o.status.observed \in Nat /\ o.gen \in Nat
  BY ObjectFields
<1>8. GenOK(c)'
  BY <1>1, <1>2, <1>7 DEF Protocol, GenOK, Dated
<1>9. RuntimeInv(M, S, K)'
  <2>1. Protocol(c)' /\ edits <= edits'
    BY <1>1, <1>2, <1>6, <1>8 DEF Protocol
  <2> HIDE DEF RuntimeInv
  <2> QED BY <1>4, <1>5, <2>1, OneAtATime
<1>10. \A d \in CRs : Untouched(d)
  BY <1>2, <1>4, ApartUntouched DEF Untouched, SameStage, SameBound, SameWork, Work
<1> QED BY <1>9, <1>10 DEF SafeStep

\* A reconcile returns and the object is as it was.
LEMMA ReturnStep ==
  ASSUME NEW M, NEW S, NEW K, RuntimeInv(M, S, K), NEW c \in CRs, NEW requeue \in BOOLEAN,
         Return(c, requeue), UNCHANGED store, Fault \/ UNCHANGED faults
  PROVE  RuntimeInv(M, S, K)' /\ SafeStep
<1> USE DEF RuntimeInv, Typed, RuntimeTypeOK
<1>1. Protocol(c) /\ edits \in Nat
  BY CopyFields
<1>2. /\ obj'[c] = obj[c] /\ cache'[c] = cache[c] /\ synced'[c] = synced[c]
      /\ pc'[c] = "idle" /\ fresh'[c] = FALSE /\ edits' = edits
  BY DEF Return, store
<1>3. faults' \in 0..MaxFaults
  BY FaultTyped
<1>4. Apart(c) /\ Typed(M, S, K)'
  BY <1>3 DEF Return, store, Apart, Kind
<1>5. OneWorker'
  BY <1>2, <1>4 DEF OneWorker, Apart
<1>6. Protocol(c)'
  BY <1>1, <1>2 DEF Protocol, FlagsOK, CopyOK, CacheOK, GuardOK, GenOK, Dated, Work
<1>7. RuntimeInv(M, S, K)'
  <2>1. edits <= edits'
    BY <1>1, <1>2
  <2> HIDE DEF RuntimeInv
  <2> QED BY <1>4, <1>5, <1>6, <2>1, OneAtATime
<1>8. EndStep(c, TRUE)
  BY <1>2 DEF EndStep, SameStage, SameBound, Work
<1> QED BY <1>4, <1>7, <1>8, ApartUntouched DEF SafeStep, StepOf

\* The last call of a reconcile is applied: the stored object keeps what the
\* cache may still show.
LEMMA WriteInv ==
  ASSUME NEW M, NEW S, NEW K, RuntimeInv(M, S, K), NEW c \in CRs, NEW requeue \in BOOLEAN,
         NEW o \in ObjectsOf(M, S) \cup {Absent},
         Stored(c, o), Return(c, requeue), Fault \/ UNCHANGED faults,
         Managed(cache[c]) => HasFinalizer(o),
         cache[c].phase = "deleting" => ~Managed(o),
         HasId(o) => o.fin,
         Present(o) => /\ o.gen = cache[c].gen /\ o.man.spec = cache[c].man.spec
                       /\ Present(cache[c]) /\ o.status.observed <= o.gen
  PROVE  RuntimeInv(M, S, K)'
<1> USE DEF RuntimeInv, Typed, RuntimeTypeOK
<1>1. Protocol(c) /\ edits \in Nat
  BY CopyFields
<1>2. /\ obj'[c] = o /\ cache'[c] = cache[c] /\ synced'[c] = (synced[c] /\ o = obj[c])
      /\ pc'[c] = "idle" /\ fresh'[c] = FALSE /\ edits' = edits
  BY DEF Return, Stored
<1>3. faults' \in 0..MaxFaults
  BY FaultTyped
<1>4. Apart(c) /\ Typed(M, S, K)'
  BY <1>3 DEF Return, Stored, Apart, Kind
<1>5. OneWorker'
  BY <1>2, <1>4 DEF OneWorker, Apart
<1>6. FlagsOK(c)' /\ CopyOK(c)' /\ CacheOK(c)' /\ GuardOK(c)'
  BY <1>1, <1>2 DEF Protocol, FlagsOK, CopyOK, CacheOK, GuardOK, Work
<1>7. Present(o) => o.gen \in Nat /\ o.status.observed \in Nat
  BY PresentIsObject, ObjectFields
<1>8. GenOK(c)'
  BY <1>1, <1>2, <1>7 DEF Protocol, GenOK, Dated
<1>9. Protocol(c)' /\ edits <= edits'
  BY <1>1, <1>2, <1>6, <1>8 DEF Protocol
<1> HIDE DEF RuntimeInv
<1> QED BY <1>4, <1>5, <1>9, OneAtATime

Writes(c, o) ==
  \E requeue \in BOOLEAN : WriteAndReturn(c, o, requeue) \/ WriteAndForget(c, o, requeue)

\* The write is applied to the object that was read, or not at all.
LEMMA WriteCases ==
  ASSUME NEW c, NEW o, Writes(c, o)
  PROVE  \E requeue \in BOOLEAN :
           /\ Return(c, requeue) /\ (Fault \/ UNCHANGED faults)
           /\ (fresh[c] /\ Stored(c, o)) \/ UNCHANGED store
<1>1. ASSUME NEW requeue \in BOOLEAN, WriteAndReturn(c, o, requeue)
      PROVE  \E b \in BOOLEAN : /\ Return(c, b) /\ (Fault \/ UNCHANGED faults)
                                /\ (fresh[c] /\ Stored(c, o)) \/ UNCHANGED store
  BY <1>1 DEF WriteAndReturn
<1>2. ASSUME NEW requeue \in BOOLEAN, WriteAndForget(c, o, requeue)
      PROVE  \E b \in BOOLEAN : /\ Return(c, b) /\ (Fault \/ UNCHANGED faults)
                                /\ (fresh[c] /\ Stored(c, o)) \/ UNCHANGED store
  BY <1>2 DEF WriteAndForget
<1> QED BY <1>1, <1>2 DEF Writes

\* What a write that is applied does, besides the object.
LEMMA Written ==
  ASSUME NEW M, NEW S, NEW K, RuntimeInv(M, S, K), NEW c \in CRs, NEW requeue, NEW o,
         Return(c, requeue), Stored(c, o)
  PROVE  /\ obj'[c] = o /\ Work(pc'[c], copy'[c]) = "none"
         /\ \A d \in CRs \ {c} : Untouched(d)
  BY DEF Return, Stored, RuntimeInv, Typed, RuntimeTypeOK, Untouched, SameStage, SameBound,
         SameWork, Work

\* The finalizer is added to the object that was read.
LEMMA AddFinalizerStep ==
  ASSUME NEW M, NEW S, NEW K, RuntimeInv(M, S, K), NEW c \in CRs, pc[c] = "AddFinalizer",
         Writes(c, [copy[c] EXCEPT !.fin = TRUE])
  PROVE  RuntimeInv(M, S, K)' /\ SafeStep
<1> DEFINE o == [copy[c] EXCEPT !.fin = TRUE]
<1>1. Protocol(c) /\ copy[c] \in ObjectsOf(M, S)
  BY CopyFields DEF RuntimeInv
<1>2. /\ o \in ObjectsOf(M, S) /\ o.fin /\ o.phase = copy[c].phase
      /\ o.gen = copy[c].gen /\ o.man = copy[c].man /\ o.status = copy[c].status
  BY <1>1 DEF ObjectsOf
<1>3. PICK requeue \in BOOLEAN :
        /\ Return(c, requeue) /\ (Fault \/ UNCHANGED faults)
        /\ (fresh[c] /\ Stored(c, o)) \/ UNCHANGED store
  BY WriteCases
<1> HIDE DEF o
<1>4. CASE UNCHANGED store
  BY <1>3, <1>4, ReturnStep
<1>5. CASE fresh[c] /\ Stored(c, o)
  <2>1. /\ copy[c] = obj[c] /\ cache[c] = obj[c] /\ Present(obj[c])
        /\ copy[c].phase = "live" /\ o.phase = "live" /\ Dated(copy[c])
    BY <1>1, <1>2, <1>5 DEF Protocol, FlagsOK, CopyOK, GenOK
  <2>2. /\ HasFinalizer(o) /\ Present(o) /\ Present(cache[c])
        /\ cache[c].phase # "deleting" /\ HasId(o) = HasId(obj[c])
        /\ Stage(o) = "guarded" /\ Stage(obj[c]) \in {"new", "guarded"}
    BY <1>2, <2>1 DEF HasFinalizer, HasId, Stage, Present
  <2>3. o.status.observed <= o.gen
    BY <1>2, <2>1 DEF Dated
  <2>4. RuntimeInv(M, S, K)'
    BY <1>2, <1>3, <1>5, <2>1, <2>2, <2>3, WriteInv
  <2>5. Work(pc[c], copy[c]) = "none"
    BY DEF Work
  <2>6. StepOf(c, TRUE)
    BY <1>3, <1>5, <2>2, <2>5, Written
       DEF StepOf, LifeStep, EndStep, SameStage, SameWork, SameBound
  <2> QED BY <2>4, <2>6 DEF SafeStep
<1> QED BY <1>3, <1>4, <1>5

\* The finalizer is removed, and the object with it.
LEMMA RemoveFinalizerStep ==
  ASSUME NEW M, NEW S, NEW K, RuntimeInv(M, S, K), NEW c \in CRs, NEW owes,
         Work(pc[c], copy[c]) = "clean", Writes(c, Absent),
         fresh[c] => ~owes
  PROVE  RuntimeInv(M, S, K)' /\ (SafeStep \/ StepOf(c, owes))
<1>1. Protocol(c)
  BY DEF RuntimeInv
<1>2. PICK requeue \in BOOLEAN :
        /\ Return(c, requeue) /\ (Fault \/ UNCHANGED faults)
        /\ (fresh[c] /\ Stored(c, Absent)) \/ UNCHANGED store
  BY WriteCases
<1>3. CASE UNCHANGED store
  BY <1>2, <1>3, ReturnStep
<1>4. CASE fresh[c] /\ Stored(c, Absent)
  <2>1. ~Present(Absent) /\ ~HasId(Absent) /\ ~Managed(Absent) /\ Stage(Absent) = "absent"
    BY DEF Absent, Present, HasId, Managed, Stage
  <2>2. ~Managed(cache[c]) /\ Stage(obj[c]) = "leaving"
    BY <1>1, <1>4 DEF Protocol, CacheOK, FlagsOK, Work, Stage
  <2>3. RuntimeInv(M, S, K)'
    BY <1>2, <1>4, <2>1, <2>2, WriteInv
  <2>4. StepOf(c, owes)
    BY <1>2, <1>4, <2>1, <2>2, Written DEF StepOf, EndStep
  <2> QED BY <2>3, <2>4
<1> QED BY <1>2, <1>3, <1>4

\* The status is stored.  Writing work may bind the object, clean-up work
\* leaves its binding alone, and none of them loses it.
LEMMA StatusStep ==
  ASSUME NEW M, NEW S, NEW K, RuntimeInv(M, S, K), NEW c \in CRs,
         pc[c] \notin {"idle", "AddFinalizer"},
         NEW o, Writes(c, o),
         fresh[c] => /\ o \in ObjectsOf(M, S)
                     /\ o.phase = obj[c].phase /\ o.fin = obj[c].fin /\ o.gen = obj[c].gen
                     /\ o.man.spec = obj[c].man.spec
                     /\ o.status.observed <= o.gen
                     /\ HasId(obj[c]) => HasId(o)
                     /\ copy[c].phase = "deleting" => HasId(o) = HasId(obj[c])
  PROVE  RuntimeInv(M, S, K)' /\ SafeStep
<1>1. Protocol(c) /\ copy[c] \in ObjectsOf(M, S)
  BY CopyFields DEF RuntimeInv
<1>2. PICK requeue \in BOOLEAN :
        /\ Return(c, requeue) /\ (Fault \/ UNCHANGED faults)
        /\ (fresh[c] /\ Stored(c, o)) \/ UNCHANGED store
  BY WriteCases
<1>3. CASE UNCHANGED store
  BY <1>2, <1>3, ReturnStep
<1>4. CASE fresh[c] /\ Stored(c, o)
  <2>1. /\ cache[c] = obj[c] /\ Present(obj[c]) /\ obj[c].fin
        /\ obj[c].phase = copy[c].phase
    BY <1>1, <1>4 DEF Protocol, FlagsOK, CopyOK
  <2>2. /\ Present(o) /\ HasFinalizer(o) /\ Stage(o) = Stage(obj[c])
        /\ cache[c].phase = "deleting" => ~Managed(o)
    BY <1>4, <2>1 DEF Present, HasFinalizer, Stage, Managed
  <2>3. RuntimeInv(M, S, K)'
    BY <1>2, <1>4, <2>1, <2>2, WriteInv DEF HasFinalizer
  <2>4. /\ obj'[c] = o /\ Work(pc'[c], copy'[c]) = "none"
        /\ \A d \in CRs \ {c} : Untouched(d)
    BY <1>2, <1>4, Written
  <2>5. ASSUME copy[c].phase = "deleting"
        PROVE  StepOf(c, TRUE)
    BY <1>4, <2>2, <2>4, <2>5 DEF StepOf, EndStep, SameStage, SameBound
  <2>6. ASSUME copy[c].phase = "live"
        PROVE  StepOf(c, TRUE)
    <3>1. Work(pc[c], copy[c]) = "write" /\ Stage(obj[c]) = "guarded"
      BY <2>1, <2>6 DEF Work, Stage
    <3>2. HasId(o) \/ HasId(o) = HasId(obj[c])
      BY <1>4 DEF HasId
    <3> QED BY <1>4, <2>2, <2>4, <3>1, <3>2 DEF StepOf, EndStep, SameStage, SameBound
  <2> QED BY <1>1, <2>3, <2>5, <2>6 DEF SafeStep, ObjectsOf
<1> QED BY <1>2, <1>3, <1>4

-----------------------------------------------------------------------------
(* What a step may do to the stored object c, to the cached one and to the *)
(* copy of its reconcile, for invariants that relate the three.            *)

Created(c, status0) ==
  /\ ~Present(obj[c])
  /\ obj'[c].man \in Offers[c] /\ obj'[c].status = status0
  /\ obj'[c].gen = edits + 1 /\ obj'[c].phase = "live"

\* Edited, marked as deleted, given its finalizer, or left alone.
Edited(c) ==
  /\ Present(obj[c]) /\ obj'[c].status = obj[c].status
  /\ obj'[c].phase \in {obj[c].phase, "deleting"}
  /\ \/ obj'[c].man = obj[c].man /\ obj'[c].gen = obj[c].gen
     \/ /\ obj'[c].man \in Offers[c]
        /\ \/ obj'[c].man.spec = obj[c].man.spec /\ obj'[c].gen = obj[c].gen
           \/ obj'[c].gen = edits + 1

CacheMoves(c) == cache'[c] \in {cache[c], obj[c]}

Rests(c) == pc'[c] = "idle" /\ ~Present(copy'[c]) /\ ~fresh'[c]

Waits(c) ==
  /\ pc'[c] = pc[c] /\ copy'[c] = copy[c]
  /\ fresh'[c] => fresh[c] /\ obj'[c] = obj[c]

\* No object, nor was there one that a finalizer held.
Vanishes(c) == ~Present(obj'[c]) /\ ~HasFinalizer(obj[c])

\* Nothing that the reconcile of c does.
Outside(c, status0) ==
  /\ Vanishes(c) \/ Created(c, status0) \/ Edited(c)
  /\ CacheMoves(c)
  /\ Rests(c) \/ Waits(c)
  /\ edits <= edits'

\* The reconcile of c between two calls, or between the queue and the first.
Within(c, call, o) ==
  /\ pc'[c] = call /\ copy'[c] = o
  /\ obj'[c] = obj[c] /\ cache'[c] = cache[c] /\ edits' = edits

LEMMA StillOutside ==
  ASSUME NEW M, NEW S, NEW K, RuntimeInv(M, S, K), NEW c \in CRs, NEW status0,
         obj'[c] = obj[c], cache'[c] = cache[c], pc'[c] = pc[c],
         copy'[c] = copy[c], fresh'[c] = fresh[c], edits' = edits
  PROVE  Outside(c, status0)
<1>1. edits <= edits'
  BY CopyFields
<1>2. Vanishes(c) \/ Edited(c)
  BY DEF Edited, Vanishes, HasFinalizer, Present
<1> QED BY <1>1, <1>2 DEF Outside, CacheMoves, Waits

LEMMA UserOutside ==
  ASSUME NEW M, NEW S, NEW K, RuntimeInv(M, S, K), NEW c \in CRs, NEW status0, User(status0)
  PROVE  Outside(c, status0)
<1> USE DEF RuntimeInv, Typed, RuntimeTypeOK
<1>1. /\ edits \in Nat
      /\ Present(obj[c]) => obj[c] \in ObjectsOf(M, S)
  BY CopyFields
<1>2. PICK d \in CRs : (\E m \in Offers[d] : UserCreate(d, m, status0) \/ UserApply(d, m))
                       \/ UserDelete(d)
  BY DEF User
<1>3. /\ UNCHANGED <<cache, pc, copy>> /\ (edits' = edits \/ edits' = edits + 1)
      /\ fresh' = [fresh EXCEPT ![d] = FALSE]
      /\ \E o : obj' = [obj EXCEPT ![d] = o]
  BY <1>2 DEF UserCreate, UserApply, UserDelete, StoredByUser, Stored
<1>4. CacheMoves(c) /\ edits <= edits'
  BY <1>1, <1>3 DEF CacheMoves
<1>5. CASE c # d
  <2>1. obj'[c] = obj[c] /\ Waits(c)
    BY <1>3, <1>5 DEF Waits
  <2>2. Vanishes(c) \/ Edited(c)
    BY <2>1 DEF Edited, Vanishes, HasFinalizer, Present
  <2> QED BY <1>4, <2>1, <2>2 DEF Outside
<1>6. CASE c = d
  <2>1. ASSUME NEW m \in Offers[c], UserCreate(c, m, status0)
        PROVE  Created(c, status0)
    BY <2>1 DEF UserCreate, StoredByUser, Stored, Created
  <2>2. ASSUME NEW m \in Offers[c], UserApply(c, m)
        PROVE  Edited(c)
    <3> DEFINE g == IF m.spec = obj[c].man.spec THEN obj[c].gen ELSE edits + 1
               o == [obj[c] EXCEPT !.man = m, !.gen = g]
    <3>1. obj'[c] = o /\ Present(obj[c])
      BY <2>2 DEF UserApply, StoredByUser, Stored
    <3>2. o.status = obj[c].status /\ o.man = m /\ o.phase = obj[c].phase /\ o.gen = g
      BY <1>1, <3>1 DEF ObjectsOf
    <3> HIDE DEF o
    <3> QED BY <3>1, <3>2 DEF Edited
  <2>3. ASSUME UserDelete(c)
        PROVE  Vanishes(c) \/ Edited(c)
    <3> DEFINE o == [obj[c] EXCEPT !.phase = "deleting"]
    <3>1. Present(obj[c]) /\ (obj'[c] = o \/ (obj'[c] = Absent /\ ~obj[c].fin))
      BY <2>3 DEF UserDelete, StoredByUser, Stored, Present
    <3>2. o.status = obj[c].status /\ o.man = obj[c].man /\ o.phase = "deleting"
          /\ o.gen = obj[c].gen
      BY <1>1, <3>1 DEF ObjectsOf
    <3> HIDE DEF o
    <3> QED BY <3>1, <3>2 DEF Edited, Vanishes, HasFinalizer, Present, Absent
  <2>4. Waits(c)
    BY <1>3, <1>6 DEF Waits
  <2>5. Vanishes(c) \/ Created(c, status0) \/ Edited(c)
    BY <1>2, <1>6, <2>1, <2>2, <2>3
  <2> QED BY <1>4, <2>4, <2>5 DEF Outside
<1> QED BY <1>5, <1>6

LEMMA InformerOutside ==
  ASSUME NEW M, NEW S, NEW K, RuntimeInv(M, S, K), NEW c \in CRs, NEW status0,
         Crash \/ (\E d \in CRs : Sync(d) \/ Resync(d))
  PROVE  Outside(c, status0)
<1> USE DEF RuntimeInv, Typed, RuntimeTypeOK
<1>1. edits \in Nat
  BY CopyFields
<1>2. /\ obj' = obj /\ edits' = edits
      /\ cache' \in {cache, obj} \/ \E d \in CRs : cache' = [cache EXCEPT ![d] = obj[d]]
      /\ \/ UNCHANGED <<pc, copy, fresh>>
         \/ pc'[c] = "idle" /\ copy'[c] = Absent /\ ~fresh'[c]
  BY DEF Crash, Sync, Resync, store
<1>3. CacheMoves(c) /\ (Rests(c) \/ Waits(c))
  BY <1>2 DEF CacheMoves, Rests, Waits, Present, Absent
<1>4. Vanishes(c) \/ Edited(c)
  BY <1>2 DEF Edited, Vanishes, HasFinalizer, Present
<1> QED BY <1>1, <1>2, <1>3, <1>4 DEF Outside

\* What the worker does for d is nothing for another object.
LEMMA OthersOutside ==
  ASSUME NEW M, NEW S, NEW K, RuntimeInv(M, S, K), NEW c \in CRs, NEW status0,
         NEW d \in CRs, c # d,
         \/ \E call, o : Begin(d, call, o) \/ Continue(d, call, o)
         \/ \E o : Writes(d, o)
         \/ \E requeue : Return(d, requeue) /\ UNCHANGED store
  PROVE  Outside(c, status0)
<1> USE DEF RuntimeInv, Typed, RuntimeTypeOK
<1>1. CASE \E call, o : Begin(d, call, o) \/ Continue(d, call, o)
  BY <1>1, StillOutside DEF Begin, Continue, store
<1>2. ASSUME NEW requeue, NEW o, Return(d, requeue), UNCHANGED store \/ Stored(d, o)
      PROVE  Outside(c, status0)
  BY <1>2, StillOutside DEF Return, Stored, store
<1>3. CASE \E o : Writes(d, o)
  BY <1>2, <1>3, WriteCases
<1> QED BY <1>1, <1>2, <1>3

LEMMA BeginWithin ==
  ASSUME NEW M, NEW S, NEW K, RuntimeInv(M, S, K), NEW c \in CRs, NEW call, NEW o,
         Begin(c, call, o)
  PROVE  Within(c, call, o) /\ pc[c] = "idle" /\ fresh'[c] = synced[c]
  BY DEF Begin, Dequeue, Within, store, RuntimeInv, Typed, RuntimeTypeOK

LEMMA ContinueWithin ==
  ASSUME NEW M, NEW S, NEW K, RuntimeInv(M, S, K), NEW c \in CRs, NEW call, NEW o,
         Continue(c, call, o)
  PROVE  Within(c, call, o) /\ fresh'[c] = fresh[c]
  BY DEF Continue, Within, store, RuntimeInv, Typed, RuntimeTypeOK

\* The write that ends the reconcile of c is applied, or not.
LEMMA WriteMoves ==
  ASSUME NEW M, NEW S, NEW K, RuntimeInv(M, S, K), NEW c \in CRs, NEW o, Writes(c, o)
  PROVE  /\ Rests(c) /\ cache'[c] = cache[c] /\ edits' = edits
         /\ (fresh[c] /\ obj'[c] = o) \/ obj'[c] = obj[c]
<1> USE DEF RuntimeInv, Typed, RuntimeTypeOK
<1>1. PICK requeue \in BOOLEAN : /\ Return(c, requeue)
                                 /\ (fresh[c] /\ Stored(c, o)) \/ UNCHANGED store
  BY WriteCases
<1> QED BY <1>1 DEF Return, Rests, store, Stored, Present, Absent
=============================================================================
