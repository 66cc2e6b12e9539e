-------------------------- MODULE ControllerRuntime --------------------------
(***************************************************************************)
(* What one reconciler sees of Kubernetes and of controller-runtime: the   *)
(* objects stored by the API server, the informer cache the reconciler     *)
(* reads from, the workqueue, and the single worker that carries one       *)
(* reconcile at a time.  Every controller of the operator extends this     *)
(* module with its own reconcile steps and its own Azure resources.        *)
(*                                                                         *)
(* The module is written from how src/ uses the library (r.Get, r.Update,  *)
(* r.Status().Update, ctrl.Result, SetupWithManager, ctrl.NewManager).     *)
(*                                                                         *)
(*  - r.Get reads the cache, which may lag the API server.                 *)
(*  - Update and Status().Update send the resourceVersion that was read,   *)
(*    so they succeed only if nobody has written the object since.         *)
(*    Versions are not counted: synced[c] says that the cached version is  *)
(*    the stored one, fresh[c] that the worker's copy is of that version.  *)
(*  - RequeueAfter, Requeue and an error's backoff all put the key back in *)
(*    the queue.  There is no clock: the delay is the unbounded time the   *)
(*    key may wait there.                                                  *)
(***************************************************************************)
EXTENDS Integers, FiniteSets

CONSTANTS
  None,       \* an empty string or a missing value
  CRs,        \* the namespaced names of the custom resources of one kind
  Offers,     \* Offers[c]: the manifests users may apply under the name c
  MaxEdits,   \* bound on the manifests users apply in a behaviour
  MaxFaults   \* bound on crashes, failed calls and lost responses

ASSUME BoundsAssumption == MaxEdits \in Nat /\ MaxFaults \in Nat

VARIABLES
  obj,      \* obj[c]: the object stored under c, or Absent
  cache,    \* cache[c]: the object the informer last delivered, or Absent
  synced,   \* synced[c]: cache[c] has the resourceVersion of obj[c]
  queue,    \* the keys in the workqueue
  pc,       \* pc[c]: the call the reconcile of c is about to make, or "idle"
  copy,     \* copy[c]: the reconcile's own copy of c, or Absent
  fresh,    \* fresh[c]: that copy has the resourceVersion of obj[c]
  edits,    \* manifests applied so far; numbers the generations
  faults    \* failures so far

store == <<obj, cache, synced>>
worker == <<queue, pc, copy, fresh>>
runtimeVars == <<obj, cache, synced, queue, pc, copy, fresh, edits, faults>>

Absent == [phase |-> "absent"]

Present(o) == o.phase # "absent"

HasFinalizer(o) == Present(o) /\ o.fin

\* Fault: the reconcile does not wait for its finalizer.
NotDeleted(o) == o.phase = "live"

\* Not being deleted and carrying the finalizer: what a reconcile acts on.
Managed(o) == o.phase = "live" /\ o.fin

\* The status names an Azure resource.
HasId(o) == Present(o) /\ o.status.id # None

\* The objects of one kind.
ObjectsOf(manifests, statuses) ==
  [phase : {"live", "deleting"}, fin : BOOLEAN, man : manifests, gen : Nat,
   status : statuses]

RuntimeTypeOK(objects, calls) ==
  /\ obj \in [CRs -> objects \cup {Absent}]
  /\ cache \in [CRs -> objects \cup {Absent}]
  /\ synced \in [CRs -> BOOLEAN]
  /\ queue \subseteq CRs
  /\ pc \in [CRs -> calls]
  /\ copy \in [CRs -> objects \cup {Absent}]
  /\ fresh \in [CRs -> BOOLEAN]
  /\ edits \in 0..MaxEdits
  /\ faults \in 0..MaxFaults

RuntimeInit ==
  /\ obj = [c \in CRs |-> Absent]
  /\ cache = [c \in CRs |-> Absent]
  /\ synced = [c \in CRs |-> TRUE]
  /\ queue = {}
  /\ pc = [c \in CRs |-> "idle"]
  /\ copy = [c \in CRs |-> Absent]
  /\ fresh = [c \in CRs |-> FALSE]
  /\ edits = 0
  /\ faults = 0

-----------------------------------------------------------------------------
(* The API server.  Storing the object that is already there is a no-op:   *)
(* it makes no new version and no watch event.                             *)

Stored(c, o) ==
  /\ obj' = [obj EXCEPT ![c] = o]
  /\ synced' = [synced EXCEPT ![c] = synced[c] /\ o = obj[c]]
  /\ UNCHANGED cache

\* A write by somebody else than the worker makes the worker's copy stale.
StoredByUser(c, o) ==
  /\ Stored(c, o)
  /\ fresh' = [fresh EXCEPT ![c] = FALSE]
  /\ UNCHANGED <<queue, pc, copy, faults>>

\* A user creates the object; status0 is the kind's empty status.
UserCreate(c, m, status0) ==
  /\ edits < MaxEdits
  /\ ~Present(obj[c])
  /\ StoredByUser(c, [phase |-> "live", fin |-> FALSE, man |-> m,
                      gen |-> edits + 1, status |-> status0])
  /\ edits' = edits + 1

\* A user edits the object, also while it is being deleted.  A new spec gets
\* a new generation, a change of annotations alone does not.
UserApply(c, m) ==
  /\ edits < MaxEdits
  /\ Present(obj[c])
  /\ m # obj[c].man
  /\ LET g == IF m.spec = obj[c].man.spec THEN obj[c].gen ELSE edits + 1
     IN  StoredByUser(c, [obj[c] EXCEPT !.man = m, !.gen = g])
  /\ edits' = edits + 1

\* kubectl delete: an object with a finalizer is only marked.
UserDelete(c) ==
  /\ obj[c].phase = "live"
  /\ StoredByUser(c, IF obj[c].fin THEN [obj[c] EXCEPT !.phase = "deleting"]
                     ELSE Absent)
  /\ UNCHANGED edits

User(status0) ==
  \E c \in CRs :
    \/ \E m \in Offers[c] : UserCreate(c, m, status0) \/ UserApply(c, m)
    \/ UserDelete(c)

-----------------------------------------------------------------------------
(* The informer and the queue.                                             *)

\* The watch delivers the stored version and enqueues the key.  The cache
\* may skip versions: it jumps to the newest one.
Sync(c) ==
  /\ ~synced[c]
  /\ cache' = [cache EXCEPT ![c] = obj[c]]
  /\ synced' = [synced EXCEPT ![c] = TRUE]
  /\ queue' = queue \cup {c}
  /\ UNCHANGED <<obj, pc, copy, fresh, edits, faults>>

\* The periodic resync of the informer enqueues what is in the cache.
Resync(c) ==
  /\ Present(cache[c])
  /\ queue' = queue \cup {c}
  /\ UNCHANGED <<store, pc, copy, fresh, edits, faults>>

Fault == faults < MaxFaults /\ faults' = faults + 1

\* The process stops between two calls and starts again (or another replica
\* takes the lease): the informer lists every object, memory is gone.
Crash ==
  /\ Fault
  /\ cache' = obj
  /\ synced' = [c \in CRs |-> TRUE]
  /\ queue' = {c \in CRs : Present(obj[c])}
  /\ pc' = [c \in CRs |-> "idle"]
  /\ copy' = [c \in CRs |-> Absent]
  /\ fresh' = [c \in CRs |-> FALSE]
  /\ UNCHANGED <<obj, edits>>

-----------------------------------------------------------------------------
(* The worker.  MaxConcurrentReconciles is left at 1.                      *)

Dequeue(c) ==
  /\ c \in queue
  /\ \A d \in CRs : pc[d] = "idle"

\* A reconcile that returns without calling the API server or Azure.
ReturnAtOnce(c, requeue) ==
  /\ Dequeue(c)
  /\ queue' = IF requeue THEN queue ELSE queue \ {c}
  /\ UNCHANGED <<store, pc, copy, fresh, edits, faults>>

\* A reconcile that reads the cache and goes on to its first call, with o
\* the copy it holds by then.
Begin(c, call, o) ==
  /\ Dequeue(c)
  /\ queue' = queue \ {c}
  /\ pc' = [pc EXCEPT ![c] = call]
  /\ copy' = [copy EXCEPT ![c] = o]
  /\ fresh' = [fresh EXCEPT ![c] = synced[c]]
  /\ UNCHANGED <<store, edits, faults>>

\* The reconcile goes on to its next call.
Continue(c, call, o) ==
  /\ pc' = [pc EXCEPT ![c] = call]
  /\ copy' = [copy EXCEPT ![c] = o]
  /\ UNCHANGED <<store, queue, fresh, edits>>

\* The reconcile returns; with an error, Requeue or RequeueAfter the key is
\* put back.
Return(c, requeue) ==
  /\ pc' = [pc EXCEPT ![c] = "idle"]
  /\ copy' = [copy EXCEPT ![c] = Absent]
  /\ fresh' = [fresh EXCEPT ![c] = FALSE]
  /\ queue' = IF requeue THEN queue \cup {c} ELSE queue
  /\ UNCHANGED edits

\* The last call of a reconcile whose error is logged and dropped.
WriteAndForget(c, o, requeue) ==
  \/ fresh[c] /\ Stored(c, o) /\ Return(c, requeue) /\ UNCHANGED faults
  \/ ~fresh[c] /\ UNCHANGED store /\ Return(c, requeue) /\ UNCHANGED faults
  \/ UNCHANGED store /\ Return(c, requeue) /\ Fault

\* The last call of a reconcile: Update or Status().Update of o.  It is
\* refused on a conflict (or when the object is gone), it may fail, and it
\* may be applied with its response lost.
WriteAndReturn(c, o, requeue) ==
  \/ fresh[c] /\ Stored(c, o) /\ Return(c, requeue) /\ UNCHANGED faults
  \/ fresh[c] /\ Stored(c, o) /\ Return(c, TRUE) /\ Fault
  \/ ~fresh[c] /\ UNCHANGED store /\ Return(c, TRUE) /\ UNCHANGED faults
  \/ UNCHANGED store /\ Return(c, TRUE) /\ Fault

-----------------------------------------------------------------------------
(* What ManagedResource sees of an object o, and of a reconcile that holds  *)
(* the copy o and is about to make a call.                                 *)

Stage(o) ==
  IF ~Present(o) THEN "absent"
  ELSE IF o.phase = "deleting" THEN "leaving"
  ELSE IF o.fin THEN "guarded" ELSE "new"

Work(call, o) ==
  IF call \in {"idle", "AddFinalizer"} THEN "none"
  ELSE IF o.phase = "deleting" THEN "clean" ELSE "write"
=============================================================================
