--------------------------- MODULE ManagedResource ---------------------------
(***************************************************************************)
(* What every controller of the operator promises of an object and of the  *)
(* Azure resource behind it, without caches, queues, calls or failures.    *)
(*                                                                         *)
(* An object is guarded by a finalizer before anything is written to Azure *)
(* for it; only a guarded object is bound to an Azure resource; clean-up   *)
(* work never runs against a guarded object, however old the copy is that  *)
(* it works on; and the object is forgotten by clean-up work alone, when   *)
(* it owes Azure nothing more.  The controllers implement this module.     *)
(***************************************************************************)
CONSTANT CRs

VARIABLES
  stage,   \* stage[c]: where the stored object c is in its life
  work,    \* work[c]: what the reconcile of c is at, if anything
  bound,   \* bound[c]: the status of c names an Azure resource
  owed     \* owed[c]: something in Azure that c has to delete before it goes

vars == <<stage, work, bound, owed>>

Stages == {"absent", "new", "guarded", "leaving"}

Init ==
  /\ stage = [c \in CRs |-> "absent"]
  /\ work = [c \in CRs |-> "none"]
  /\ bound = [c \in CRs |-> FALSE]
  /\ owed = [c \in CRs |-> FALSE]

\* Azure and the annotations say what a bound object owes; an object that is
\* not bound owes nothing.
Owes == owed' \in [CRs -> BOOLEAN] /\ \A c \in CRs : owed'[c] => bound'[c]

Moves(c, from, to) ==
  /\ stage[c] \in from
  /\ stage' = [stage EXCEPT ![c] = to]

\* A user creates the object.
Create(c) == Moves(c, {"absent"}, "new") /\ UNCHANGED <<work, bound>>

\* The finalizer is added.
Guard(c) == Moves(c, {"new"}, "guarded") /\ UNCHANGED <<work, bound>>

\* A user deletes the object: without a finalizer it is gone at once.
MarkDeleted(c) ==
  /\ Moves(c, {"guarded"}, "leaving") \/ Moves(c, {"new"}, "absent")
  /\ UNCHANGED <<work, bound>>

Starts(c, what) ==
  /\ work[c] = "none"
  /\ work' = [work EXCEPT ![c] = what]
  /\ UNCHANGED <<stage, bound>>

\* A reconcile that may write to Azure.
StartWriting(c) == stage[c] \in {"guarded", "leaving"} /\ Starts(c, "write")

\* A reconcile that may delete in Azure.
StartCleaning(c) == stage[c] # "guarded" /\ Starts(c, "clean")

Ends(c) == work' = [work EXCEPT ![c] = "none"]

\* The status is stored with the resource's ID.
Bind(c) ==
  /\ work[c] = "write" /\ stage[c] = "guarded"
  /\ bound' = [bound EXCEPT ![c] = TRUE]
  /\ Ends(c) /\ UNCHANGED stage

\* The finalizer is removed, and the object with it.
Forget(c) ==
  /\ work[c] = "clean" /\ ~owed[c]
  /\ Moves(c, {"leaving"}, "absent")
  /\ bound' = [bound EXCEPT ![c] = FALSE]
  /\ Ends(c)

\* It ends some other way: an error, a conflict, a crash.
GiveUp(c) == Ends(c) /\ UNCHANGED <<stage, bound>>

Next ==
  /\ \/ \E c \in CRs :
          \/ Create(c) \/ Guard(c) \/ MarkDeleted(c)
          \/ StartWriting(c) \/ StartCleaning(c)
          \/ Bind(c) \/ Forget(c) \/ GiveUp(c)
     \/ UNCHANGED <<stage, work, bound>>
  /\ Owes

Spec == Init /\ [][Next]_vars

-----------------------------------------------------------------------------
\* Nothing is written for, or bound to, an object that has no finalizer, and
\* an object that is gone owes nothing.
Guarded ==
  \A c \in CRs :
    /\ work[c] = "write" => stage[c] \in {"guarded", "leaving"}
    /\ bound[c] => stage[c] \in {"guarded", "leaving"}
    /\ owed[c] => bound[c]
=============================================================================
