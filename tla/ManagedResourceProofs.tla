------------------------ MODULE ManagedResourceProofs ------------------------
(***************************************************************************)
(* What ManagedResource promises, for every set of objects.  A controller  *)
(* that implements ManagedResource inherits it through its refinement      *)
(* mapping.                                                                *)
(***************************************************************************)
EXTENDS ManagedResource, TLAPS

TypeInv ==
  /\ stage \in [CRs -> Stages]
  /\ work \in [CRs -> {"none", "write", "clean"}]
  /\ bound \in [CRs -> BOOLEAN]
  /\ owed \in [CRs -> BOOLEAN]

IInv == TypeInv /\ Guarded

LEMMA GuardedInit == Init => IInv
  BY DEF Init, IInv, TypeInv, Stages, Guarded

\* The steps in the life of one object.
LEMMA GuardedObject ==
  ASSUME IInv, Owes, NEW c \in CRs,
         Create(c) \/ Guard(c) \/ MarkDeleted(c)
  PROVE  IInv'
<1> USE DEF IInv, TypeInv, Stages
<1>1. /\ stage' \in [CRs -> Stages]
      /\ \A d \in CRs : stage[d] \in {"guarded", "leaving"} =>
                          stage'[d] \in {"guarded", "leaving"}
  BY DEF Create, Guard, MarkDeleted, Moves
<1>2. UNCHANGED <<work, bound>>
  BY DEF Create, Guard, MarkDeleted
<1> QED BY <1>1, <1>2 DEF Owes, Guarded

\* The steps of its reconcile.
LEMMA GuardedWork ==
  ASSUME IInv, Owes, NEW c \in CRs,
         StartWriting(c) \/ StartCleaning(c) \/ Bind(c) \/ Forget(c) \/ GiveUp(c)
  PROVE  IInv'
<1> USE DEF IInv, TypeInv, Stages, Owes
<1>1. CASE StartWriting(c)
  BY <1>1 DEF StartWriting, Starts, Guarded
<1>2. CASE StartCleaning(c)
  BY <1>2 DEF StartCleaning, Starts, Guarded
<1>3. CASE Bind(c)
  BY <1>3 DEF Bind, Ends, Guarded
<1>4. CASE Forget(c)
  BY <1>4 DEF Forget, Moves, Ends, Guarded
<1>5. CASE GiveUp(c)
  BY <1>5 DEF GiveUp, Ends, Guarded
<1> QED BY <1>1, <1>2, <1>3, <1>4, <1>5

\* Whatever an object goes through, writing work and a binding belong to one
\* that has its finalizer, and only a bound object owes Azure anything.
THEOREM AlwaysGuarded == Spec => []Guarded
<1>1. IInv /\ [Next]_vars => IInv'
  <2> SUFFICES ASSUME IInv, [Next]_vars
               PROVE  IInv'
    OBVIOUS
  <2>1. CASE Owes /\ UNCHANGED <<stage, work, bound>>
    BY <2>1 DEF Owes, IInv, TypeInv, Guarded
  <2>2. CASE UNCHANGED vars
    BY <2>2 DEF vars, IInv, TypeInv, Guarded
  <2> QED BY <2>1, <2>2, GuardedObject, GuardedWork DEF Next
<1>2. IInv => Guarded
  BY DEF IInv
<1> QED BY <1>1, <1>2, GuardedInit, PTL DEF Spec

-----------------------------------------------------------------------------
(* How a controller's step is one of ManagedResource: it is enough to say  *)
(* what it does to the stage, the work and the binding of one object.      *)

Same(c) == stage'[c] = stage[c] /\ bound'[c] = bound[c]

Lives(c) ==
  /\ \/ stage[c] = "absent" /\ stage'[c] = "new"
     \/ stage[c] = "new" /\ stage'[c] \in {"guarded", "absent"}
     \/ stage[c] = "guarded" /\ stage'[c] = "leaving"
  /\ work'[c] = work[c] /\ bound'[c] = bound[c]

StartsWork(c) ==
  /\ work[c] = "none" /\ Same(c)
  /\ \/ work'[c] = "write" /\ stage[c] \in {"guarded", "leaving"}
     \/ work'[c] = "clean" /\ stage[c] # "guarded"

EndsWork(c) ==
  /\ work'[c] = "none"
  /\ \/ Same(c)
     \/ /\ work[c] = "write"
        /\ stage[c] = "guarded" /\ stage'[c] = "guarded" /\ bound'[c] = TRUE
     \/ /\ work[c] = "clean" /\ ~owed[c]
        /\ stage[c] = "leaving" /\ stage'[c] = "absent" /\ bound'[c] = FALSE

LEMMA ObjectStep ==
  ASSUME NEW c \in CRs, Owes,
         stage = [d \in CRs |-> stage[d]], work = [d \in CRs |-> work[d]],
         bound = [d \in CRs |-> bound[d]],
         stage' = [stage EXCEPT ![c] = stage'[c]],
         work' = [work EXCEPT ![c] = work'[c]],
         bound' = [bound EXCEPT ![c] = bound'[c]],
         \/ Same(c) /\ work'[c] = work[c]
         \/ Lives(c) \/ StartsWork(c) \/ EndsWork(c)
  PROVE  Next
<1>1. /\ stage'[c] = stage[c] => stage' = stage
      /\ work'[c] = work[c] => work' = work
      /\ bound'[c] = bound[c] => bound' = bound
  OBVIOUS
<1>2. CASE Same(c) /\ work'[c] = work[c]
  BY <1>1, <1>2 DEF Same, Next
<1>3. CASE Lives(c)
  <2>1. Create(c) \/ Guard(c) \/ MarkDeleted(c)
    BY <1>1, <1>3 DEF Lives, Create, Guard, MarkDeleted, Moves
  <2> QED BY <2>1 DEF Next
<1>4. CASE StartsWork(c)
  <2>1. StartWriting(c) \/ StartCleaning(c)
    BY <1>1, <1>4 DEF StartsWork, Same, StartWriting, StartCleaning, Starts
  <2> QED BY <2>1 DEF Next
<1>5. CASE EndsWork(c)
  <2>1. Bind(c) \/ Forget(c) \/ GiveUp(c)
    BY <1>1, <1>5 DEF EndsWork, Same, Bind, Forget, GiveUp, Moves, Ends
  <2> QED BY <2>1 DEF Next
<1> QED BY <1>2, <1>3, <1>4, <1>5
=============================================================================
