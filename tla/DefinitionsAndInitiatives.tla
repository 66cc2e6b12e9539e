----------------------- MODULE DefinitionsAndInitiatives -----------------------
(***************************************************************************)
(* The definition controller and the initiative controller in one process. *)
(* An initiative that refers to an AzurePolicyDefinition takes its ID from *)
(* the status in the cache of definitions, and a watch on definitions      *)
(* wakes it: in place of the environment that PolicyInitiative assumes,    *)
(* definitions change as PolicyDefinition says.                            *)
(*                                                                         *)
(* Each controller has its queue and its worker.  There are no failures    *)
(* and nobody else writes to Azure: PolicyDefinition and PolicyInitiative  *)
(* have both.                                                              *)
(***************************************************************************)
EXTENDS Integers, FiniteSets, Sequences

CONSTANTS
  None, Names, Subs, MGs, OperatorSub, Heads, Versions,
  Definitions, Initiatives,           \* the objects of the two kinds
  MetaName,                           \* MetaName[c]: metadata.name of c
  DefinitionOffers, InitiativeOffers, \* the manifests users may apply
  DefinitionsInit, InitiativesInit,   \* what Azure holds at the start
  DefinitionIds,                      \* resource IDs of definitions
  IdOf,                               \* IdOf[id]: how an initiative writes id
  MaxDefinitionEdits, MaxInitiativeEdits

VARIABLES
  dObj, dCache, dSynced, dQueue, dPc, dCopy, dFresh, dEdits, dAzure,
  iObj, iCache, iSynced, iQueue, iPc, iCopy, iFresh, iEdits, iAzure

dVars == <<dObj, dCache, dSynced, dQueue, dPc, dCopy, dFresh, dEdits, dAzure>>
iVars == <<iObj, iCache, iSynced, iQueue, iPc, iCopy, iFresh, iEdits, iAzure>>
vars == <<dVars, iVars>>

D == INSTANCE PolicyDefinition WITH
  CRs <- Definitions, NameOf <- [d \in Definitions |-> MetaName[d]],
  Offers <- DefinitionOffers, AzureInit <- DefinitionsInit,
  MaxEdits <- MaxDefinitionEdits, MaxFaults <- 0, MaxPortal <- 0, Misreads <- FALSE,
  obj <- dObj, cache <- dCache, synced <- dSynced, queue <- dQueue, pc <- dPc,
  copy <- dCopy, fresh <- dFresh, edits <- dEdits, azure <- dAzure,
  faults <- 0, portal <- 0

\* What resolvePolicyDefinitionIDs makes of a definition object.
RefState(o) ==
  IF o.phase = "absent" THEN "missing"
  ELSE IF o.status.id = None THEN "notReady" ELSE IdOf[o.status.id]

I == INSTANCE PolicyInitiative WITH
  CRs <- Initiatives, NameOf <- [c \in Initiatives |-> MetaName[c]],
  Offers <- InitiativeOffers, AzureInit <- InitiativesInit,
  MaxEdits <- MaxInitiativeEdits, MaxFaults <- 0, MaxOutside <- 0,
  obj <- iObj, cache <- iCache, synced <- iSynced, queue <- iQueue, pc <- iPc,
  copy <- iCopy, fresh <- iFresh, edits <- iEdits, azure <- iAzure,
  faults <- 0, portal <- 0, defChanges <- 0,
  defined <- [d \in Definitions |-> RefState(dObj[d])],
  seen <- [d \in Definitions |-> RefState(dCache[d])]

Init == D!Init /\ I!Init

-----------------------------------------------------------------------------
Users ==
  \/ D!User(D!NoStatus) /\ UNCHANGED <<dAzure, iVars>>
  \/ UNCHANGED dVars /\ I!User(I!NoStatus) /\ UNCHANGED iAzure

\* The two workers.
DefinitionWorker(d) == (D!Reconcile(d) \/ D!Call(d)) /\ UNCHANGED iVars

InitiativeWorker(c) == UNCHANGED dVars /\ (I!Reconcile(c) \/ I!Call(c))

\* An event of a definition enqueues it, and the initiatives in the cache that
\* refer to it.
SyncDefinition(d) ==
  /\ D!Sync(d) /\ UNCHANGED dAzure
  /\ iQueue' = iQueue \cup I!Referring(d)
  /\ UNCHANGED <<iObj, iCache, iSynced, iPc, iCopy, iFresh, iEdits, iAzure>>

SyncInitiative(c) == UNCHANGED dVars /\ I!SyncObject(c)

Next ==
  \/ Users
  \/ \E d \in Definitions : DefinitionWorker(d) \/ SyncDefinition(d)
  \/ \E c \in Initiatives : InitiativeWorker(c) \/ SyncInitiative(c)

\* The watches deliver, and a worker goes on: a call returns, and the queue
\* serves every key in turn.
Fairness ==
  /\ \A d \in Definitions : WF_vars(SyncDefinition(d)) /\ SF_dVars(DefinitionWorker(d))
  /\ \A c \in Initiatives : WF_iVars(SyncInitiative(c)) /\ SF_iVars(InitiativeWorker(c))

Spec == Init /\ [][Next]_vars

FairSpec == Spec /\ Fairness

-----------------------------------------------------------------------------
\* The definition that an object stands for is in Azure.
Stands(d) ==
  dObj[d].phase = "live" /\ dObj[d].status.id # None /\ dAzure[D!BoundRef(dObj[d])] # None

\* Every definition that c refers to is in order.
StandsOn(c) == \A d \in Definitions : I!RefersTo(iObj[c], d) => Stands(d)

\* The IDs that the references of o stand for.
Standing(o) ==
  [j \in DOMAIN o.man.spec.members |->
     LET m == o.man.spec.members[j]
     IN  IF m \in Definitions THEN IdOf[dObj[m].status.id] ELSE m]

\* Bound and kept as its spec says, neither observed nor applied once nor in
\* conflict.
KeptInSync(o) ==
  /\ I!Managed(o) /\ o.status.id # None
  /\ \/ o.man.importId = None
     \/ o.man.mode = "reconcile" /\ ~I!Rebinds(o)

\* Under FairSpec, when users stop, an initiative that is bound and whose
\* definitions are all in order lists the definitions that are in Azure,
\* whichever object was created, edited or deleted first; and a deleted one is
\* gone, also when its definitions went before it.
ListsWhatStands ==
  \A c \in Initiatives :
    <>[](LET o == iObj[c]
             r == I!Target(c, o.man)
         IN  /\ o.phase # "deleting"
             /\ KeptInSync(o) /\ r \in I!Refs /\ StandsOn(c)
                => iAzure[r] # None /\ iAzure[r].members = Standing(o))

\* Under FairSpec, when users stop, an initiative that is only observed reports
\* whether the one in Azure lists the definitions that its references stand
\* for by then, whichever it was compared with when it was imported.
DriftIsReported ==
  \A c \in Initiatives :
    <>[](LET o == iObj[c]
             i == iAzure[I!ImportRef(o.man.importId)]
         IN  /\ I!Managed(o) /\ o.man.importId # None
             /\ o.man.mode \in {None, "observe-only"} /\ ~I!Rebinds(o)
             /\ StandsOn(c) /\ i # None
             => (o.status.drift = "InSync"
                   <=> i.head = o.man.spec.head /\ i.members = Standing(o)))
=============================================================================
