----------------------- MODULE PolicyAssignmentProofs -----------------------
(***************************************************************************)
(* Theorems about PolicyAssignment, for every set of objects, offers,      *)
(* definitions and bounds: type correctness, that the controller           *)
(* implements ManagedResource, and that an object keeps its name.          *)
(*                                                                         *)
(* Between two calls of the service the state of a reconcile is the list   *)
(* of what is left to do.  The invariant says of a clean-up that whatever  *)
(* is still in Azure is on that list.                                      *)
(***************************************************************************)
EXTENDS PolicyAssignment, ControllerRuntimeProofs, FiniteSetTheorems, SequenceTheorems

-----------------------------------------------------------------------------
(* Counting.                                                               *)

Rank(T, i) == Cardinality({j \in T : j <= i})

LEMMA FiniteNumbers ==
  ASSUME NEW n \in Nat, NEW T \in SUBSET (1..n)
  PROVE  IsFiniteSet(T) /\ Cardinality(T) \in Nat
<1>1. IsFiniteSet(1..n)
  BY FS_Interval
<1>2. IsFiniteSet(T)
  BY <1>1, FS_Subset
<1> QED BY <1>2, FS_CardinalityType

\* The ranks of a set of numbers are the numbers up to its size,
LEMMA RankRange ==
  ASSUME NEW n \in Nat, NEW T \in SUBSET (1..n), NEW i \in T
  PROVE  Rank(T, i) \in 1..Cardinality(T)
<1> DEFINE upTo == {j \in T : j <= i}
<1>1. IsFiniteSet(T) /\ Cardinality(T) \in Nat
  BY FiniteNumbers
<1>2. i \in upTo /\ upTo \in SUBSET T
  OBVIOUS
<1> HIDE DEF upTo
<1>3. IsFiniteSet(upTo) /\ Cardinality(upTo) <= Cardinality(T) /\ Cardinality(upTo) \in Nat
  BY <1>1, <1>2, FS_Subset, FS_CardinalityType
<1>4. Cardinality(upTo) # 0
  BY <1>2, <1>3, FS_EmptySet
<1> QED BY <1>1, <1>3, <1>4 DEF Rank, upTo

\* different ones for different numbers,
LEMMA RankInjective ==
  ASSUME NEW n \in Nat, NEW T \in SUBSET (1..n), NEW i \in T, NEW j \in T,
         Rank(T, i) = Rank(T, j)
  PROVE  i = j
<1>1. ASSUME NEW k \in T, NEW m \in T, k < m
      PROVE  Rank(T, k) # Rank(T, m)
  <2> DEFINE upToK == {h \in T : h <= k}
             upToM == {h \in T : h <= m}
  <2>1. IsFiniteSet(upToM)
    BY FiniteNumbers, FS_Subset
  <2>2. k \in Nat /\ m \in Nat /\ \A h \in T : h \in Nat
    OBVIOUS
  <2>3. \A h \in T : h <= k => h <= m
    BY <1>1, <2>2
  <2>4. m <= m /\ ~(m <= k)
    BY <1>1, <2>2
  <2>5. upToK \in SUBSET upToM /\ m \in upToM /\ m \notin upToK
    BY <2>3, <2>4
  <2> HIDE DEF upToK, upToM
  <2>6. Cardinality(upToK) # Cardinality(upToM)
    BY <2>1, <2>5, FS_Subset
  <2> QED BY <2>6 DEF Rank, upToK, upToM
<1>2. i < j \/ j < i \/ i = j
  OBVIOUS
<1> QED BY <1>1, <1>2

\* and so there is a kth number for every k up to the size.
LEMMA RankOnto ==
  ASSUME NEW n \in Nat, NEW T \in SUBSET (1..n), NEW k \in 1..Cardinality(T)
  PROVE  \E i \in T : Rank(T, i) = k
<1> DEFINE size == Cardinality(T)
           smaller == (1..size) \ {k}
           rank == [i \in T |-> Rank(T, i)]
<1>1. IsFiniteSet(T) /\ size \in Nat
  BY FiniteNumbers
<1>2. IsFiniteSet(smaller) /\ Cardinality(smaller) < size
  <2>1. IsFiniteSet(1..size) /\ Cardinality(1..size) = size /\ k \in 1..size
    BY <1>1, FS_Interval
  <2> HIDE DEF size
  <2>2. IsFiniteSet(smaller) /\ Cardinality(smaller) = size - 1
    BY <2>1, FS_RemoveElement
  <2> HIDE DEF smaller
  <2> QED BY <1>1, <2>2
<1> SUFFICES ASSUME \A i \in T : Rank(T, i) # k
             PROVE  FALSE
  OBVIOUS
<1>3. rank \in [T -> smaller]
  BY RankRange
<1>4. PICK i, j \in T : i # j /\ rank[i] = rank[j]
  <2> HIDE DEF rank, smaller
  <2> QED BY <1>1, <1>2, <1>3, FS_PigeonHole
<1> QED BY <1>4, RankInjective

\* A set of numbers that is not empty has a greatest one.
LEMMA MaxOf ==
  ASSUME NEW n \in Nat, NEW T \in SUBSET (1..n), T # {}
  PROVE  Max(T) \in T /\ \A j \in T : j <= Max(T)
<1>1. IsFiniteSet(T) /\ Cardinality(T) \in Nat
  BY FiniteNumbers
<1>2. Cardinality(T) \in 1..Cardinality(T)
  BY <1>1, FS_EmptySet
<1>3. PICK i \in T : Rank(T, i) = Cardinality(T)
  BY <1>2, RankOnto
<1>4. {j \in T : j <= i} = T
  BY <1>1, <1>3, FS_Subset DEF Rank
<1>5. \E x \in T : \A y \in T : x >= y
  BY <1>4
<1>6. Max(T) \in T /\ \A y \in T : Max(T) >= y
  BY <1>5 DEF Max
<1> QED BY <1>6

-----------------------------------------------------------------------------
(* Lists.                                                                  *)

\* x is in the list s.
In(x, s) == \E i \in DOMAIN s : s[i] = x

LEMMA InCat ==
  ASSUME NEW S, NEW s \in Seq(S), NEW t \in Seq(S), NEW x
  PROVE  In(x, s \o t) <=> In(x, s) \/ In(x, t)
<1>1. /\ s \o t \in Seq(S) /\ Len(s \o t) = Len(s) + Len(t)
      /\ \A i \in 1 .. Len(s) + Len(t) :
           (s \o t)[i] = IF i <= Len(s) THEN s[i] ELSE t[i - Len(s)]
      /\ Len(s) \in Nat /\ Len(t) \in Nat
  BY ConcatProperties, LenProperties
<1>2. /\ DOMAIN (s \o t) = 1..Len(s) + Len(t)
      /\ DOMAIN s = 1..Len(s) /\ DOMAIN t = 1..Len(t)
  BY <1>1, LenProperties
<1>3. ASSUME In(x, s \o t)
      PROVE  In(x, s) \/ In(x, t)
  <2> PICK i \in 1..Len(s) + Len(t) : (s \o t)[i] = x
    BY <1>2, <1>3 DEF In
  <2>1. CASE i <= Len(s)
    BY <1>1, <1>2, <2>1 DEF In
  <2>2. CASE i > Len(s)
    <3>1. i - Len(s) \in 1..Len(t) /\ t[i - Len(s)] = x
      BY <1>1, <2>2
    <3> QED BY <1>2, <3>1 DEF In
  <2> QED BY <1>1, <2>1, <2>2
<1>4. ASSUME In(x, s)
      PROVE  In(x, s \o t)
  BY <1>1, <1>2, <1>4 DEF In
<1>5. ASSUME In(x, t)
      PROVE  In(x, s \o t)
  <2> PICK i \in 1..Len(t) : t[i] = x
    BY <1>2, <1>5 DEF In
  <2>1. /\ i + Len(s) \in 1..Len(s) + Len(t) /\ ~(i + Len(s) <= Len(s))
        /\ (i + Len(s)) - Len(s) = i
    BY <1>1
  <2>2. (s \o t)[i + Len(s)] = x
    BY <1>1, <2>1
  <2> QED BY <1>2, <2>1, <2>2 DEF In
<1> QED BY <1>3, <1>4, <1>5

\* What is in a list is its head or in its tail.
LEMMA InTail ==
  ASSUME NEW S, NEW s \in Seq(S), s # <<>>, NEW x
  PROVE  /\ In(x, s) <=> x = Head(s) \/ In(x, Tail(s))
         /\ Head(s) \in S /\ Tail(s) \in Seq(S)
<1>1. /\ Head(s) \in S /\ Tail(s) \in Seq(S) /\ Len(Tail(s)) = Len(s) - 1
      /\ \A i \in 1 .. Len(Tail(s)) : Tail(s)[i] = s[i + 1]
      /\ Len(s) \in Nat \ {0} /\ Head(s) = s[1]
      /\ DOMAIN s = 1..Len(s) /\ DOMAIN Tail(s) = 1..Len(Tail(s))
  BY HeadTailProperties, LenProperties, EmptySeq
<1>2. ASSUME In(x, s)
      PROVE  x = Head(s) \/ In(x, Tail(s))
  <2> PICK i \in 1..Len(s) : s[i] = x
    BY <1>1, <1>2 DEF In
  <2>1. CASE i = 1
    BY <1>1, <2>1
  <2>2. CASE i # 1
    <3>1. i - 1 \in 1..Len(Tail(s)) /\ (i - 1) + 1 = i
      BY <1>1, <2>2
    <3> QED BY <1>1, <3>1 DEF In
  <2> QED BY <2>1, <2>2
<1>3. ASSUME x = Head(s) \/ In(x, Tail(s))
      PROVE  In(x, s)
  <2>1. CASE x = Head(s)
    BY <1>1, <2>1 DEF In
  <2>2. CASE In(x, Tail(s))
    <3> PICK i \in 1..Len(Tail(s)) : Tail(s)[i] = x
      BY <1>1, <2>2 DEF In
    <3>1. i + 1 \in 1..Len(s) /\ s[i + 1] = x
      BY <1>1
    <3> QED BY <1>1, <3>1 DEF In
  <2> QED BY <1>3, <2>1, <2>2
<1> QED BY <1>1, <1>2, <1>3

LEMMA InAppend ==
  ASSUME NEW S, NEW s \in Seq(S), NEW e \in S, NEW x
  PROVE  /\ Append(s, e) \in Seq(S)
         /\ In(x, Append(s, e)) <=> In(x, s) \/ x = e
<1>1. /\ Append(s, e) \in Seq(S) /\ Len(Append(s, e)) = Len(s) + 1 /\ Len(s) \in Nat
      /\ \A i \in 1..Len(s) : Append(s, e)[i] = s[i]
      /\ Append(s, e)[Len(s) + 1] = e
      /\ DOMAIN s = 1..Len(s) /\ DOMAIN Append(s, e) = 1..Len(s) + 1
  BY AppendProperties, LenProperties
<1>2. \A i \in 1..Len(s) + 1 : i \in 1..Len(s) \/ i = Len(s) + 1
  BY <1>1
<1>3. 1..Len(s) \subseteq 1..Len(s) + 1 /\ Len(s) + 1 \in 1..Len(s) + 1
  BY <1>1
<1> QED BY <1>1, <1>2, <1>3 DEF In

-----------------------------------------------------------------------------
(* The invariant.                                                          *)

Runtime == RuntimeInv(Manifests, Statuses, Calls)

\* The calls of the service.
Operations ==
  [op : {"PutExemption"}, of : Entries]
    \cup [op : {"DropExemption"}, of : Tracked]
    \cup [op : {"Grant", "Revoke"}, of : Permissions]
    \cup [op : {"DeleteAssignment"}, of : Refs]

OutsideTyped ==
  /\ azure \in [Refs -> Resources \cup {None}]
  /\ exempted \in [ExemptionIds -> Exemptions \cup {None}]
  /\ granted \subseteq Grants
  /\ roles \in [Permissions -> RoleIds \cup {None}]
  /\ todo \in Seq(Operations)
  /\ results \in Seq(Tracked)
  /\ portal \in 0..MaxOutside
  /\ defined \in [Definitions -> DefinitionStates]
  /\ seen \in [Definitions -> DefinitionStates]
  /\ defChanges \in 0..MaxOutside

\* The two manifests say the same, but for the definition that the reference
\* resolves to.
SameButDefinition(m, n) ==
  /\ m.importId = n.importId /\ m.importName = n.importName /\ m.mode = n.mode
  /\ m.spec.scope = n.spec.scope /\ m.spec.body = n.spec.body
  /\ m.spec.exemptions = n.spec.exemptions /\ m.spec.permissions = n.spec.permissions

\* What CreateOrUpdate does, and what Delete does.
CallsFor(o) ==
  IF o.phase = "live" THEN {"PutExemption", "DropExemption", "Grant"}
  ELSE {"DropExemption", "Revoke", "DeleteAssignment"}

\* What the branches on the way to a call have established about the copy.
CallOK(c) ==
  /\ pc[c] \in {"Import", "Get", "Create"} =>
       copy[c].phase = "live" /\ copy[c].man.spec.definition \in DefinitionIds
  /\ pc[c] = "Import" => copy[c].man.importId # None /\ ~Rebinds(copy[c])
  /\ pc[c] = "RemoveFinalizer" => copy[c].phase = "deleting"
  /\ pc[c] = "Service" =>
       /\ todo # <<>> /\ copy[c].status.id # None
       /\ \A x \in Operations : In(x, todo) => x.op \in CallsFor(copy[c])

\* A fresh copy says what the stored object does, and has kept its name; that
\* of a deleted object also tracks the same exemptions.
CopyAgrees(c) ==
  fresh[c] =>
    /\ SameButDefinition(copy[c].man, obj[c].man)
    /\ obj[c].status.id # None =>
         copy[c].status.id # None /\ copy[c].status.id.name = obj[c].status.id.name
    /\ copy[c].phase = "deleting" =>
         /\ copy[c].status.id = obj[c].status.id
         /\ copy[c].status.exemptions = obj[c].status.exemptions

\* What the call x of the clean-up of o has to delete is deleted (a role
\* assignment, of the role definition as it always was).
Deleted(o, x) ==
  /\ x.op = "DropExemption" => exempted[ExemptionId(x.of)] = None
  /\ x.op = "Revoke" /\ portal = 0 => GrantOf(o, x.of) \notin granted
  /\ x.op = "DeleteAssignment" => azure[x.of] = None

\* Whatever a clean-up has to delete is deleted or still on its list, and when
\* it comes to the finalizer the list is empty.
CleansAll(c) ==
  LET o == copy[c]
  IN  /\ pc[c] = "Service" /\ o.phase = "deleting" =>
           \A x \in Operations : In(x, DeletePlan(o)) => In(x, todo) \/ Deleted(o, x)
      /\ pc[c] = "RemoveFinalizer" /\ o.status.id # None =>
           \A x \in Operations : In(x, DeletePlan(o)) => Deleted(o, x)

LocalInv(c) == CallOK(c) /\ CopyAgrees(c) /\ CleansAll(c)

IInv == Runtime /\ OutsideTyped /\ \A c \in CRs : LocalInv(c)

-----------------------------------------------------------------------------
(* Names, and the lists of calls.                                          *)

\* A bound object has a target, under the name it is bound to.
LEMMA BoundTarget ==
  ASSUME NEW c \in CRs, NEW o \in Objects, o.status.id # None
  PROVE  /\ Target(c, o) \in Refs /\ Target(c, o).name = o.status.id.name
         /\ DeleteRef(o) = Target(c, o) /\ RefOf(o.status.id) \in Refs
  BY DEF Target, DeleteRef, RefOf, Refs, Ids, Objects, ObjectsOf, Manifests, Specs, Statuses

LEMMA AssignmentFacts ==
  ASSUME NEW c \in CRs, NEW o \in Objects, o.man.spec.definition \in DefinitionIds
  PROVE  LET a == Assignment(c, o)
         IN  a \in Resources /\ a # None /\ a.by = c /\ a.gen = o.gen
<1>1. Assignment(c, o) \in Resources
  BY DEF Assignment, Resources, Objects, ObjectsOf, Manifests, Specs, Statuses
<1> QED BY <1>1, NoneAssumption DEF Assignment

LEMMA OpsOverFacts ==
  ASSUME NEW S, NEW s \in Seq(S), NEW op, \A e \in S : [op |-> op, of |-> e] \in Operations
  PROVE  /\ OpsOver(op, s) \in Seq(Operations)
         /\ \A x : In(x, OpsOver(op, s)) <=>
                     \E i \in DOMAIN s : x = [op |-> op, of |-> s[i]]
<1>1. DOMAIN s = 1..Len(s) /\ Len(s) \in Nat /\ \A i \in DOMAIN s : s[i] \in S
  BY LenProperties, ElementOfSeq
<1>2. OpsOver(op, s) = [i \in 1..Len(s) |-> [op |-> op, of |-> s[i]]]
  BY <1>1 DEF OpsOver
<1>3. \A i \in 1..Len(s) : [op |-> op, of |-> s[i]] \in Operations
  BY <1>1
<1>4. OpsOver(op, s) \in Seq(Operations)
  BY <1>1, <1>2, <1>3
<1>5. \A x : In(x, OpsOver(op, s)) <=> \E i \in DOMAIN s : x = [op |-> op, of |-> s[i]]
  BY <1>1, <1>2 DEF In
<1> QED BY <1>4, <1>5

\* Every exemption that left the spec is in Removed, and nothing else.
LEMMA RemovedFacts ==
  ASSUME NEW o \in Objects
  PROVE  /\ Removed(o) \in Seq(Tracked)
         /\ \A i \in Gone(o) : In(o.status.exemptions[i], Removed(o))
         /\ \A t : In(t, Removed(o)) => \E i \in Gone(o) : t = o.status.exemptions[i]
<1> DEFINE s == o.status.exemptions
           G == Gone(o)
           nth(k) == CHOOSE i \in G : Rank(G, i) = k
<1>1. s \in Seq(Tracked)
  BY DEF Objects, ObjectsOf, Statuses
<1>2. DOMAIN s = 1..Len(s) /\ Len(s) \in Nat /\ \A i \in DOMAIN s : s[i] \in Tracked
  BY <1>1, LenProperties, ElementOfSeq
<1>3. G \in SUBSET (1..Len(s))
  BY <1>2 DEF Gone
<1>4. Cardinality(G) \in Nat
  BY <1>2, <1>3, FiniteNumbers
<1>5. Removed(o) = [k \in 1..Cardinality(G) |-> s[nth(k)]]
  BY DEF Removed, Rank
<1> HIDE DEF s, G
<1>6. \A k \in 1..Cardinality(G) : nth(k) \in G /\ Rank(G, nth(k)) = k
  BY <1>2, <1>3, RankOnto
<1>7. \A i \in G : Rank(G, i) \in 1..Cardinality(G) /\ nth(Rank(G, i)) = i
  <2> TAKE i \in G
  <2>1. Rank(G, i) \in 1..Cardinality(G)
    BY <1>2, <1>3, RankRange
  <2>2. nth(Rank(G, i)) \in G /\ Rank(G, nth(Rank(G, i))) = Rank(G, i)
    BY <1>6, <2>1
  <2> HIDE DEF nth
  <2>3. nth(Rank(G, i)) = i
    BY <1>2, <1>3, <2>2, RankInjective
  <2> QED BY <2>1, <2>3
<1>8. \A k \in 1..Cardinality(G) : s[nth(k)] \in Tracked /\ nth(k) \in G
  BY <1>2, <1>3, <1>6
<1> HIDE DEF nth
<1>9. Removed(o) \in Seq(Tracked)
  BY <1>4, <1>5, <1>8
<1>10. DOMAIN Removed(o) = 1..Cardinality(G) /\ \A k \in 1..Cardinality(G) : Removed(o)[k] = s[nth(k)]
  BY <1>5
<1>11. \A i \in G : In(s[i], Removed(o))
  BY <1>7, <1>10 DEF In
<1>12. \A t : In(t, Removed(o)) => \E i \in G : t = s[i]
  BY <1>8, <1>10 DEF In
<1> QED BY <1>9, <1>11, <1>12 DEF s, G

\* The clean-up calls for every exemption that is tracked, every role and the
\* assignment.
LEMMA DeletePlanFacts ==
  ASSUME NEW o \in Objects, o.status.id # None, o.phase = "deleting"
  PROVE  /\ DeletePlan(o) \in Seq(Operations) /\ DeletePlan(o) # <<>>
         /\ \A x \in Operations : In(x, DeletePlan(o)) => x.op \in CallsFor(o)
         /\ \A i \in DOMAIN o.status.exemptions :
              LET x == [op |-> "DropExemption", of |-> o.status.exemptions[i]]
              IN  x \in Operations /\ In(x, DeletePlan(o))
         /\ \A i \in DOMAIN o.man.spec.permissions :
              LET x == [op |-> "Revoke", of |-> o.man.spec.permissions[i]]
              IN  x \in Operations /\ In(x, DeletePlan(o))
         /\ LET x == [op |-> "DeleteAssignment", of |-> DeleteRef(o)]
            IN  x \in Operations /\ In(x, DeletePlan(o))
         /\ \A x : In(x, DeletePlan(o)) =>
              \/ x.op = "DropExemption" /\ In(x.of, o.status.exemptions)
              \/ x.op = "Revoke"
              \/ x = [op |-> "DeleteAssignment", of |-> DeleteRef(o)]
<1> DEFINE s == o.status.exemptions
           p == o.man.spec.permissions
           drops == OpsOver("DropExemption", s)
           revokes == OpsOver("Revoke", p)
           delete == [op |-> "DeleteAssignment", of |-> DeleteRef(o)]
<1>1. s \in Seq(Tracked) /\ p \in Seq(Permissions) /\ DeleteRef(o) \in Refs
  BY BoundTarget, ConstantsAssumption
     DEF Objects, ObjectsOf, Manifests, Specs, Statuses, DeleteRef, Refs, Ids
<1>2. (\A i \in DOMAIN s : s[i] \in Tracked) /\ (\A i \in DOMAIN p : p[i] \in Permissions)
  BY <1>1, ElementOfSeq, LenProperties
<1>3. /\ \A e \in Tracked : [op |-> "DropExemption", of |-> e] \in Operations
      /\ \A e \in Permissions : [op |-> "Revoke", of |-> e] \in Operations
      /\ delete \in Operations
  BY <1>1 DEF Operations
<1>4. DeletePlan(o) = (drops \o revokes) \o <<delete>>
  BY DEF DeletePlan
<1> HIDE DEF s, p, delete
<1>5. /\ drops \in Seq(Operations)
      /\ \A x : In(x, drops) <=> \E i \in DOMAIN s : x = [op |-> "DropExemption", of |-> s[i]]
  BY <1>1, <1>3, OpsOverFacts
<1>6. /\ revokes \in Seq(Operations)
      /\ \A x : In(x, revokes) <=> \E i \in DOMAIN p : x = [op |-> "Revoke", of |-> p[i]]
  BY <1>1, <1>3, OpsOverFacts
<1>7. <<delete>> \in Seq(Operations) /\ \A x : In(x, <<delete>>) <=> x = delete
  BY <1>3 DEF In
<1> HIDE DEF drops, revokes
<1>8. drops \o revokes \in Seq(Operations) /\ DeletePlan(o) \in Seq(Operations)
  BY <1>4, <1>5, <1>6, <1>7, ConcatProperties
<1>9. \A x : In(x, DeletePlan(o)) <=> (In(x, drops) \/ In(x, revokes)) \/ x = delete
  <2> TAKE x
  <2>1. In(x, drops \o revokes) <=> In(x, drops) \/ In(x, revokes)
    BY <1>5, <1>6, InCat
  <2>2. In(x, (drops \o revokes) \o <<delete>>) <=> In(x, drops \o revokes) \/ In(x, <<delete>>)
    BY <1>7, <1>8, InCat
  <2> QED BY <1>4, <1>7, <2>1, <2>2
<1>10. DeletePlan(o) # <<>>
  BY <1>9 DEF In
<1>11. \A x \in Operations : In(x, DeletePlan(o)) => x.op \in CallsFor(o)
  BY <1>5, <1>6, <1>9 DEF CallsFor, delete
<1>12. /\ \A i \in DOMAIN s : /\ [op |-> "DropExemption", of |-> s[i]] \in Operations
                              /\ In([op |-> "DropExemption", of |-> s[i]], DeletePlan(o))
       /\ \A i \in DOMAIN p : /\ [op |-> "Revoke", of |-> p[i]] \in Operations
                              /\ In([op |-> "Revoke", of |-> p[i]], DeletePlan(o))
  BY <1>2, <1>3, <1>5, <1>6, <1>9
<1>13. delete \in Operations /\ In(delete, DeletePlan(o))
  BY <1>3, <1>9
<1>14. \A x : In(x, DeletePlan(o)) =>
         (x.op = "DropExemption" /\ In(x.of, s)) \/ x.op = "Revoke" \/ x = delete
  <2> TAKE x
  <2>1. In(x, drops) => x.op = "DropExemption" /\ In(x.of, s)
    BY <1>5 DEF In
  <2>2. In(x, revokes) => x.op = "Revoke"
    BY <1>6
  <2> QED BY <1>9, <2>1, <2>2
<1> QED BY <1>8, <1>10, <1>11, <1>12, <1>13, <1>14 DEF s, p, delete

\* CreateOrUpdate writes every exemption of the spec, then deletes those that
\* left it, then grants every role.
LEMMA CreatePlanFacts ==
  ASSUME NEW o \in Objects, o.phase = "live"
  PROVE  /\ CreatePlan(o) \in Seq(Operations)
         /\ \A x : In(x, CreatePlan(o)) <=>
              \/ \E i \in DOMAIN o.man.spec.exemptions :
                   x = [op |-> "PutExemption", of |-> o.man.spec.exemptions[i]]
              \/ \E i \in Gone(o) :
                   x = [op |-> "DropExemption", of |-> o.status.exemptions[i]]
              \/ \E i \in DOMAIN o.man.spec.permissions :
                   x = [op |-> "Grant", of |-> o.man.spec.permissions[i]]
         /\ \A x \in Operations : In(x, CreatePlan(o)) => x.op \in CallsFor(o)
<1> DEFINE e == o.man.spec.exemptions
           p == o.man.spec.permissions
           g == Removed(o)
           puts == OpsOver("PutExemption", e)
           drops == OpsOver("DropExemption", g)
           grants == OpsOver("Grant", p)
<1>1. e \in Seq(Entries) /\ p \in Seq(Permissions)
  BY DEF Objects, ObjectsOf, Manifests, Specs
<1>2. /\ g \in Seq(Tracked) /\ DOMAIN g = 1..Len(g)
      /\ \A i \in Gone(o) : In(o.status.exemptions[i], g)
      /\ \A t : In(t, g) => \E i \in Gone(o) : t = o.status.exemptions[i]
  BY RemovedFacts, LenProperties
<1>3. /\ \A x \in Entries : [op |-> "PutExemption", of |-> x] \in Operations
      /\ \A x \in Tracked : [op |-> "DropExemption", of |-> x] \in Operations
      /\ \A x \in Permissions : [op |-> "Grant", of |-> x] \in Operations
  BY DEF Operations
<1>4. CreatePlan(o) = (puts \o drops) \o grants
  BY DEF CreatePlan
<1> HIDE DEF e, p, g
<1>5. /\ puts \in Seq(Operations)
      /\ \A x : In(x, puts) <=> \E i \in DOMAIN e : x = [op |-> "PutExemption", of |-> e[i]]
  BY <1>1, <1>3, OpsOverFacts
<1>6. /\ drops \in Seq(Operations)
      /\ \A x : In(x, drops) <=> \E i \in DOMAIN g : x = [op |-> "DropExemption", of |-> g[i]]
  BY <1>2, <1>3, OpsOverFacts
<1>7. /\ grants \in Seq(Operations)
      /\ \A x : In(x, grants) <=> \E i \in DOMAIN p : x = [op |-> "Grant", of |-> p[i]]
  BY <1>1, <1>3, OpsOverFacts
<1> HIDE DEF puts, drops, grants
<1>8. puts \o drops \in Seq(Operations) /\ CreatePlan(o) \in Seq(Operations)
  BY <1>4, <1>5, <1>6, <1>7, ConcatProperties
<1>9. \A x : In(x, CreatePlan(o)) <=> (In(x, puts) \/ In(x, drops)) \/ In(x, grants)
  <2> TAKE x
  <2>1. In(x, puts \o drops) <=> In(x, puts) \/ In(x, drops)
    BY <1>5, <1>6, InCat
  <2>2. In(x, (puts \o drops) \o grants) <=> In(x, puts \o drops) \/ In(x, grants)
    BY <1>7, <1>8, InCat
  <2> QED BY <1>4, <2>1, <2>2
<1>10. \A x : In(x, drops) <=>
              \E i \in Gone(o) : x = [op |-> "DropExemption", of |-> o.status.exemptions[i]]
  <2>1. \A i \in DOMAIN g : \E j \in Gone(o) : g[i] = o.status.exemptions[j]
    BY <1>2 DEF In
  <2>2. \A j \in Gone(o) : \E i \in DOMAIN g : g[i] = o.status.exemptions[j]
    BY <1>2 DEF In
  <2> QED BY <1>6, <2>1, <2>2
<1>11. \A x \in Operations : In(x, CreatePlan(o)) => x.op \in CallsFor(o)
  BY <1>5, <1>7, <1>9, <1>10 DEF CallsFor
<1> QED BY <1>5, <1>7, <1>8, <1>9, <1>10, <1>11 DEF e, p

-----------------------------------------------------------------------------
(* What the steps between two calls do to the copy.                        *)

\* p is o with another status, reported for a generation that o has seen.
Restated(o, p) ==
  /\ p \in Objects
  /\ p.phase = o.phase /\ p.fin = o.fin /\ p.gen = o.gen /\ p.man = o.man
  /\ p.status.observed <= p.gen

LEMMA ReadyFacts ==
  ASSUME NEW o \in Objects, NEW reason \in Reasons
  PROVE  LET p == Ready(o, reason)
         IN  /\ Restated(o, p)
             /\ p.status.ready = reason /\ p.status.observed = o.gen
             /\ p.status.id = o.status.id /\ p.status.exemptions = o.status.exemptions
<1> DEFINE p == Ready(o, reason)
<1>1. /\ p \in Objects /\ p.phase = o.phase /\ p.fin = o.fin /\ p.gen = o.gen /\ p.man = o.man
      /\ p.status.ready = reason /\ p.status.observed = o.gen
      /\ p.status.id = o.status.id /\ p.status.exemptions = o.status.exemptions
  BY DEF Ready, Objects, ObjectsOf, Statuses
<1>2. o.gen \in Nat
  BY DEF Objects, ObjectsOf
<1> HIDE DEF p
<1> QED BY <1>1, <1>2 DEF Restated, p

\* Import binds, and touches nothing else but the drift and the location.
LEMMA ImportedFacts ==
  ASSUME IInv, NEW o \in Objects, o.status.observed <= o.gen, o.man.importId # None,
         azure[RefOf(o.man.importId)] # None
  PROVE  LET p == Imported(o)
         IN  /\ Restated(o, p) /\ p.status.id = o.man.importId
             /\ p.status.exemptions = o.status.exemptions
<1> DEFINE live == azure[RefOf(o.man.importId)]
           drift == DriftOf(live, o.man.spec)
           located == o.status.located \/ live.located
           p == Imported(o)
<1>1. o.man.importId \in Ids /\ RefOf(o.man.importId) \in Refs
  BY DEF RefOf, Refs, Ids, Objects, ObjectsOf, Manifests
<1>2. live \in Resources
  BY <1>1 DEF IInv, OutsideTyped
<1>3. drift \in {"SpecMismatch", "InSync"} /\ located \in BOOLEAN
  BY DEF DriftOf
<1>4. p = [o EXCEPT !.status.id = o.man.importId, !.status.located = located,
                    !.status.drift = drift]
  BY DEF Imported, Objects, ObjectsOf, Statuses
<1> HIDE DEF live, drift, located, p
<1>5. /\ p \in Objects /\ p.phase = o.phase /\ p.fin = o.fin /\ p.gen = o.gen /\ p.man = o.man
      /\ p.status.id = o.man.importId /\ p.status.exemptions = o.status.exemptions
      /\ p.status.observed = o.status.observed
  BY <1>1, <1>3, <1>4 DEF Objects, ObjectsOf, Statuses
<1> QED BY <1>5 DEF Restated, p

LEMMA BoundFacts ==
  ASSUME NEW c \in CRs, NEW o \in Objects, o.status.observed <= o.gen, Target(c, o) \in Refs
  PROVE  LET p == Bound(c, o)
         IN  /\ Restated(o, p)
             /\ p.status.id \in Ids /\ RefOf(p.status.id) = Target(c, o)
             /\ p.status.exemptions = o.status.exemptions
<1> DEFINE r == Target(c, o)
           id == [scope |-> r.scope, name |-> r.name, text |-> "canonical"]
           located == Assignment(c, o).located
           p == Bound(c, o)
<1>1. id \in Ids /\ RefOf(id) = r /\ located \in BOOLEAN
  BY DEF Refs, Ids, Texts, RefOf, Assignment
<1>2. p = [o EXCEPT !.status.id = id, !.status.located = located]
  BY DEF Bound
<1> HIDE DEF r, id, located, p
<1>3. /\ p \in Objects /\ p.phase = o.phase /\ p.fin = o.fin /\ p.gen = o.gen /\ p.man = o.man
      /\ p.status.id = id /\ p.status.exemptions = o.status.exemptions
      /\ p.status.observed = o.status.observed
  BY <1>1, <1>2 DEF Objects, ObjectsOf, Statuses
<1> QED BY <1>1, <1>3 DEF Restated, p, r

LEMMA ExemptionsFacts ==
  ASSUME NEW o \in Objects, o.status.observed <= o.gen, NEW written \in Seq(Tracked)
  PROVE  LET p == [o EXCEPT !.status.exemptions = written]
         IN  /\ Restated(o, p) /\ p.status.id = o.status.id
             /\ p.status.exemptions = written
<1> DEFINE p == [o EXCEPT !.status.exemptions = written]
<1>1. /\ p \in Objects /\ p.phase = o.phase /\ p.fin = o.fin /\ p.gen = o.gen /\ p.man = o.man
      /\ p.status.id = o.status.id /\ p.status.exemptions = written
      /\ p.status.observed = o.status.observed
  BY DEF Objects, ObjectsOf, Statuses
<1> HIDE DEF p
<1> QED BY <1>1 DEF Restated, p

\* Resolving the reference changes the definition of the spec alone.
LEMMA WithDefinitionFacts ==
  ASSUME NEW o \in Objects, Lookup(o) \in DefinitionIds
  PROVE  LET p == WithDefinition(o)
         IN  /\ p \in Objects /\ p.phase = o.phase /\ p.fin = o.fin /\ p.gen = o.gen
             /\ p.status = o.status /\ SameButDefinition(p.man, o.man)
             /\ p.man.spec.definition \in DefinitionIds
<1> DEFINE id == Lookup(o)
           p == WithDefinition(o)
<1>1. p = [o EXCEPT !.man.spec.definition = id]
  BY DEF WithDefinition
<1> HIDE DEF id, p
<1>2. id \in DefinitionIds
  BY DEF id
<1>3. /\ p \in Objects /\ p.phase = o.phase /\ p.fin = o.fin /\ p.gen = o.gen
      /\ p.status = o.status /\ SameButDefinition(p.man, o.man)
      /\ p.man.spec.definition = id
  BY <1>1, <1>2 DEF Objects, ObjectsOf, Manifests, Specs, SameButDefinition
<1> QED BY <1>2, <1>3 DEF p

-----------------------------------------------------------------------------
(* What an applied call does to Azure.                                     *)

WritesAssignment(c) ==
  /\ pc[c] = "Create" /\ Target(c, copy[c]) \in Refs
  /\ azure' = [azure EXCEPT ![Target(c, copy[c])] = Assignment(c, copy[c])]
  /\ UNCHANGED <<exempted, granted>>

\* The exemption t is written; t has the name that is known, or a new one.
Puts(c, t) ==
  /\ Head(todo).op = "PutExemption"
  /\ t.key = Head(todo).of.key /\ t.scope = Head(todo).of.scope
  /\ t.uuid \in NamesFor(copy[c], t.key)
  /\ exempted' = [exempted EXCEPT ![ExemptionId(t)] =
                    [of |-> RefOf(copy[c].status.id), key |-> t.key, by |-> c]]
  /\ UNCHANGED <<azure, granted>>

Drops(c) ==
  /\ Head(todo).op = "DropExemption"
  /\ exempted' = [exempted EXCEPT ![ExemptionId(Head(todo).of)] = None]
  /\ UNCHANGED <<azure, granted>>

Gives(c) ==
  /\ Head(todo).op = "Grant" /\ RoleFound(Head(todo).of)
  /\ granted' = granted \cup {GrantOf(copy[c], Head(todo).of)}
  /\ UNCHANGED <<azure, exempted>>

Takes(c) ==
  /\ Head(todo).op = "Revoke"
  /\ granted' = granted \ {GrantOf(copy[c], Head(todo).of)}
  /\ UNCHANGED <<azure, exempted>>

Deletes(c) ==
  /\ Head(todo).op = "DeleteAssignment"
  /\ azure' = [azure EXCEPT ![Head(todo).of] = None]
  /\ UNCHANGED <<exempted, granted>>

\* Nothing that was not there comes to be.
Shrinks ==
  /\ \A r \in Refs : azure[r] = None => azure'[r] = None
  /\ \A e \in ExemptionIds : exempted'[e] \in {exempted[e], None}
  /\ granted' \subseteq granted

-----------------------------------------------------------------------------
(* What a step does to one object.                                         *)

Reported(c) ==
  /\ pc[c] \in {"StatusUpdate", "ReportExisting"}
  /\ fresh[c] /\ Present(obj[c]) /\ Rests(c)
  /\ obj'[c].status = copy[c].status
  /\ obj'[c].phase = obj[c].phase /\ obj'[c].man = obj[c].man /\ obj'[c].gen = obj[c].gen

\* The clean-up is over.
Ended(c) == pc[c] = "RemoveFinalizer" /\ fresh[c] /\ ~Present(obj'[c])

ObjectMoves(c) ==
  Vanishes(c) \/ Ended(c) \/ Created(c, NoStatus) \/ Edited(c) \/ Reported(c)

\* While the reconcile of c waits, the service does, and Azure is left to
\* others.
Quiet ==
  /\ UNCHANGED <<service, granted>> /\ Shrinks
  /\ UNCHANGED cloud \/ portal' = portal + 1

Stays(c) == Waits(c) /\ (pc[c] # "idle" => Quiet)

Begins(c) ==
  /\ pc[c] = "idle" /\ Present(cache[c]) /\ obj'[c] = obj[c] /\ fresh'[c] = synced[c]
  /\ copy'[c].phase = cache[c].phase /\ copy'[c].gen = cache[c].gen
  /\ copy'[c].status.id = cache[c].status.id
  /\ copy'[c].status.exemptions = cache[c].status.exemptions
  /\ SameButDefinition(copy'[c].man, cache[c].man)
  /\ pc'[c] \in {"Import", "Get", "Create"} =>
       cache[c].phase = "live" /\ copy'[c].man.spec.definition \in DefinitionIds
  /\ pc'[c] = "Import" => cache[c].man.importId # None /\ ~Rebinds(cache[c])
  /\ pc'[c] \in {"Get", "Create"} => cache[c].man.importId = None
  /\ pc'[c] = "RemoveFinalizer" => cache[c].phase = "deleting" /\ cache[c].status.id = None
  /\ pc'[c] = "Service" =>
       /\ cache[c].phase = "deleting" /\ cache[c].status.id # None
       /\ copy'[c] = cache[c] /\ todo' = DeletePlan(cache[c])
  /\ pc'[c] \in {"StatusUpdate", "ReportExisting"} => copy'[c].status.ready # "Reconciled"

GoesOn(c) ==
  /\ pc[c] # "idle" /\ obj'[c] = obj[c] /\ fresh'[c] = fresh[c]
  /\ copy'[c].phase = copy[c].phase /\ copy'[c].gen = copy[c].gen
  /\ copy'[c].man = copy[c].man

\* The reconcile ends with a report, a call perhaps applied.
Reports(c) ==
  /\ GoesOn(c) /\ pc'[c] \in {"StatusUpdate", "ReportExisting"}
  /\ copy'[c].status.id = copy[c].status.id
  /\ copy'[c].status.exemptions = copy[c].status.exemptions
  /\ copy'[c].status.ready # "Reconciled"

IsFree(c) ==
  GoesOn(c) /\ pc[c] = "Get" /\ pc'[c] = "Create" /\ copy'[c] = copy[c]

Imports(c) ==
  /\ GoesOn(c) /\ pc[c] = "Import"
  /\ copy'[c].status.id = copy[c].man.importId
  /\ copy'[c].status.exemptions = copy[c].status.exemptions
  /\ pc'[c] = "Create" \/ (pc'[c] = "StatusUpdate" /\ copy'[c].status.ready # "Reconciled")

\* An exemption is yet to be written or deleted.
Exempting(rest) == \E i \in DOMAIN rest : rest[i].op \in {"PutExemption", "DropExemption"}

\* CreateOrUpdate goes on with rest, or ends.
Advances(c, o, rest, written) ==
  /\ todo' = rest
  /\ copy'[c].status.id = o.status.id
  /\ copy'[c].status.exemptions = IF Exempting(rest) THEN o.status.exemptions ELSE written
  /\ rest # <<>> => pc'[c] = "Service" /\ results' = written
  /\ rest = <<>> => /\ pc'[c] = "StatusUpdate"
                    /\ copy'[c].status.ready = "Reconciled"
                    /\ copy'[c].status.observed = copy[c].gen

Creates(c) ==
  /\ GoesOn(c) /\ WritesAssignment(c)
  /\ Advances(c, Bound(c, copy[c]), CreatePlan(Bound(c, copy[c])), <<>>)

\* The service goes on after the first call of its list.
Follows(c, written) ==
  /\ copy[c].phase = "live" => Advances(c, copy[c], Tail(todo), written)
  /\ copy[c].phase = "deleting" =>
       /\ pc'[c] = IF Tail(todo) = <<>> THEN "RemoveFinalizer" ELSE "Service"
       /\ copy'[c] = copy[c] /\ todo' = Tail(todo)

Serves(c) ==
  /\ GoesOn(c) /\ pc[c] = "Service"
  /\ \/ \E t \in Tracked : Puts(c, t) /\ Follows(c, Append(results, t))
     \/ (Drops(c) \/ Gives(c) \/ Takes(c) \/ Deletes(c)) /\ Follows(c, results)

CopyMoves(c) ==
  \/ Rests(c) \/ Stays(c) \/ Begins(c) \/ Reports(c)
  \/ IsFree(c) \/ Imports(c) \/ Creates(c) \/ Serves(c)

ObjectStep(c) == ObjectMoves(c) /\ CacheMoves(c) /\ CopyMoves(c)

ServiceTyped == todo \in Seq(Operations) /\ results \in Seq(Tracked)

LEMMA OutsideStep ==
  ASSUME NEW c \in CRs, Outside(c, NoStatus), Rests(c) \/ pc[c] = "idle" \/ Quiet
  PROVE  ObjectStep(c)
  BY DEF Outside, ObjectStep, ObjectMoves, CopyMoves, Stays

\* The reconcile of c goes on; CopyMoves says how.
LEMMA WithinStep ==
  ASSUME NEW c \in CRs, NEW call, NEW o, Within(c, call, o), CopyMoves(c)
  PROVE  ObjectStep(c)
<1>1. ObjectMoves(c) /\ CacheMoves(c)
  BY DEF Within, ObjectMoves, Edited, Vanishes, HasFinalizer, Present, CacheMoves
<1> QED BY <1>1 DEF ObjectStep

\* When the reconcile of c moves, there is no other.
LEMMA OthersStep ==
  ASSUME IInv, NEW c \in CRs, NEW d \in CRs \ {c},
         \/ \E call, o : Begin(c, call, o)
         \/ pc[c] # "idle" /\ \E call, o : Continue(c, call, o)
         \/ pc[c] # "idle" /\ \E o : Writes(c, o)
         \/ pc[c] # "idle" /\ \E requeue : Return(c, requeue) /\ UNCHANGED store
  PROVE  ObjectStep(d)
<1>1. pc[d] = "idle"
  BY DEF Begin, Dequeue, IInv, Runtime, RuntimeInv, OneWorker
<1> QED BY <1>1, OthersOutside, OutsideStep DEF IInv, Runtime

\* What a step is for the finalizer protocol, and for every object.
StepOK ==
  /\ Runtime' /\ ServiceTyped'
  /\ SafeStep \/ \E c \in CRs : StepOf(c, Owes(obj[c]))
  /\ \A c \in CRs : ObjectStep(c)

\* Nothing changes in Azure or in the service.
LEMMA StillQuiet ==
  ASSUME UNCHANGED <<cloud, service>>
  PROVE  Quiet
  BY DEF cloud, Quiet, Shrinks

LEMMA ServiceStays ==
  ASSUME IInv, UNCHANGED service
  PROVE  ServiceTyped'
  BY DEF IInv, OutsideTyped, ServiceTyped, service

LEMMA EnvironmentOK ==
  ASSUME IInv, Environment
  PROVE  StepOK
<1> USE DEF IInv, Runtime
<1>1. CASE User(NoStatus) /\ UNCHANGED <<cloud, service>>
  <2>1. NoStatus \in Statuses /\ NoStatus.id = None /\ NoStatus.observed = 0
    BY DEF NoStatus, Statuses, Reasons
  <2> QED BY <1>1, <2>1, UserStep, UserOutside, OutsideStep, StillQuiet, ServiceStays
          DEF StepOK
<1>2. CASE CrashAll
  <2>1. /\ ServiceTyped'
        /\ \A c \in CRs : Rests(c)
    BY <1>2 DEF CrashAll, Crash, Rests, ServiceTyped, Present, Absent
  <2> QED BY <1>2, <2>1, CrashStep, InformerOutside, OutsideStep DEF CrashAll, StepOK
<1>3. CASE (\E c \in CRs : Sync(c) \/ Resync(c)) /\ UNCHANGED <<cloud, service>>
  BY <1>3, SyncStep, ResyncStep, InformerOutside, OutsideStep, StillQuiet, ServiceStays
     DEF StepOK
<1>4. ASSUME UNCHANGED <<store, pc, copy, fresh, edits, faults>>, queue' \subseteq CRs,
             UNCHANGED service, Quiet
      PROVE  StepOK
  BY <1>4, QuietStep, StillOutside, OutsideStep, ServiceStays DEF store, StepOK
<1>5. queue \subseteq CRs
  BY DEF RuntimeInv, Typed, RuntimeTypeOK
<1>6. CASE \E d \in Definitions : DefinitionChanges(d) \/ WatchDefinition(d)
  BY <1>4, <1>5, <1>6, StillQuiet DEF DefinitionChanges, WatchDefinition, runtimeVars, store
<1>7. CASE Portal
  <2>1. Quiet
    BY <1>7 DEF Portal, Quiet, Shrinks, service, OutsideTyped
  <2> QED BY <1>4, <1>5, <1>7, <2>1 DEF Portal, runtimeVars, store
<1> QED BY <1>1, <1>2, <1>3, <1>6, <1>7 DEF Environment, SyncObject

-----------------------------------------------------------------------------
(* The reconcile.                                                          *)

\* A reconcile begins with what the cache shows.
LEMMA BeginOK ==
  ASSUME IInv, NEW c \in CRs, NEW call \in Calls \ {"idle"}, NEW o \in Objects,
         Begin(c, call, o), cache[c] \in Objects,
         UNCHANGED service \/ (ServiceTyped' /\ call = "Service"),
         o.phase = cache[c].phase, o.fin = cache[c].fin, o.gen = cache[c].gen,
         o.status.observed <= o.gen, o.status.id = cache[c].status.id,
         o.status.exemptions = cache[c].status.exemptions,
         SameButDefinition(o.man, cache[c].man),
         \/ call = "AddFinalizer" /\ o = cache[c] /\ o.phase = "live"
         \/ /\ call = "Service" /\ o.phase = "deleting" /\ o.fin /\ o = cache[c]
            /\ o.status.id # None /\ todo' = DeletePlan(o)
         \/ call = "RemoveFinalizer" /\ o.phase = "deleting" /\ o.fin /\ o.status.id = None
         \/ /\ call = "Import" /\ Managed(o) /\ o.man.spec.definition \in DefinitionIds
            /\ o.man.importId # None /\ ~Rebinds(cache[c])
         \/ /\ call \in {"Get", "Create"} /\ Managed(o) /\ o.man.importId = None
            /\ o.man.spec.definition \in DefinitionIds
         \/ call = "StatusUpdate" /\ Managed(o) /\ o.status.ready # "Reconciled"
  PROVE  StepOK
<1>1. Present(cache[c])
  BY DEF Objects, ObjectsOf, Present
<1>2. Runtime' /\ SafeStep
  BY <1>1, BeginStep DEF IInv, Runtime, Managed, Objects
<1>3. Within(c, call, o) /\ pc[c] = "idle" /\ fresh'[c] = synced[c]
  BY BeginWithin DEF IInv, Runtime
<1>4. Begins(c)
  BY <1>1, <1>3 DEF Within, Begins, Managed, SameButDefinition
<1>5. ObjectStep(c)
  BY <1>3, <1>4, WithinStep DEF CopyMoves
<1>6. \A d \in CRs \ {c} : ObjectStep(d)
  BY OthersStep
<1>7. ServiceTyped'
  BY ServiceStays
<1> QED BY <1>2, <1>5, <1>6, <1>7 DEF StepOK

\* The cache as a copy.
LEMMA CacheFacts ==
  ASSUME IInv, NEW c \in CRs, Present(cache[c])
  PROVE  /\ cache[c] \in Objects /\ cache[c].status.observed <= cache[c].gen
         /\ SameButDefinition(cache[c].man, cache[c].man)
  BY CopyFields
     DEF IInv, Runtime, RuntimeInv, Protocol, GenOK, Dated, Objects, SameButDefinition

LEMMA ReconcileOK ==
  ASSUME IInv, NEW c \in CRs, Reconcile(c)
  PROVE  StepOK
<1> USE DEF Calls
<1>1. UNCHANGED cloud
  BY DEF Reconcile
<1>2. CASE IgnoreGone(c)
  <2>1. ReturnAtOnce(c, FALSE) /\ UNCHANGED <<cloud, service>>
    BY <1>1, <1>2 DEF IgnoreGone
  <2>2. \A d \in CRs : ObjectStep(d)
    BY <2>1, StillOutside, OutsideStep, StillQuiet DEF ReturnAtOnce, store, IInv, Runtime
  <2> QED BY <2>1, <2>2, ReturnAtOnceStep, ServiceStays DEF IInv, Runtime, StepOK
<1>3. CASE BeginAddFinalizer(c)
  <2>1. Present(cache[c])
    BY <1>3 DEF BeginAddFinalizer, Present
  <2> QED BY <1>3, <2>1, CacheFacts, BeginOK DEF BeginAddFinalizer
<1>4. CASE HandleDeletion(c)
  <2> DEFINE o == cache[c]
  <2>1. Present(o) /\ o.phase = "deleting" /\ o.fin
    BY <1>4 DEF HandleDeletion, CleansUp, Present
  <2>2. /\ o \in Objects /\ o.status.observed <= o.gen
        /\ SameButDefinition(o.man, o.man)
    BY <2>1, CacheFacts
  <2>3. CASE o.status.id = None
    <3>1. Begin(c, "RemoveFinalizer", o) /\ UNCHANGED service
      BY <1>4, <2>3 DEF HandleDeletion
    <3> QED BY <2>1, <2>2, <2>3, <3>1, BeginOK
  <2>4. CASE o.status.id # None
    <3>1. Begin(c, "Service", o) /\ todo' = DeletePlan(o) /\ UNCHANGED results
      BY <1>4, <2>4 DEF HandleDeletion
    <3>2. ServiceTyped'
      BY <2>1, <2>2, <2>4, <3>1, DeletePlanFacts DEF ServiceTyped, IInv, OutsideTyped
    <3> QED BY <2>1, <2>2, <2>4, <3>1, <3>2, BeginOK
  <2> QED BY <2>3, <2>4
<1>5. ASSUME NEW reason \in Reasons \ {"Reconciled"}, Managed(cache[c]),
             Begin(c, "StatusUpdate", Ready(cache[c], reason)), UNCHANGED service
      PROVE  StepOK
  <2> DEFINE o == Ready(cache[c], reason)
  <2>1. Present(cache[c]) /\ Begin(c, "StatusUpdate", o)
    BY <1>5 DEF Managed, Present
  <2>2. /\ Restated(cache[c], o) /\ o.status.ready = reason
        /\ o.status.id = cache[c].status.id
        /\ o.status.exemptions = cache[c].status.exemptions
    BY <2>1, CacheFacts, ReadyFacts
  <2> HIDE DEF o
  <2> QED BY <1>5, <2>1, <2>2, CacheFacts, BeginOK DEF Restated, Managed
<1>6. CASE RejectRef(c)
  <2>1. {"RefNotFound", "RefNotReady"} \subseteq Reasons \ {"Reconciled"}
    BY DEF Reasons
  <2> QED BY <1>5, <1>6, <2>1 DEF RejectRef
<1>7. CASE RejectRebinding(c)
  <2>1. "ImportConflict" \in Reasons \ {"Reconciled"}
    BY DEF Reasons
  <2> QED BY <1>5, <1>7, <2>1 DEF RejectRebinding, Resolves
<1>8. ASSUME NEW call \in {"Import", "Get", "Create"}, Resolves(cache[c]),
             Begin(c, call, WithDefinition(cache[c])), UNCHANGED service,
             IF call = "Import" THEN cache[c].man.importId # None /\ ~Rebinds(cache[c])
             ELSE cache[c].man.importId = None
      PROVE  StepOK
  <2> DEFINE o == WithDefinition(cache[c])
  <2>1. Present(cache[c]) /\ Begin(c, call, o) /\ Managed(cache[c])
    BY <1>8 DEF Resolves, Managed, Present
  <2>2. /\ o \in Objects /\ o.phase = cache[c].phase /\ o.fin = cache[c].fin
        /\ o.gen = cache[c].gen /\ o.status = cache[c].status
        /\ SameButDefinition(o.man, cache[c].man) /\ o.man.spec.definition \in DefinitionIds
    BY <1>8, <2>1, CacheFacts, WithDefinitionFacts DEF Resolves
  <2> HIDE DEF o
  <2> QED BY <1>8, <2>1, <2>2, CacheFacts, BeginOK DEF Managed, SameButDefinition
<1>9. CASE BeginImport(c)
  BY <1>8, <1>9 DEF BeginImport
<1>10. CASE BeginReconcileCreateOrUpdate(c)
  BY <1>8, <1>10 DEF BeginReconcileCreateOrUpdate
<1> QED BY <1>2, <1>3, <1>4, <1>6, <1>7, <1>9, <1>10 DEF Reconcile

\* A reconcile goes on with a copy whose status alone has changed.
LEMMA ContinueOK ==
  ASSUME IInv, NEW c \in CRs,
         NEW call \in {"RemoveFinalizer", "StatusUpdate", "ReportExisting", "Create", "Service"},
         NEW o, Restated(copy[c], o), Continue(c, call, o), Fault \/ UNCHANGED faults,
         pc[c] \notin {"idle", "AddFinalizer"}, ServiceTyped',
         /\ pc'[c] = call /\ copy'[c] = o /\ GoesOn(c)
         => Reports(c) \/ IsFree(c) \/ Imports(c) \/ Creates(c) \/ Serves(c)
  PROVE  StepOK
<1>1. call \in Calls \ {"idle", "AddFinalizer"}
  BY DEF Calls
<1>2. Runtime' /\ SafeStep
  BY <1>1, ContinueStep DEF IInv, Runtime, Restated, Objects
<1>3. Within(c, call, o) /\ fresh'[c] = fresh[c]
  BY ContinueWithin DEF IInv, Runtime
<1>4. GoesOn(c)
  BY <1>3 DEF Within, GoesOn, Restated
<1>5. ObjectStep(c)
  BY <1>3, <1>4, WithinStep DEF Within, CopyMoves
<1>6. \A d \in CRs \ {c} : ObjectStep(d)
  BY OthersStep
<1> QED BY <1>2, <1>5, <1>6 DEF StepOK

\* A reconcile ends without a write.
LEMMA ReturnOK ==
  ASSUME IInv, NEW c \in CRs, Return(c, TRUE), UNCHANGED store, Fault \/ UNCHANGED faults,
         pc[c] # "idle", UNCHANGED service
  PROVE  StepOK
<1>1. Runtime' /\ SafeStep
  BY ReturnStep DEF IInv, Runtime
<1>2. Within(c, "idle", Absent) /\ Rests(c)
  BY DEF Return, store, Within, Rests, Present, Absent, IInv, Runtime, RuntimeInv, Typed,
         RuntimeTypeOK
<1>3. ObjectStep(c)
  BY <1>2, WithinStep DEF CopyMoves
<1>4. \A d \in CRs \ {c} : ObjectStep(d)
  BY OthersStep
<1> QED BY <1>1, <1>3, <1>4, ServiceStays DEF StepOK

\* The write that ends a reconcile.
LEMMA WriteOK ==
  ASSUME IInv, NEW c \in CRs, NEW o, Writes(c, o), Runtime', pc[c] # "idle",
         UNCHANGED service,
         SafeStep \/ StepOf(c, Owes(obj[c])),
         fresh[c] /\ obj'[c] = o /\ Rests(c) => ObjectMoves(c)
  PROVE  StepOK
<1>1. /\ Rests(c) /\ cache'[c] = cache[c]
      /\ (fresh[c] /\ obj'[c] = o) \/ obj'[c] = obj[c]
  BY WriteMoves DEF IInv, Runtime
<1>2. obj'[c] = obj[c] => ObjectMoves(c)
  BY DEF ObjectMoves, Edited, Vanishes, HasFinalizer, Present
<1>3. ObjectStep(c)
  BY <1>1, <1>2 DEF ObjectStep, CacheMoves, CopyMoves
<1>4. \A d \in CRs \ {c} : ObjectStep(d)
  BY OthersStep
<1> QED BY <1>3, <1>4, ServiceStays DEF StepOK

\* What is known when c makes a call.
LEMMA CallFacts ==
  ASSUME IInv, NEW c \in CRs, pc[c] # "idle"
  PROVE  /\ LocalInv(c) /\ Protocol(c)
         /\ copy[c] \in Objects /\ copy[c].status.observed <= copy[c].gen
         /\ (Present(obj[c]) => obj[c] \in Objects)
         /\ Restated(copy[c], copy[c])
  BY CopyFields DEF IInv, Runtime, RuntimeInv, Objects, Protocol, GenOK, Dated, Restated

\* What an object owes is what its clean-up deletes.
LEMMA OwesPlan ==
  ASSUME IInv, NEW c \in CRs, pc[c] = "RemoveFinalizer", fresh[c]
  PROVE  ~Owes(obj[c])
<1> DEFINE o == copy[c]
           p == obj[c]
<1>1. /\ LocalInv(c) /\ Protocol(c) /\ o \in Objects /\ o.phase = "deleting"
  BY CallFacts DEF LocalInv, CallOK
<1>2. /\ o.status.id = p.status.id /\ o.status.exemptions = p.status.exemptions
      /\ o.man.spec.permissions = p.man.spec.permissions
      /\ o.man.spec.scope = p.man.spec.scope
  BY <1>1 DEF LocalInv, CopyAgrees, SameButDefinition
<1> SUFFICES ASSUME portal = 0, HasId(p), DeleteRef(p) = RefOf(p.status.id)
             PROVE  /\ azure[RefOf(p.status.id)] = None
                    /\ \A i \in DOMAIN p.status.exemptions :
                         exempted[ExemptionId(p.status.exemptions[i])] = None
                    /\ \A i \in DOMAIN p.man.spec.permissions :
                         GrantOf(p, p.man.spec.permissions[i]) \notin granted
  BY DEF Owes
<1>3. o.status.id # None
  BY <1>2 DEF HasId
<1>4. \A x \in Operations : In(x, DeletePlan(o)) => Deleted(o, x)
  BY <1>1, <1>3 DEF LocalInv, CleansAll
<1>5. ASSUME NEW i \in DOMAIN o.status.exemptions
      PROVE  exempted[ExemptionId(o.status.exemptions[i])] = None
  <2> DEFINE x == [op |-> "DropExemption", of |-> o.status.exemptions[i]]
  <2>1. x \in Operations /\ In(x, DeletePlan(o))
    BY <1>1, <1>3, DeletePlanFacts
  <2>2. Deleted(o, x)
    BY <1>4, <2>1
  <2> QED BY <2>2 DEF Deleted
<1>6. ASSUME NEW i \in DOMAIN o.man.spec.permissions
      PROVE  GrantOf(o, o.man.spec.permissions[i]) \notin granted
  <2> DEFINE x == [op |-> "Revoke", of |-> o.man.spec.permissions[i]]
  <2>1. x \in Operations /\ In(x, DeletePlan(o))
    BY <1>1, <1>3, DeletePlanFacts
  <2>2. Deleted(o, x)
    BY <1>4, <2>1
  <2> QED BY <2>2 DEF Deleted
<1>7. azure[DeleteRef(o)] = None
  <2> DEFINE x == [op |-> "DeleteAssignment", of |-> DeleteRef(o)]
  <2>1. x \in Operations /\ In(x, DeletePlan(o))
    BY <1>1, <1>3, DeletePlanFacts
  <2>2. Deleted(o, x)
    BY <1>4, <2>1
  <2> QED BY <2>2 DEF Deleted
<1> QED BY <1>2, <1>5, <1>6, <1>7 DEF DeleteRef, GrantOf

LEMMA WritesOK ==
  ASSUME IInv, NEW c \in CRs,
         AddFinalizer(c) \/ RemoveFinalizer(c) \/ StatusUpdate(c) \/ ReportExisting(c)
  PROVE  StepOK
<1> DEFINE o == copy[c]
<1>1. /\ LocalInv(c) /\ Protocol(c) /\ o \in Objects /\ o.status.observed <= o.gen
      /\ (Present(obj[c]) => obj[c] \in Objects)
  BY CallFacts DEF AddFinalizer, RemoveFinalizer, StatusUpdate, ReportExisting
<1>2. CASE AddFinalizer(c)
  <2> DEFINE p == [o EXCEPT !.fin = TRUE]
  <2>1. Writes(c, p) /\ pc[c] = "AddFinalizer" /\ UNCHANGED service
    BY <1>2 DEF AddFinalizer, Writes
  <2>2. Runtime' /\ SafeStep
    BY <2>1, AddFinalizerStep DEF IInv, Runtime
  <2>3. /\ p.man = o.man /\ p.status = o.status /\ p.gen = o.gen /\ p.phase = o.phase
    BY <1>1, <2>1 DEF Objects, ObjectsOf
  <2>4. fresh[c] => o = obj[c] /\ Present(obj[c])
    BY <1>1, <2>1 DEF Protocol, FlagsOK
  <2> HIDE DEF p
  <2>5. fresh[c] /\ obj'[c] = p => ObjectMoves(c)
    BY <2>3, <2>4 DEF ObjectMoves, Edited
  <2> QED BY <2>1, <2>2, <2>5, WriteOK
<1>3. CASE RemoveFinalizer(c)
  <2>1. Writes(c, Absent) /\ pc[c] = "RemoveFinalizer" /\ UNCHANGED service
    BY <1>3 DEF RemoveFinalizer, Writes
  <2>2. Work(pc[c], o) = "clean"
    BY <1>1, <2>1 DEF LocalInv, CallOK, Work
  <2>3. fresh[c] => ~Owes(obj[c])
    BY <2>1, OwesPlan
  <2>4. Runtime' /\ (SafeStep \/ StepOf(c, Owes(obj[c])))
    BY <2>1, <2>2, <2>3, RemoveFinalizerStep DEF IInv, Runtime
  <2>5. fresh[c] /\ obj'[c] = Absent => ObjectMoves(c)
    BY <2>1 DEF ObjectMoves, Ended, Present, Absent
  <2> QED BY <2>1, <2>4, <2>5, WriteOK
<1>4. CASE StatusUpdate(c) \/ ReportExisting(c)
  <2> DEFINE p == [obj[c] EXCEPT !.status = o.status]
  <2>1. /\ Writes(c, p) /\ pc[c] \in {"StatusUpdate", "ReportExisting"}
        /\ UNCHANGED service
    BY <1>4 DEF StatusUpdate, ReportExisting, Writes
  <2>2. ASSUME fresh[c]
        PROVE  /\ p \in Objects /\ p.phase = obj[c].phase /\ p.fin = obj[c].fin
               /\ p.gen = obj[c].gen /\ p.man = obj[c].man /\ p.status = o.status
               /\ o.gen = obj[c].gen /\ Present(obj[c])
    BY <1>1, <2>1, <2>2 DEF Protocol, FlagsOK, Objects, ObjectsOf
  <2>3. fresh[c] => /\ HasId(obj[c]) => o.status.id # None
                    /\ o.phase = "deleting" => o.status.id = obj[c].status.id
    BY <1>1, <2>1 DEF LocalInv, CopyAgrees, HasId
  <2> HIDE DEF p
  <2>4. fresh[c] => /\ HasId(obj[c]) => HasId(p)
                    /\ o.phase = "deleting" => HasId(p) = HasId(obj[c])
    BY <2>2, <2>3 DEF HasId, Present
  <2>5. Runtime' /\ SafeStep
    BY <1>1, <2>1, <2>2, <2>4, StatusStep DEF IInv, Runtime, Objects
  <2>6. fresh[c] /\ obj'[c] = p /\ Rests(c) => ObjectMoves(c)
    BY <2>1, <2>2 DEF ObjectMoves, Reported
  <2> QED BY <2>1, <2>5, <2>6, WriteOK
<1> QED BY <1>2, <1>3, <1>4

\* A call ends the reconcile with a report.
LEMMA ReportOK ==
  ASSUME IInv, NEW c \in CRs, pc[c] \in {"Import", "Get", "Create", "Service"},
         NEW call \in {"StatusUpdate", "ReportExisting"},
         NEW reason \in Reasons \ {"Reconciled"},
         Continue(c, call, Ready(copy[c], reason)), Fault \/ UNCHANGED faults,
         ServiceTyped'
  PROVE  StepOK
<1> DEFINE p == Ready(copy[c], reason)
<1>1. /\ Restated(copy[c], p) /\ p.status.id = copy[c].status.id
      /\ p.status.exemptions = copy[c].status.exemptions /\ p.status.ready # "Reconciled"
  BY CallFacts, ReadyFacts
<1>2. pc'[c] = call /\ copy'[c] = p /\ GoesOn(c) => Reports(c)
  BY <1>1 DEF Reports
<1>3. Continue(c, call, p)
  OBVIOUS
<1> HIDE DEF p
<1> QED BY <1>1, <1>2, <1>3, ContinueOK

LEMMA EmptyService ==
  ASSUME todo' = <<>>, results' = <<>>
  PROVE  ServiceTyped'
  BY DEF ServiceTyped

\* CreateOrUpdate goes on after a call, or reports Reconciled.
LEMMA AdvanceOK ==
  ASSUME IInv, NEW c \in CRs, pc[c] \in {"Create", "Service"},
         NEW o, Restated(copy[c], o), NEW rest \in Seq(Operations),
         NEW written \in Seq(Tracked), Advance(c, o, rest, written), UNCHANGED faults,
         GoesOn(c) /\ Advances(c, o, rest, written) => Creates(c) \/ Serves(c)
  PROVE  StepOK
<1> DEFINE p == IF Exempting(rest) THEN o ELSE [o EXCEPT !.status.exemptions = written]
           q == Ready(p, "Reconciled")
<1>1. /\ Restated(o, p) /\ p.status.id = o.status.id
      /\ p.status.exemptions = IF Exempting(rest) THEN o.status.exemptions ELSE written
  <2>1. o \in Objects /\ o.status.observed <= o.gen /\ Restated(o, o)
    BY DEF Restated
  <2>2. CASE Exempting(rest)
    BY <2>1, <2>2
  <2>3. CASE ~Exempting(rest)
    BY <2>1, <2>3, ExemptionsFacts
  <2> QED BY <2>2, <2>3
<1>2. /\ rest = <<>> => GoTo(c, "StatusUpdate", q, <<>>, <<>>)
      /\ rest # <<>> => GoTo(c, "Service", p, rest, written)
  BY DEF Advance, Exempting
<1> HIDE DEF p
<1>3. /\ Restated(p, q) /\ q.status.id = p.status.id
      /\ q.status.exemptions = p.status.exemptions
      /\ q.status.ready = "Reconciled" /\ q.status.observed = p.gen
  BY <1>1, ReadyFacts DEF Restated, Reasons
<1> HIDE DEF q
<1>4. Restated(copy[c], p) /\ Restated(copy[c], q) /\ p.gen = copy[c].gen
  BY <1>1, <1>3 DEF Restated
<1>5. CASE rest = <<>>
  <2>1. /\ Continue(c, "StatusUpdate", q) /\ todo' = rest /\ ServiceTyped'
    BY <1>2, <1>5, EmptyService DEF GoTo
  <2>2. pc'[c] = "StatusUpdate" /\ copy'[c] = q => Advances(c, o, rest, written)
    BY <1>1, <1>3, <1>4, <1>5, <2>1 DEF Advances
  <2> QED BY <1>4, <2>1, <2>2, ContinueOK
<1>6. CASE rest # <<>>
  <2>1. /\ Continue(c, "Service", p) /\ todo' = rest /\ results' = written /\ ServiceTyped'
    BY <1>2, <1>6 DEF GoTo, ServiceTyped
  <2>2. pc'[c] = "Service" /\ copy'[c] = p => Advances(c, o, rest, written)
    BY <1>1, <1>6, <2>1 DEF Advances
  <2> QED BY <1>4, <2>1, <2>2, ContinueOK
<1> QED BY <1>5, <1>6

\* What is known when the service makes a call.
LEMMA ServiceFacts ==
  ASSUME IInv, NEW c \in CRs, pc[c] = "Service"
  PROVE  /\ copy[c] \in Objects /\ copy[c].status.id \in Ids /\ todo # <<>>
         /\ Head(todo) \in Operations /\ In(Head(todo), todo)
         /\ Head(todo).op \in CallsFor(copy[c])
         /\ Tail(todo) \in Seq(Operations)
         /\ \A x : In(x, todo) <=> x = Head(todo) \/ In(x, Tail(todo))
<1>1. /\ LocalInv(c) /\ copy[c] \in Objects
  BY CallFacts
<1>2. /\ todo # <<>> /\ copy[c].status.id # None
      /\ \A x \in Operations : In(x, todo) => x.op \in CallsFor(copy[c])
  BY <1>1 DEF LocalInv, CallOK
<1>3. todo \in Seq(Operations)
  BY DEF IInv, OutsideTyped
<1>4. Head(todo) \in Operations /\ Tail(todo) \in Seq(Operations)
  BY <1>2, <1>3, HeadTailProperties
<1>5. \A x : In(x, todo) <=> x = Head(todo) \/ In(x, Tail(todo))
  BY <1>2, <1>3, InTail
<1>6. copy[c].status.id \in Ids
  BY <1>1, <1>2 DEF Objects, ObjectsOf, Statuses
<1> QED BY <1>1, <1>2, <1>4, <1>5, <1>6

\* The service goes on after a call.
LEMMA StepDoneOK ==
  ASSUME IInv, NEW c \in CRs, pc[c] = "Service", NEW written \in Seq(Tracked),
         StepDone(c, written), UNCHANGED faults,
         GoesOn(c) /\ Follows(c, written) => Serves(c)
  PROVE  StepOK
<1> DEFINE rest == Tail(todo)
           call == IF rest = <<>> THEN "RemoveFinalizer" ELSE "Service"
<1>1. /\ rest \in Seq(Operations) /\ copy[c] \in Objects /\ Restated(copy[c], copy[c])
  BY ServiceFacts, CallFacts
<1>2. CASE copy[c].phase = "live"
  <2>1. Advance(c, copy[c], rest, written)
    BY <1>2 DEF StepDone
  <2>2. Advances(c, copy[c], rest, written) => Follows(c, written)
    BY <1>2 DEF Follows
  <2> QED BY <1>1, <2>1, <2>2, AdvanceOK
<1>3. CASE copy[c].phase = "deleting"
  <2>1. /\ Continue(c, call, copy[c]) /\ todo' = rest /\ results' = <<>>
    BY <1>3 DEF StepDone, GoTo
  <2>2. ServiceTyped'
    BY <1>1, <2>1 DEF ServiceTyped
  <2>3. pc'[c] = call /\ copy'[c] = copy[c] => Follows(c, written)
    BY <1>3, <2>1 DEF Follows
  <2> QED BY <1>1, <2>1, <2>2, <2>3, ContinueOK
<1> QED BY <1>1, <1>2, <1>3 DEF Objects, ObjectsOf

\* The service ends with its error.
LEMMA StepFailedOK ==
  ASSUME IInv, NEW c \in CRs, pc[c] = "Service", StepFailed(c), Fault \/ UNCHANGED faults
  PROVE  StepOK
<1>1. PICK reason \in {"ReconcileFailed", "DeleteFailed"} :
        GoTo(c, "StatusUpdate", Ready(copy[c], reason), <<>>, <<>>)
  BY DEF StepFailed
<1>2. reason \in Reasons \ {"Reconciled"} /\ ServiceTyped'
      /\ Continue(c, "StatusUpdate", Ready(copy[c], reason))
  BY <1>1, EmptyService DEF Reasons, GoTo
<1> QED BY <1>2, ReportOK

LEMMA NamesForFacts ==
  ASSUME NEW o \in Objects, NEW key
  PROVE  /\ NamesFor(o, key) \subseteq Uuids
         /\ Known(o, key) # {} =>
              \E i \in Known(o, key) : NamesFor(o, key) = {o.status.exemptions[i].uuid}
         /\ Known(o, key) = {} => NamesFor(o, key) \subseteq NewUuids
<1> DEFINE s == o.status.exemptions
           known == Known(o, key)
<1>1. s \in Seq(Tracked)
  BY DEF Objects, ObjectsOf, Statuses
<1>2. DOMAIN s = 1..Len(s) /\ Len(s) \in Nat /\ \A i \in DOMAIN s : s[i].uuid \in Uuids
  <2> HIDE DEF s
  <2>1. DOMAIN s = 1..Len(s) /\ Len(s) \in Nat /\ \A i \in DOMAIN s : s[i] \in Tracked
    BY <1>1, LenProperties, ElementOfSeq
  <2> QED BY <2>1 DEF Tracked
<1>3. CASE known # {}
  <2>1. known \in SUBSET (1..Len(s))
    BY <1>2 DEF Known
  <2> HIDE DEF known
  <2>2. Max(known) \in known
    BY <1>2, <1>3, <2>1, MaxOf
  <2>3. NamesFor(o, key) = {s[Max(known)].uuid}
    BY <1>3 DEF NamesFor, known
  <2> QED BY <1>2, <1>3, <2>1, <2>2, <2>3 DEF known
<1>4. CASE known = {}
  <2>1. NamesFor(o, key) = {} \/ \E u \in NewUuids : NamesFor(o, key) = {u}
    BY <1>4 DEF NamesFor
  <2> QED BY <1>4, <2>1 DEF NewUuids
<1> QED BY <1>3, <1>4

LEMMA ServiceCallsOK ==
  ASSUME IInv, NEW c \in CRs,
         \/ PutExemption(c) \/ DropExemption(c) \/ Grant(c) \/ Revoke(c)
         \/ DeleteAssignment(c)
  PROVE  StepOK
<1> DEFINE h == Head(todo)
<1>1. pc[c] = "Service"
  BY DEF PutExemption, DropExemption, Grant, Revoke, DeleteAssignment, Doing
<1>2. copy[c] \in Objects /\ h \in Operations /\ results \in Seq(Tracked)
  BY <1>1, ServiceFacts DEF IInv, OutsideTyped
<1>3. ASSUME StepFailed(c), Fault \/ UNCHANGED faults
      PROVE  StepOK
  BY <1>1, <1>3, StepFailedOK
<1>4. ASSUME Drops(c) \/ Gives(c) \/ Takes(c) \/ Deletes(c),
             StepDone(c, results), UNCHANGED faults
      PROVE  StepOK
  <2>1. GoesOn(c) /\ Follows(c, results) => Serves(c)
    BY <1>1, <1>4 DEF Serves
  <2> QED BY <1>1, <1>2, <1>4, <2>1, StepDoneOK
<1>5. CASE PutExemption(c)
  <2> DEFINE t(u) == [key |-> h.of.key, scope |-> h.of.scope, uuid |-> u]
  <2>1. h.op = "PutExemption"
    BY <1>5 DEF PutExemption, Doing
  <2>2. ASSUME NEW u \in NamesFor(copy[c], h.of.key), Puts(c, t(u)),
               StepDone(c, Append(results, t(u))), UNCHANGED faults
        PROVE  StepOK
    <3>1. t(u) \in Tracked
      BY <1>2, <2>1, <2>2, NamesForFacts DEF Operations, Entries, Tracked
    <3>2. StepDone(c, Append(results, t(u))) /\ Puts(c, t(u))
      BY <2>2
    <3> HIDE DEF t
    <3>3. Append(results, t(u)) \in Seq(Tracked)
      BY <1>2, <3>1, AppendProperties
    <3>4. GoesOn(c) /\ Follows(c, Append(results, t(u))) => Serves(c)
      BY <1>1, <3>1, <3>2 DEF Serves
    <3> QED BY <1>1, <2>2, <3>2, <3>3, <3>4, StepDoneOK
  <2>3. \/ \E u \in NamesFor(copy[c], h.of.key) :
             Puts(c, t(u)) /\ StepDone(c, Append(results, t(u))) /\ UNCHANGED faults
        \/ StepFailed(c) /\ (Fault \/ UNCHANGED faults)
    BY <1>5 DEF PutExemption, Doing, Puts
  <2> QED BY <1>3, <2>2, <2>3
<1>6. CASE DropExemption(c)
  BY <1>3, <1>4, <1>6 DEF DropExemption, Doing, Drops
<1>7. CASE Grant(c)
  BY <1>3, <1>4, <1>7 DEF Grant, Doing, Gives
<1>8. CASE Revoke(c)
  BY <1>3, <1>4, <1>8 DEF Revoke, Doing, Takes
<1>9. CASE DeleteAssignment(c)
  BY <1>3, <1>4, <1>9 DEF DeleteAssignment, Doing, Deletes
<1> QED BY <1>5, <1>6, <1>7, <1>8, <1>9

LEMMA AzureCallsOK ==
  ASSUME IInv, NEW c \in CRs, Import(c) \/ Get(c) \/ Create(c)
  PROVE  StepOK
<1> DEFINE o == copy[c]
<1>1. /\ LocalInv(c) /\ o \in Objects /\ o.status.observed <= o.gen /\ Restated(o, o)
  BY CallFacts DEF Import, Get, Create
<1>2. {"ImportFailed", "AlreadyExists", "ReconcileFailed", "ObservedOnly"}
        \subseteq Reasons \ {"Reconciled"}
  BY DEF Reasons
<1>3. CASE Import(c)
  <2> DEFINE p == Imported(o)
             q == Ready(p, "ObservedOnly")
  <2>1. /\ pc[c] = "Import" /\ o.man.importId # None /\ ServiceTyped'
        /\ \/ /\ azure[RefOf(o.man.importId)] # None /\ UNCHANGED faults
              /\ Continue(c, "StatusUpdate", q) \/ Continue(c, "Create", p)
           \/ /\ Continue(c, "StatusUpdate", Ready(o, "ImportFailed"))
              /\ Fault \/ UNCHANGED faults
    BY <1>1, <1>3, ServiceStays DEF Import, LocalInv, CallOK
  <2>2. azure[RefOf(o.man.importId)] # None =>
          /\ Restated(o, p) /\ p.status.id = o.man.importId
          /\ p.status.exemptions = o.status.exemptions
    BY <1>1, <2>1, ImportedFacts
  <2>3. Restated(o, p) =>
          /\ Restated(o, q) /\ q.status.id = p.status.id
          /\ q.status.exemptions = p.status.exemptions /\ q.status.ready = "ObservedOnly"
    BY ReadyFacts DEF Restated, Reasons
  <2> HIDE DEF p, q
  <2>4. ASSUME azure[RefOf(o.man.importId)] # None, UNCHANGED faults,
               Continue(c, "StatusUpdate", q)
        PROVE  StepOK
    <3>1. pc'[c] = "StatusUpdate" /\ copy'[c] = q /\ GoesOn(c) => Imports(c)
      BY <2>1, <2>2, <2>3, <2>4 DEF Imports
    <3> QED BY <2>1, <2>2, <2>3, <2>4, <3>1, ContinueOK
  <2>5. ASSUME azure[RefOf(o.man.importId)] # None, UNCHANGED faults,
               Continue(c, "Create", p)
        PROVE  StepOK
    <3>1. pc'[c] = "Create" /\ copy'[c] = p /\ GoesOn(c) => Imports(c)
      BY <2>1, <2>2, <2>5 DEF Imports
    <3> QED BY <2>1, <2>2, <2>5, <3>1, ContinueOK
  <2> QED BY <1>2, <2>1, <2>4, <2>5, ReportOK
<1>4. CASE Get(c)
  <2>1. pc[c] = "Get" /\ UNCHANGED service /\ ServiceTyped'
    BY <1>4, ServiceStays DEF Get
  <2>2. ASSUME Continue(c, "Create", o), Fault \/ UNCHANGED faults
        PROVE  StepOK
    <3>1. pc'[c] = "Create" /\ copy'[c] = o /\ GoesOn(c) => IsFree(c)
      BY <2>1 DEF IsFree
    <3> QED BY <1>1, <2>1, <2>2, <3>1, ContinueOK
  <2>3. \/ /\ Continue(c, "ReportExisting", Ready(o, "AlreadyExists"))
           /\ UNCHANGED faults
        \/ Continue(c, "Create", o) /\ (Fault \/ UNCHANGED faults)
        \/ Return(c, TRUE) /\ UNCHANGED store /\ (Fault \/ UNCHANGED faults)
    BY <1>4 DEF Get
  <2> QED BY <1>2, <2>1, <2>2, <2>3, ReportOK, ReturnOK
<1>5. CASE Create(c)
  <2> DEFINE p == Bound(c, o)
  <2>1. pc[c] = "Create" /\ o.phase = "live"
    BY <1>1, <1>5 DEF Create, LocalInv, CallOK
  <2>2. ASSUME WritesAssignment(c), Advance(c, p, CreatePlan(p), <<>>), UNCHANGED faults
        PROVE  StepOK
    <3>1. Restated(o, p)
      BY <1>1, <2>2, BoundFacts DEF WritesAssignment
    <3>2. Advance(c, p, CreatePlan(p), <<>>)
      BY <2>2
    <3>3. Advances(c, p, CreatePlan(p), <<>>) /\ GoesOn(c) => Creates(c)
      BY <2>2 DEF Creates
    <3> HIDE DEF p
    <3>4. CreatePlan(p) \in Seq(Operations) /\ <<>> \in Seq(Tracked)
      BY <2>1, <3>1, CreatePlanFacts DEF Restated
    <3> QED BY <2>1, <2>2, <3>1, <3>2, <3>3, <3>4, AdvanceOK
  <2>3. \/ WritesAssignment(c) /\ Advance(c, p, CreatePlan(p), <<>>) /\ UNCHANGED faults
        \/ /\ GoTo(c, "StatusUpdate", Ready(o, "ReconcileFailed"), <<>>, <<>>)
           /\ Fault \/ UNCHANGED faults
    BY <1>5 DEF Create, WritesAssignment
  <2>4. ASSUME GoTo(c, "StatusUpdate", Ready(o, "ReconcileFailed"), <<>>, <<>>),
               Fault \/ UNCHANGED faults
        PROVE  StepOK
    BY <1>2, <2>1, <2>4, EmptyService, ReportOK DEF GoTo
  <2> QED BY <2>2, <2>3, <2>4
<1> QED BY <1>3, <1>4, <1>5

LEMMA NextOK ==
  ASSUME IInv, [Next]_vars
  PROVE  StepOK
<1>1. CASE UNCHANGED vars
  <2>1. queue' \subseteq CRs /\ Quiet /\ ServiceTyped'
    BY <1>1, StillQuiet, ServiceStays
       DEF vars, runtimeVars, IInv, Runtime, RuntimeInv, Typed, RuntimeTypeOK
  <2> QED BY <1>1, <2>1, QuietStep, StillOutside, OutsideStep
          DEF vars, runtimeVars, store, IInv, Runtime, StepOK
<1>2. ASSUME NEW c \in CRs, Call(c)
      PROVE  StepOK
  BY <1>2, WritesOK, ServiceCallsOK, AzureCallsOK DEF Call
<1> QED BY <1>1, <1>2, EnvironmentOK, ReconcileOK DEF Next

-----------------------------------------------------------------------------
(* What a step does to Azure and to the definitions.                       *)

\* A call of c that is applied.
Touches(c) ==
  /\ UNCHANGED others
  /\ \/ WritesAssignment(c)
     \/ /\ pc[c] = "Service"
        /\ (\E t \in Tracked : Puts(c, t)) \/ Drops(c) \/ Gives(c) \/ Takes(c) \/ Deletes(c)

CloudMoves ==
  \/ UNCHANGED cloud
  \/ portal' = portal + 1 /\ Shrinks /\ UNCHANGED granted
  \/ \E c \in CRs : Touches(c)

CloudTyped ==
  /\ azure \in [Refs -> Resources \cup {None}]
  /\ exempted \in [ExemptionIds -> Exemptions \cup {None}]
  /\ granted \subseteq Grants

\* An applied call leaves the types.
LEMMA TouchTyped ==
  ASSUME IInv, NEW c \in CRs, Touches(c)
  PROVE  CloudTyped'
<1> USE DEF IInv, OutsideTyped, CloudTyped
<1> DEFINE o == copy[c]
           h == Head(todo)
<1>1. CASE WritesAssignment(c)
  <2>1. o \in Objects /\ o.man.spec.definition \in DefinitionIds
    BY <1>1, CallFacts DEF WritesAssignment, LocalInv, CallOK
  <2>2. Assignment(c, o) \in Resources
    BY <2>1, AssignmentFacts
  <2> QED BY <1>1, <2>2 DEF WritesAssignment
<1>2. CASE pc[c] = "Service"
  <2>1. h \in Operations /\ o.status.id \in Ids
    BY <1>2, ServiceFacts
  <2>2. ASSUME NEW t \in Tracked, Puts(c, t)
        PROVE  CloudTyped'
    <3>1. [of |-> RefOf(o.status.id), key |-> t.key, by |-> c] \in Exemptions
      BY <2>1 DEF Exemptions, RefOf, Refs, Ids, Tracked
    <3> HIDE DEF o
    <3> QED BY <2>2, <3>1 DEF Puts, o
  <2>3. CASE Drops(c)
    BY <2>3 DEF Drops
  <2>4. CASE Gives(c)
    <3>1. h.of \in Permissions
      BY <2>1, <2>4 DEF Gives, Operations
    <3>2. GrantOf(o, h.of) \in Grants
      BY <2>1, <2>4, <3>1 DEF Gives, RoleFound, GrantOf, Grants
    <3> QED BY <2>4, <3>2 DEF Gives
  <2>5. CASE Takes(c)
    BY <2>5 DEF Takes
  <2>6. CASE Deletes(c)
    BY <2>6 DEF Deletes
  <2>7. WritesAssignment(c) => FALSE
    BY <1>2 DEF WritesAssignment
  <2> QED BY <2>2, <2>3, <2>4, <2>5, <2>6, <2>7 DEF Touches
<1> QED BY <1>1, <1>2 DEF Touches

LEMMA PortalTyped ==
  ASSUME IInv, Portal
  PROVE  /\ CloudTyped' /\ Shrinks /\ UNCHANGED granted
         /\ portal' = portal + 1 /\ portal' \in 0..MaxOutside
         /\ roles' \in [Permissions -> RoleIds \cup {None}]
<1> USE DEF IInv, OutsideTyped
<1>1. UNCHANGED granted /\ portal' = portal + 1
  BY DEF Portal
<1>2. portal' \in 0..MaxOutside
  BY <1>1, ConstantsAssumption DEF Portal
<1>3. roles' \in [Permissions -> RoleIds \cup {None}]
  BY DEF Portal
<1>4. CASE /\ \E r \in Refs :
                /\ azure[r] # None
                /\ \E a \in {None} \cup {[azure[r] EXCEPT !.body = b] : b \in Bodies} :
                     azure' = [azure EXCEPT ![r] = a]
           /\ UNCHANGED exempted
  <2>1. PICK r \in Refs : /\ azure[r] # None
                          /\ \E a \in {None} \cup {[azure[r] EXCEPT !.body = b] : b \in Bodies} :
                               azure' = [azure EXCEPT ![r] = a]
    BY <1>4
  <2>2. azure[r] \in Resources
    BY <2>1
  <2>3. \A b \in Bodies : [azure[r] EXCEPT !.body = b] \in Resources
    BY <2>2 DEF Resources
  <2>4. PICK a \in Resources \cup {None} : azure' = [azure EXCEPT ![r] = a]
    BY <2>1, <2>3
  <2> QED BY <1>1, <1>2, <1>3, <1>4, <2>1, <2>4 DEF CloudTyped, Shrinks
<1>5. CASE /\ \E e \in ExemptionIds : exempted' = [exempted EXCEPT ![e] = None]
           /\ UNCHANGED azure
  BY <1>1, <1>2, <1>3, <1>5 DEF CloudTyped, Shrinks
<1>6. CASE UNCHANGED <<azure, exempted>>
  BY <1>1, <1>2, <1>3, <1>6 DEF CloudTyped, Shrinks
<1> QED BY <1>1, <1>2, <1>3, <1>4, <1>5, <1>6 DEF Portal

LEMMA CallMoves ==
  ASSUME IInv, NEW c \in CRs, Call(c)
  PROVE  UNCHANGED cloud \/ Touches(c)
<1> DEFINE h == Head(todo)
<1>1. UNCHANGED others
  BY DEF Call
<1>2. CASE AddFinalizer(c) \/ RemoveFinalizer(c) \/ Import(c) \/ Get(c) \/ StatusUpdate(c)
           \/ ReportExisting(c)
  BY <1>2 DEF AddFinalizer, RemoveFinalizer, Import, Get, StatusUpdate, ReportExisting
<1>3. CASE Create(c)
  BY <1>1, <1>3 DEF Create, Touches, WritesAssignment, cloud
<1>4. CASE PutExemption(c)
  <2> DEFINE t(u) == [key |-> h.of.key, scope |-> h.of.scope, uuid |-> u]
  <2>1. /\ copy[c] \in Objects /\ h \in Operations
        /\ pc[c] = "Service" /\ h.op = "PutExemption"
    BY <1>4, ServiceFacts DEF PutExemption, Doing
  <2>2. \A u \in NamesFor(copy[c], h.of.key) : t(u) \in Tracked
    BY <2>1, NamesForFacts DEF Operations, Entries, Tracked
  <2>3. UNCHANGED cloud \/ \E u \in NamesFor(copy[c], h.of.key) : Puts(c, t(u))
    BY <1>4 DEF PutExemption, Doing, Puts, cloud
  <2> QED BY <1>1, <2>1, <2>2, <2>3 DEF Touches
<1>5. CASE DropExemption(c)
  BY <1>1, <1>5 DEF DropExemption, Doing, Touches, Drops, cloud
<1>6. CASE Grant(c)
  BY <1>1, <1>6 DEF Grant, Doing, Touches, Gives, cloud
<1>7. CASE Revoke(c)
  BY <1>1, <1>7 DEF Revoke, Doing, Touches, Takes, cloud
<1>8. CASE DeleteAssignment(c)
  BY <1>1, <1>8 DEF DeleteAssignment, Doing, Touches, Deletes, cloud
<1> QED BY <1>2, <1>3, <1>4, <1>5, <1>6, <1>7, <1>8 DEF Call

DefinitionsTyped ==
  /\ roles \in [Permissions -> RoleIds \cup {None}]
  /\ portal \in 0..MaxOutside
  /\ defined \in [Definitions -> DefinitionStates]
  /\ seen \in [Definitions -> DefinitionStates]
  /\ defChanges \in 0..MaxOutside

\* Before the first change by others the role definitions stay.
RolesStay == portal' = 0 => portal = 0 /\ roles' = roles

LEMMA CloudStep ==
  ASSUME IInv, [Next]_vars
  PROVE  CloudMoves /\ CloudTyped' /\ DefinitionsTyped' /\ RolesStay
<1>1. Environment => UNCHANGED cloud \/ Portal
  BY DEF Environment, CrashAll, SyncObject, DefinitionChanges, WatchDefinition
<1>2. (\E c \in CRs : Reconcile(c)) \/ UNCHANGED vars => UNCHANGED cloud
  BY DEF Reconcile, vars
<1>3. UNCHANGED cloud \/ Portal \/ \E c \in CRs : Touches(c)
  BY <1>1, <1>2, CallMoves DEF Next
<1>4. UNCHANGED cloud => CloudTyped'
  BY DEF cloud, IInv, OutsideTyped, CloudTyped
<1>5. CloudMoves /\ CloudTyped'
  BY <1>3, <1>4, PortalTyped, TouchTyped DEF CloudMoves
<1>6. DefinitionsTyped'
  <2> USE DEF IInv, OutsideTyped, DefinitionsTyped
  <2>1. UNCHANGED <<others, definitions>> => DefinitionsTyped'
    BY DEF others, definitions
  <2>2. CASE \E d \in Definitions : DefinitionChanges(d) \/ WatchDefinition(d)
    <3>1. /\ defined' \in [Definitions -> DefinitionStates]
          /\ seen' \in [Definitions -> DefinitionStates]
          /\ UNCHANGED others
      BY <2>2 DEF DefinitionChanges, WatchDefinition
    <3>2. defChanges' \in 0..MaxOutside
      BY <2>2, ConstantsAssumption DEF DefinitionChanges, WatchDefinition
    <3> QED BY <3>1, <3>2 DEF others
  <2>3. CASE CrashAll
    BY <2>3 DEF CrashAll, others
  <2>4. CASE Portal
    BY <2>4, PortalTyped DEF Portal, definitions
  <2>5. \A c \in CRs : Reconcile(c) \/ Call(c) => UNCHANGED <<others, definitions>>
    BY DEF Reconcile, Call
  <2>6. UNCHANGED vars => UNCHANGED <<others, definitions>>
    BY DEF vars
  <2>7. Environment /\ ~CrashAll /\ ~Portal =>
          \/ UNCHANGED <<others, definitions>>
          \/ \E d \in Definitions : DefinitionChanges(d) \/ WatchDefinition(d)
    BY DEF Environment, SyncObject
  <2> QED BY <2>1, <2>2, <2>3, <2>4, <2>5, <2>6, <2>7 DEF Next
<1>7. RolesStay
  <2>1. portal \in Nat
    BY ConstantsAssumption DEF IInv, OutsideTyped
  <2>2. UNCHANGED others => RolesStay
    BY DEF others, RolesStay
  <2>3. Portal => RolesStay
    BY <2>1 DEF Portal, RolesStay
  <2>4. Environment => UNCHANGED others \/ Portal
    BY DEF Environment, CrashAll, SyncObject, DefinitionChanges, WatchDefinition
  <2>5. \A c \in CRs : Reconcile(c) \/ Call(c) => UNCHANGED others
    BY DEF Reconcile, Call
  <2> QED BY <2>2, <2>3, <2>4, <2>5 DEF Next, vars
<1> QED BY <1>5, <1>6, <1>7

-----------------------------------------------------------------------------
(* The invariant is inductive.                                             *)

\* What is deleted is not there again while the reconcile of c waits or
\* deletes.
LEMMA StaysDeleted ==
  ASSUME NEW c \in CRs, Shrinks, RolesStay, copy'[c] = copy[c],
         NEW x \in Operations, Deleted(copy[c], x)
  PROVE  Deleted(copy[c], x)'
<1>1. /\ x.op = "DropExemption" => x.of \in Tracked
      /\ x.op = "DeleteAssignment" => x.of \in Refs
  BY DEF Operations
<1>2. x.op = "DropExemption" => ExemptionId(x.of) \in ExemptionIds
  BY <1>1 DEF ExemptionId, ExemptionIds, Tracked
<1> QED BY <1>1, <1>2 DEF Shrinks, RolesStay, Deleted, GrantOf

\* A call of a clean-up deletes what it has to, and creates nothing.
LEMMA CleanStep ==
  ASSUME IInv, NEW c \in CRs, copy[c].phase = "deleting", Serves(c), RolesStay,
         NEW x \in Operations, x = Head(todo)
  PROVE  Shrinks /\ copy'[c] = copy[c] /\ Deleted(copy[c], x)'
<1>1. /\ x.op \in {"DropExemption", "Revoke", "DeleteAssignment"}
      /\ copy'[c] = copy[c]
  BY ServiceFacts DEF Serves, CallsFor, Follows
<1>2. /\ azure \in [Refs -> Resources \cup {None}]
      /\ exempted \in [ExemptionIds -> Exemptions \cup {None}]
  BY DEF IInv, OutsideTyped
<1>3. /\ x.op = "DropExemption" => x.of \in Tracked /\ ExemptionId(x.of) \in ExemptionIds
      /\ x.op = "DeleteAssignment" => x.of \in Refs
  BY <1>1 DEF Operations, ExemptionId, ExemptionIds, Tracked
<1>4. CASE Drops(c)
  <2>1. x.op = "DropExemption" /\ exempted'[ExemptionId(x.of)] = None /\ Shrinks
    BY <1>2, <1>3, <1>4 DEF Drops, Shrinks
  <2> QED BY <1>1, <2>1 DEF Deleted
<1>5. CASE Takes(c)
  <2>1. x.op = "Revoke" /\ GrantOf(copy[c], x.of) \notin granted' /\ Shrinks
    BY <1>2, <1>3, <1>5 DEF Takes, Shrinks
  <2> QED BY <1>1, <2>1 DEF Deleted, GrantOf, RolesStay
<1>6. CASE Deletes(c)
  <2>1. x.op = "DeleteAssignment" /\ azure'[x.of] = None /\ Shrinks
    BY <1>2, <1>3, <1>6 DEF Deletes, Shrinks
  <2> QED BY <1>1, <2>1 DEF Deleted
<1>7. Drops(c) \/ Takes(c) \/ Deletes(c)
  BY <1>1 DEF Serves, Puts, Gives
<1> QED BY <1>1, <1>4, <1>5, <1>6, <1>7

\* The next call of the service is one of the same kind.
LEMMA ServesOK ==
  ASSUME IInv, RolesStay, NEW c \in CRs, Serves(c)
  PROVE  CallOK(c)' /\ CleansAll(c)'
<1> DEFINE o == copy[c]
<1>1. /\ o \in Objects /\ LocalInv(c) /\ pc[c] = "Service" /\ o.status.id # None
      /\ \A x \in Operations : In(x, todo) => x.op \in CallsFor(o)
      /\ \A x : In(x, todo) <=> x = Head(todo) \/ In(x, Tail(todo))
      /\ o.phase \in {"live", "deleting"} /\ copy'[c].phase = o.phase
  BY CallFacts, ServiceFacts DEF Serves, LocalInv, CallOK, GoesOn, Objects, ObjectsOf
<1>2. CASE o.phase = "live"
  <2>1. /\ todo' = Tail(todo) /\ copy'[c].status.id = o.status.id
        /\ pc'[c] \in {"Service", "StatusUpdate"}
        /\ pc'[c] = "Service" => todo' # <<>>
    BY <1>2 DEF Serves, Follows, Advances
  <2> QED BY <1>1, <1>2, <2>1 DEF CallOK, CleansAll, CallsFor
<1>3. CASE o.phase = "deleting"
  <2>1. /\ todo' = Tail(todo) /\ copy'[c] = o
        /\ pc'[c] = IF Tail(todo) = <<>> THEN "RemoveFinalizer" ELSE "Service"
    BY <1>3 DEF Serves, Follows
  <2>2. Head(todo) \in Operations
    BY ServiceFacts DEF Serves
  <2>3. ASSUME NEW x \in Operations, In(x, DeletePlan(o))
        PROVE  In(x, Tail(todo)) \/ Deleted(copy[c], x)'
    <3>1. CASE x = Head(todo)
      BY <1>3, <3>1, CleanStep
    <3>2. CASE In(x, Tail(todo))
      BY <3>2
    <3>3. CASE Deleted(o, x)
      <4>1. Shrinks /\ copy'[c] = copy[c]
        BY <1>3, <2>2, CleanStep
      <4> QED BY <3>3, <4>1, StaysDeleted
    <3>4. In(x, todo) \/ Deleted(o, x)
      BY <1>1, <1>3, <2>3 DEF LocalInv, CleansAll
    <3> QED BY <1>1, <3>1, <3>2, <3>3, <3>4
  <2>4. DeletePlan(copy'[c]) = DeletePlan(o)
    BY <2>1
  <2>5. Tail(todo) = <<>> => \A x : ~In(x, Tail(todo))
    BY DEF In
  <2>6. CallOK(c)'
    BY <1>1, <1>3, <2>1 DEF CallOK
  <2>7. CleansAll(c)'
    BY <1>3, <2>1, <2>3, <2>4, <2>5 DEF CleansAll
  <2> QED BY <2>6, <2>7
<1> QED BY <1>1, <1>2, <1>3

LEMMA LocalStep ==
  ASSUME IInv, [Next]_vars, NEW c \in CRs
  PROVE  LocalInv(c)'
<1> DEFINE o == copy[c]
<1>1. /\ LocalInv(c) /\ Protocol(c) /\ ObjectStep(c) /\ RolesStay
      /\ (pc[c] # "idle" => o \in Objects)
  BY NextOK, CloudStep, CopyFields DEF IInv, Runtime, RuntimeInv, StepOK, Objects
<1>2. CASE Rests(c)
  BY <1>2 DEF Rests, LocalInv, CallOK, CopyAgrees, CleansAll
<1>3. CASE Stays(c)
  <2>1. CASE pc[c] = "idle"
    BY <1>1, <1>3, <2>1
       DEF Stays, Waits, Protocol, FlagsOK, LocalInv, CallOK, CopyAgrees, CleansAll
  <2>2. CASE pc[c] # "idle"
    <3>1. /\ Waits(c) /\ Shrinks /\ todo' = todo
          /\ copy'[c] = o /\ pc'[c] = pc[c]
      BY <1>3, <2>2 DEF Stays, Quiet, service, Waits
    <3>2. CallOK(c)'
      BY <1>1, <3>1 DEF LocalInv, CallOK, Rebinds, CallsFor
    <3>3. CopyAgrees(c)'
      BY <1>1, <3>1 DEF Waits, LocalInv, CopyAgrees
    <3>4. \A x \in Operations : Deleted(o, x) => Deleted(copy[c], x)'
      BY <1>1, <3>1, StaysDeleted
    <3>5. DeletePlan(copy'[c]) = DeletePlan(o)
      BY <3>1
    <3>6. CleansAll(c)'
      BY <1>1, <3>1, <3>4, <3>5 DEF LocalInv, CleansAll
    <3> QED BY <3>2, <3>3, <3>6 DEF LocalInv
  <2> QED BY <2>1, <2>2
<1>4. CASE Begins(c)
  <2>1. cache[c] \in Objects
    BY <1>4, CacheFacts DEF Begins
  <2>2. synced[c] => cache[c] = obj[c]
    BY <1>1 DEF Protocol, FlagsOK
  <2>3. CopyAgrees(c)'
    BY <1>4, <2>2 DEF Begins, CopyAgrees, SameButDefinition
  <2>4. CASE pc'[c] = "Service"
    <3>1. /\ cache[c].phase = "deleting" /\ cache[c].status.id # None
          /\ copy'[c] = cache[c] /\ todo' = DeletePlan(cache[c])
      BY <1>4, <2>4 DEF Begins
    <3>2. /\ DeletePlan(cache[c]) # <<>>
          /\ \A x \in Operations : In(x, DeletePlan(cache[c])) => x.op \in CallsFor(cache[c])
      BY <2>1, <3>1, DeletePlanFacts
    <3>3. CallsFor(copy[c])' = CallsFor(cache[c]) /\ DeletePlan(copy[c])' = DeletePlan(cache[c])
      BY <3>1 DEF CallsFor, DeletePlan, DeleteRef
    <3>4. CallOK(c)' /\ CleansAll(c)'
      BY <2>4, <3>1, <3>2, <3>3 DEF CallOK, CleansAll
    <3> QED BY <2>3, <3>4 DEF LocalInv
  <2>5. CASE pc'[c] # "Service"
    <3>1. CallOK(c)' /\ CleansAll(c)'
      BY <1>4, <2>5 DEF Begins, CallOK, CleansAll, SameButDefinition, Rebinds
    <3> QED BY <2>3, <3>1 DEF LocalInv
  <2> QED BY <2>4, <2>5
<1>5. CASE Reports(c)
  <2>1. CopyAgrees(c)'
    BY <1>1, <1>5 DEF Reports, GoesOn, LocalInv, CopyAgrees
  <2> QED BY <1>5, <2>1 DEF Reports, LocalInv, CallOK, CleansAll
<1>6. CASE IsFree(c)
  BY <1>1, <1>6 DEF IsFree, GoesOn, LocalInv, CallOK, CopyAgrees, CleansAll
<1>7. CASE Imports(c)
  <2>1. /\ o.phase = "live" /\ o.man.spec.definition \in DefinitionIds
        /\ o.man.importId # None /\ ~Rebinds(o)
    BY <1>1, <1>7 DEF Imports, LocalInv, CallOK
  <2>2. o.status.id # None => o.man.importId.name = o.status.id.name
    BY <2>1 DEF Rebinds, RefOf
  <2>3. CopyAgrees(c)'
    BY <1>1, <1>7, <2>1, <2>2 DEF Imports, GoesOn, LocalInv, CopyAgrees
  <2>4. CallOK(c)' /\ CleansAll(c)'
    BY <1>7, <2>1 DEF Imports, GoesOn, CallOK, CleansAll
  <2> QED BY <2>3, <2>4 DEF LocalInv
<1>8. CASE Creates(c)
  <2> DEFINE p == Bound(c, o)
  <2>1. /\ o.phase = "live" /\ o \in Objects /\ o.status.observed <= o.gen
        /\ Target(c, o) \in Refs
    BY <1>8, CallFacts DEF Creates, WritesAssignment, LocalInv, CallOK
  <2>2. /\ p \in Objects /\ p.phase = "live"
        /\ p.status.id # None /\ p.status.id.name = Target(c, o).name
    BY <2>1, BoundFacts, NoneAssumption DEF Restated, RefOf
  <2>3. Advances(c, p, CreatePlan(p), <<>>) /\ GoesOn(c)
    BY <1>8 DEF Creates
  <2> HIDE DEF p
  <2>4. /\ copy'[c].phase = "live" /\ copy'[c].status.id = p.status.id
        /\ todo' = CreatePlan(p) /\ pc'[c] \in {"Service", "StatusUpdate"}
        /\ pc'[c] = "Service" => todo' # <<>>
    BY <2>1, <2>3 DEF Advances, GoesOn
  <2>5. CallOK(c)' /\ CleansAll(c)'
    BY <2>2, <2>4, CreatePlanFacts DEF CallOK, CleansAll, CallsFor
  <2>6. o.status.id # None => Target(c, o).name = o.status.id.name
    BY <2>1, BoundTarget
  <2>7. CopyAgrees(c)'
    BY <1>1, <2>1, <2>2, <2>3, <2>4, <2>6 DEF GoesOn, LocalInv, CopyAgrees
  <2> QED BY <2>5, <2>7 DEF LocalInv
<1>9. CASE Serves(c)
  <2>1. GoesOn(c) /\ copy'[c].status.id = o.status.id
        /\ (o.phase = "deleting" => copy'[c] = o)
    BY <1>1, <1>9 DEF Serves, Follows, Advances, Objects, ObjectsOf
  <2>2. CopyAgrees(c)'
    BY <1>1, <2>1 DEF GoesOn, LocalInv, CopyAgrees
  <2> QED BY <1>1, <1>9, <2>2, ServesOK DEF LocalInv
<1> QED BY <1>1, <1>2, <1>3, <1>4, <1>5, <1>6, <1>7, <1>8, <1>9 DEF ObjectStep, CopyMoves

LEMMA InitOK == Init => IInv /\ Managing!Init
<1> SUFFICES ASSUME Init
             PROVE  IInv /\ Managing!Init
  OBVIOUS
<1>1. Kind(Manifests, Statuses, Calls)
  BY ConstantsAssumption DEF Kind, Statuses, Calls
<1>2. Runtime
  BY <1>1, RuntimeStart DEF Init, Runtime
<1>3. OutsideTyped
  BY ConstantsAssumption DEF Init, OutsideTyped
<1>4. \A c \in CRs : LocalInv(c)
  BY DEF Init, RuntimeInit, LocalInv, CallOK, CopyAgrees, CleansAll
<1>5. \A c \in CRs : ~Present(obj[c]) /\ pc[c] = "idle"
  BY DEF Init, RuntimeInit, Present, Absent
<1>6. \A c \in CRs : HasId(obj[c]) = FALSE /\ Owes(obj[c]) = FALSE
  BY <1>5 DEF HasId, Owes
<1>7. Managing!Init
  BY <1>5, <1>6 DEF Managing!Init, Stage, Work
<1> QED BY <1>2, <1>3, <1>4, <1>7 DEF IInv

M == INSTANCE ManagedResourceProofs WITH
  stage <- [c \in CRs |-> Stage(obj[c])],
  work <- [c \in CRs |-> Work(pc[c], copy[c])],
  bound <- [c \in CRs |-> HasId(obj[c])],
  owed <- [c \in CRs |-> Owes(obj[c])]

LEMMA SameModule == M!Next => Managing!Next
  BY DEF M!Next, M!Create, M!Guard, M!MarkDeleted, M!StartWriting, M!StartCleaning, M!Bind,
         M!Forget, M!GiveUp, M!Owes, M!Moves, M!Starts, M!Ends,
         Managing!Next, Managing!Create, Managing!Guard, Managing!MarkDeleted,
         Managing!StartWriting, Managing!StartCleaning, Managing!Bind, Managing!Forget,
         Managing!GiveUp, Managing!Owes, Managing!Moves, Managing!Starts, Managing!Ends

\* One object's step is a step of ManagedResource.
LEMMA Lifting ==
  ASSUME NEW c \in CRs, StepOf(c, Owes(obj[c]))
  PROVE  Managing!Next
<1> DEFINE stage == [d \in CRs |-> Stage(obj[d])]
           work == [d \in CRs |-> Work(pc[d], copy[d])]
           bound == [d \in CRs |-> HasId(obj[d])]
<1>1. M!Owes
  BY DEF M!Owes, Owes
<1>2. /\ stage' = [stage EXCEPT ![c] = stage'[c]]
      /\ work' = [work EXCEPT ![c] = work'[c]]
      /\ bound' = [bound EXCEPT ![c] = bound'[c]]
  BY DEF StepOf, Untouched, SameStage, SameWork, SameBound
<1>3. HasId(obj'[c]) \in BOOLEAN
  BY DEF HasId
<1>4. \/ M!Same(c) /\ work'[c] = work[c]
      \/ M!Lives(c) \/ M!StartsWork(c) \/ M!EndsWork(c)
  BY <1>3 DEF StepOf, Untouched, LifeStep, StartStep, EndStep, SameStage, SameWork, SameBound,
         M!Same, M!Lives, M!StartsWork, M!EndsWork
<1>5. M!Next
  BY <1>1, <1>2, <1>4, M!ObjectStep
<1> QED BY <1>5, SameModule

LEMMA SafeLifting ==
  ASSUME SafeStep
  PROVE  Managing!Next
<1>1. CASE \E c \in CRs : StepOf(c, TRUE)
  <2> PICK c \in CRs : StepOf(c, TRUE)
    BY <1>1
  <2>1. StepOf(c, Owes(obj[c]))
    BY DEF StepOf, EndStep
  <2> QED BY <2>1, Lifting
<1>2. CASE \A d \in CRs : Untouched(d)
  BY <1>2 DEF Untouched, SameStage, SameWork, SameBound, Managing!Next, Managing!Owes, Owes
<1> QED BY <1>1, <1>2 DEF SafeStep

LEMMA Step == IInv /\ [Next]_vars => IInv' /\ Managing!Next
<1> SUFFICES ASSUME IInv, [Next]_vars
             PROVE  IInv' /\ Managing!Next
  OBVIOUS
<1>1. StepOK
  BY NextOK
<1>2. OutsideTyped'
  BY <1>1, CloudStep DEF StepOK, ServiceTyped, CloudTyped, DefinitionsTyped, OutsideTyped
<1>3. IInv'
  BY <1>1, <1>2, LocalStep DEF StepOK, IInv
<1>4. Managing!Next
  BY <1>1, Lifting, SafeLifting DEF StepOK
<1> QED BY <1>3, <1>4

LEMMA Invariance == Spec => []IInv
  BY InitOK, Step, PTL DEF Spec

\* The variables have their types: every call on the list has the arguments it
\* takes, and nothing reaches Azure whose reference is not resolved.
THEOREM TypeCorrect == Spec => []TypeOK
<1>1. ASSUME IInv
      PROVE  \A i \in DOMAIN todo : todo[i].of \in ArgsOf[todo[i].op]
  <2>1. \A i \in DOMAIN todo : todo[i] \in Operations
    BY <1>1, LenProperties, ElementOfSeq DEF IInv, OutsideTyped
  <2>2. \A x \in Operations : x.of \in ArgsOf[x.op]
    BY DEF Operations, ArgsOf
  <2> QED BY <2>1, <2>2
<1>2. IInv => TypeOK
  BY <1>1 DEF IInv, Runtime, RuntimeInv, Typed, OutsideTyped, TypeOK, Objects
<1> QED BY <1>2, Invariance, PTL

\* The controller implements ManagedResource: however the clean-up is cut off
\* and begun again, the finalizer goes last, after the assignment, its inline
\* exemptions and its role assignments.
THEOREM AssignmentsAreManaged == Spec => Lifecycle
<1>1. [Next]_vars /\ IInv => [Managing!Next]_(Managing!vars)
  BY Step
<1> QED BY <1>1, InitOK, Invariance, PTL DEF Spec, Lifecycle, Managing!Spec

\* A bound object keeps its name: an import that names another assignment is
\* refused, also when the cache does not show the binding yet.
THEOREM NameIsKept == Spec => KeepsItsName
<1>1. ASSUME IInv, [Next]_vars, NEW c \in CRs,
             Present(obj[c]), obj[c].status.id # None,
             Present(obj'[c]), obj'[c].status.id # None
      PROVE  obj'[c].status.id.name = obj[c].status.id.name
  <2>1. ObjectMoves(c) /\ LocalInv(c)
    BY <1>1, NextOK DEF StepOK, ObjectStep, IInv
  <2>2. CASE Edited(c)
    BY <2>2 DEF Edited
  <2>3. CASE Reported(c)
    BY <1>1, <2>1, <2>3 DEF Reported, LocalInv, CopyAgrees
  <2> QED BY <1>1, <2>1, <2>2, <2>3 DEF ObjectMoves, Created, Vanishes, Ended
<1>2. IInv /\ [Next]_vars =>
        [\A c \in CRs :
           /\ Present(obj[c]) /\ obj[c].status.id # None
           /\ Present(obj'[c]) /\ obj'[c].status.id # None
           => obj'[c].status.id.name = obj[c].status.id.name]_vars
  BY <1>1
<1> QED BY <1>2, Invariance, PTL DEF Spec, KeepsItsName
=============================================================================
