------------------------ MODULE PolicyAssignmentStatus ------------------------
(***************************************************************************)
(* What the status of an assignment says, and what Azure holds: theorems   *)
(* about PolicyAssignment for every set of objects, offers and bounds.     *)
(*                                                                         *)
(* The service matches the inline exemptions of the spec with those of the *)
(* status by display name: that none of them is forgotten depends on       *)
(* display names that tell the entries of a manifest apart (KeysApart).    *)
(* Nothing in Azure says which object an assignment belongs to: that a     *)
(* report of Reconciled stays true depends on names that the objects do    *)
(* not share (NamesApart).                                                 *)
(***************************************************************************)
EXTENDS PolicyAssignmentProofs

DistinctKeys(s) == \A i, j \in DOMAIN s : s[i].key = s[j].key => i = j

\* No manifest gives two inline exemptions one display name.
KeysApart == \A c \in CRs : \A m \in Offers[c] : DistinctKeys(m.spec.exemptions)

-----------------------------------------------------------------------------
(* The invariant.                                                          *)

Tidy(o) ==
  /\ DistinctKeys(o.man.spec.exemptions)
  /\ DistinctKeys(o.status.exemptions)
  /\ o.status.exemptions # <<>> => o.status.id # None

TidyInv(c) ==
  /\ Present(obj[c]) => Tidy(obj[c])
  /\ Present(cache[c]) => Tidy(cache[c])
  /\ pc[c] # "idle" => Tidy(copy[c])

\* CreateOrUpdate has written the first entries of the spec, and the others
\* come next.
InOrder(c) ==
  pc[c] = "Service" /\ copy[c].phase = "live" =>
    LET entries == copy[c].man.spec.exemptions
    IN  /\ \A i \in DOMAIN results : i \in DOMAIN entries /\ results[i].key = entries[i].key
        /\ \A k \in DOMAIN todo :
             todo[k].op = "PutExemption" =>
               /\ Len(results) + k \in DOMAIN entries
               /\ todo[k].of = entries[Len(results) + k]
               /\ \A j \in 1..k : todo[j].op = "PutExemption"

\* The exemption t, or its name, is safe with a status that lists s.
SafeWith(t, s) == exempted[ExemptionId(t)] = None \/ \E j \in DOMAIN s : s[j].uuid = t.uuid

\* The exemption t is safe with the running CreateOrUpdate.
Pending(t) ==
  \/ SafeWith(t, results)
  \/ In([op |-> "DropExemption", of |-> t], todo)
  \/ \E k \in DOMAIN todo : todo[k].op = "PutExemption" /\ todo[k].of.key = t.key

AllSafeWith(c, s) ==
  \A i \in DOMAIN obj[c].status.exemptions : SafeWith(obj[c].status.exemptions[i], s)

\* A fresh copy lists what the stored status does, until the service replaces
\* the list; then each of the old exemptions is on the new list or deleted.
Tracking(c) ==
  fresh[c] =>
    LET listed == copy[c].status.exemptions
        stored == obj[c].status.exemptions
    IN  /\ pc[c] \notin {"Service", "StatusUpdate", "ReportExisting"} => listed = stored
        /\ pc[c] \in {"StatusUpdate", "ReportExisting"} => AllSafeWith(c, listed)
        /\ pc[c] = "Service" /\ copy[c].phase = "live" /\ Exempting(todo) =>
             listed = stored /\ \A i \in DOMAIN stored : Pending(stored[i])
        /\ pc[c] = "Service" /\ copy[c].phase = "live" /\ ~Exempting(todo) =>
             listed = results /\ AllSafeWith(c, listed)

ListInv(c) == TidyInv(c) /\ InOrder(c) /\ Tracking(c)

-----------------------------------------------------------------------------
(* The order of the calls.                                                 *)

\* CreateOrUpdate writes the exemptions of the spec first, in their order.
LEMMA PutsFirst ==
  ASSUME NEW o \in Objects
  PROVE  LET plan == CreatePlan(o)
             e == o.man.spec.exemptions
         IN  \A k \in DOMAIN plan :
               plan[k].op = "PutExemption" =>
                 /\ k \in DOMAIN e /\ plan[k].of = e[k]
                 /\ \A j \in 1..k : plan[j].op = "PutExemption"
<1> DEFINE e == o.man.spec.exemptions
           p == o.man.spec.permissions
           g == Removed(o)
           puts == OpsOver("PutExemption", e)
           drops == OpsOver("DropExemption", g)
           grants == OpsOver("Grant", p)
           plan == CreatePlan(o)
<1>1. e \in Seq(Entries) /\ p \in Seq(Permissions) /\ g \in Seq(Tracked)
  BY RemovedFacts DEF Objects, ObjectsOf, Manifests, Specs
<1>2. plan = (puts \o drops) \o grants
  BY DEF CreatePlan
<1>3. /\ \A x \in Entries : [op |-> "PutExemption", of |-> x] \in Operations
      /\ \A x \in Tracked : [op |-> "DropExemption", of |-> x] \in Operations
      /\ \A x \in Permissions : [op |-> "Grant", of |-> x] \in Operations
  BY DEF Operations
<1> HIDE DEF e, p, g, plan
<1>4. puts \in Seq(Operations) /\ drops \in Seq(Operations) /\ grants \in Seq(Operations)
  BY <1>1, <1>3, OpsOverFacts
<1>5. /\ DOMAIN puts = DOMAIN e /\ \A k \in DOMAIN e : puts[k] = [op |-> "PutExemption", of |-> e[k]]
      /\ \A k \in DOMAIN drops : drops[k].op = "DropExemption"
      /\ \A k \in DOMAIN grants : grants[k].op = "Grant"
  BY DEF OpsOver
<1> HIDE DEF puts, drops, grants
<1>6. /\ Len(puts) \in Nat /\ Len(drops) \in Nat /\ Len(grants) \in Nat
      /\ DOMAIN puts = 1..Len(puts) /\ DOMAIN drops = 1..Len(drops)
      /\ DOMAIN grants = 1..Len(grants)
  BY <1>4, LenProperties
<1>7. /\ puts \o drops \in Seq(Operations) /\ Len(puts \o drops) = Len(puts) + Len(drops)
      /\ \A k \in 1 .. Len(puts) + Len(drops) :
           (puts \o drops)[k] = IF k <= Len(puts) THEN puts[k] ELSE drops[k - Len(puts)]
  BY <1>4, ConcatProperties
<1>8. /\ plan \in Seq(Operations)
      /\ Len(plan) = Len(puts \o drops) + Len(grants)
      /\ \A k \in 1 .. Len(puts \o drops) + Len(grants) :
           plan[k] = IF k <= Len(puts \o drops) THEN (puts \o drops)[k]
                     ELSE grants[k - Len(puts \o drops)]
  BY <1>2, <1>4, <1>7, ConcatProperties
<1>9. DOMAIN plan = 1 .. (Len(puts) + Len(drops)) + Len(grants)
  BY <1>7, <1>8, LenProperties
<1>10. ASSUME NEW k \in DOMAIN plan, k > Len(puts)
       PROVE  plan[k].op # "PutExemption"
  <2>1. CASE k <= Len(puts) + Len(drops)
    <3>1. k - Len(puts) \in DOMAIN drops /\ plan[k] = drops[k - Len(puts)]
      BY <1>6, <1>7, <1>8, <1>9, <1>10, <2>1
    <3> QED BY <1>5, <3>1
  <2>2. CASE k > Len(puts) + Len(drops)
    <3>1. /\ k - (Len(puts) + Len(drops)) \in DOMAIN grants
          /\ plan[k] = grants[k - (Len(puts) + Len(drops))]
      BY <1>6, <1>7, <1>8, <1>9, <1>10, <2>2
    <3> QED BY <1>5, <3>1
  <2> QED BY <1>6, <1>9, <2>1, <2>2
<1>11. ASSUME NEW k \in 1..Len(puts)
       PROVE  plan[k] = [op |-> "PutExemption", of |-> e[k]]
  <2>1. k \in 1 .. Len(puts) + Len(drops)
        /\ k \in 1 .. (Len(puts) + Len(drops)) + Len(grants) /\ k <= Len(puts) + Len(drops)
    BY <1>6
  <2>2. plan[k] = puts[k]
    BY <1>7, <1>8, <2>1
  <2> QED BY <1>5, <1>6, <2>2
<1>12. ASSUME NEW k \in DOMAIN plan, plan[k].op = "PutExemption"
       PROVE  /\ k \in DOMAIN e /\ plan[k].of = e[k]
              /\ \A j \in 1..k : plan[j].op = "PutExemption"
  <2>1. k \in 1..Len(puts)
    BY <1>6, <1>9, <1>10, <1>12
  <2>2. \A j \in 1..k : j \in 1..Len(puts)
    BY <1>6, <2>1
  <2> QED BY <1>5, <1>6, <1>11, <2>1, <2>2
<1> QED BY <1>12 DEF plan, e

\* The calls that are left after the first one.
LEMMA TailOrder ==
  ASSUME NEW S, NEW s \in Seq(S), s # <<>>
  PROVE  /\ Len(s) \in Nat /\ DOMAIN s = 1..Len(s) /\ 1 \in DOMAIN s /\ s[1] = Head(s)
         /\ Tail(s) \in Seq(S)
         /\ \A k \in DOMAIN Tail(s) : k \in Nat \ {0} /\ k + 1 \in DOMAIN s /\ Tail(s)[k] = s[k + 1]
         /\ \A k \in DOMAIN s : k = 1 \/ (k - 1 \in DOMAIN Tail(s) /\ Tail(s)[k - 1] = s[k])
<1>1. /\ Len(s) \in Nat \ {0} /\ DOMAIN s = 1..Len(s) /\ Head(s) = s[1]
      /\ Tail(s) \in Seq(S) /\ Len(Tail(s)) = Len(s) - 1
      /\ \A k \in 1..Len(Tail(s)) : Tail(s)[k] = s[k + 1]
  BY HeadTailProperties, LenProperties, EmptySeq
<1>2. DOMAIN Tail(s) = 1 .. Len(s) - 1
  BY <1>1, LenProperties
<1>3. \A k \in 1 .. Len(s) - 1 : k \in Nat \ {0} /\ k + 1 \in 1..Len(s)
  BY <1>1
<1>4. \A k \in 1..Len(s) : k = 1 \/ (k - 1 \in 1 .. Len(s) - 1 /\ (k - 1) + 1 = k)
  BY <1>1
<1> QED BY <1>1, <1>2, <1>3, <1>4

\* What is left to write is what follows in the spec.
LEMMA OrderAdvances ==
  ASSUME IInv, NEW c \in CRs, pc[c] = "Service", copy[c].phase = "live", InOrder(c),
         NEW w \in Seq(Tracked),
         \/ /\ Head(todo).op = "PutExemption"
            /\ \E t \in Tracked : t.key = Head(todo).of.key /\ w = Append(results, t)
         \/ Head(todo).op # "PutExemption" /\ w = results
  PROVE  LET entries == copy[c].man.spec.exemptions
             rest == Tail(todo)
         IN  /\ \A i \in DOMAIN w : i \in DOMAIN entries /\ w[i].key = entries[i].key
             /\ \A k \in DOMAIN rest :
                  rest[k].op = "PutExemption" =>
                    /\ Len(w) + k \in DOMAIN entries
                    /\ rest[k].of = entries[Len(w) + k]
                    /\ \A j \in 1..k : rest[j].op = "PutExemption"
<1> DEFINE entries == copy[c].man.spec.exemptions
           rest == Tail(todo)
           n == Len(results)
<1>1. /\ DOMAIN todo = 1..Len(todo) /\ Len(todo) \in Nat /\ 1 \in DOMAIN todo
      /\ todo[1] = Head(todo)
      /\ \A k \in DOMAIN rest : k \in Nat \ {0} /\ k + 1 \in DOMAIN todo /\ rest[k] = todo[k + 1]
  BY ServiceFacts, TailOrder DEF IInv, OutsideTyped
<1>2. results \in Seq(Tracked) /\ n \in Nat /\ DOMAIN results = 1..n
  BY LenProperties DEF IInv, OutsideTyped
<1>3. /\ \A i \in DOMAIN results : i \in DOMAIN entries /\ results[i].key = entries[i].key
      /\ \A k \in DOMAIN todo :
           todo[k].op = "PutExemption" =>
             /\ n + k \in DOMAIN entries /\ todo[k].of = entries[n + k]
             /\ \A j \in 1..k : todo[j].op = "PutExemption"
  BY DEF InOrder
<1> HIDE DEF entries, rest, n
<1>4. CASE Head(todo).op # "PutExemption" /\ w = results
  <2>1. \A k \in DOMAIN todo : todo[k].op # "PutExemption"
    BY <1>1, <1>3, <1>4
  <2>2. \A k \in DOMAIN rest : rest[k].op # "PutExemption"
    BY <1>1, <2>1
  <2> QED BY <1>3, <1>4, <2>2 DEF entries, rest
<1>5. CASE Head(todo).op = "PutExemption" /\ w # results
  <2> PICK t \in Tracked : t.key = Head(todo).of.key /\ w = Append(results, t)
    BY <1>5
  <2>1. /\ Len(w) = n + 1 /\ DOMAIN w = 1 .. n + 1
        /\ \A i \in 1..n : w[i] = results[i]
        /\ w[n + 1] = t
    BY <1>2, AppendProperties, LenProperties
  <2>2. n + 1 \in DOMAIN entries /\ t.key = entries[n + 1].key
    BY <1>1, <1>3, <1>5
  <2>3. \A i \in 1 .. n + 1 : i \in 1..n \/ i = n + 1
    BY <1>2
  <2>4. ASSUME NEW i \in DOMAIN w
        PROVE  i \in DOMAIN entries /\ w[i].key = entries[i].key
    <3>1. CASE i = n + 1
      BY <2>1, <2>2, <3>1
    <3>2. CASE i \in 1..n
      <4>1. i \in DOMAIN results /\ w[i] = results[i]
        BY <1>2, <2>1, <3>2
      <4> QED BY <1>3, <4>1
    <3> QED BY <2>1, <2>3, <3>1, <3>2
  <2>5. ASSUME NEW k \in DOMAIN rest, rest[k].op = "PutExemption"
        PROVE  /\ Len(w) + k \in DOMAIN entries /\ rest[k].of = entries[Len(w) + k]
               /\ \A j \in 1..k : rest[j].op = "PutExemption"
    <3> k \in Nat /\ k + 1 \in DOMAIN todo
      BY <1>1
    <3>1. k \in Nat /\ Len(w) + k = n + (k + 1) /\ k + 1 \in DOMAIN todo
      BY <1>2, <2>1
    <3>2. /\ n + (k + 1) \in DOMAIN entries /\ rest[k].of = entries[n + (k + 1)]
          /\ \A j \in 1 .. k + 1 : todo[j].op = "PutExemption"
      BY <1>1, <1>3, <2>5, <3>1
    <3>3. ASSUME NEW j \in 1..k
          PROVE  rest[j].op = "PutExemption"
      <4>1. j + 1 \in 1 .. k + 1 /\ j \in Nat \ {0}
        BY <3>1
      <4>2. j \in DOMAIN rest
        BY <1>1, <3>1, ServiceFacts, TailOrder, LenProperties DEF rest
      <4> QED BY <1>1, <3>2, <4>1, <4>2
    <3> QED BY <3>1, <3>2, <3>3
  <2> QED BY <2>4, <2>5 DEF entries, rest
<1>6. CASE Head(todo).op = "PutExemption" /\ w = results
  <2> PICK t \in Tracked : w = Append(results, t)
    BY <1>6
  <2>1. Len(w) = n + 1
    BY <1>2, AppendProperties
  <2> QED BY <1>2, <1>6, <2>1
<1> QED BY <1>4, <1>5, <1>6

LEMMA KeysOfWritten ==
  ASSUME NEW e, NEW w, DistinctKeys(e),
         \A i \in DOMAIN w : i \in DOMAIN e /\ w[i].key = e[i].key
  PROVE  DistinctKeys(w)
  BY DEF DistinctKeys

-----------------------------------------------------------------------------
(* Display names stay apart, and the calls in order.                       *)

LEMMA EmptyTidy == DistinctKeys(<<>>)
  BY DEF DistinctKeys

\* What the service has written when its next call has succeeded.
LEMMA ServesWritten ==
  ASSUME IInv, NEW c \in CRs, InOrder(c), Serves(c), copy[c].phase = "live"
  PROVE  \E w \in Seq(Tracked) :
           /\ Advances(c, copy[c], Tail(todo), w)
           /\ \A i \in DOMAIN w : /\ i \in DOMAIN copy[c].man.spec.exemptions
                                  /\ w[i].key = copy[c].man.spec.exemptions[i].key
           /\ \A k \in DOMAIN Tail(todo) :
                Tail(todo)[k].op = "PutExemption" =>
                  /\ Len(w) + k \in DOMAIN copy[c].man.spec.exemptions
                  /\ Tail(todo)[k].of = copy[c].man.spec.exemptions[Len(w) + k]
                  /\ \A j \in 1..k : Tail(todo)[j].op = "PutExemption"
           /\ \/ \E t \in Tracked : Puts(c, t) /\ w = Append(results, t)
              \/ w = results /\ (Drops(c) \/ Gives(c))
<1>1. results \in Seq(Tracked) /\ pc[c] = "Service"
  BY DEF IInv, OutsideTyped, Serves
<1>2. ASSUME NEW t \in Tracked, Puts(c, t), Follows(c, Append(results, t))
      PROVE  \E w \in Seq(Tracked) :
               /\ Advances(c, copy[c], Tail(todo), w)
               /\ Head(todo).op = "PutExemption" /\ t.key = Head(todo).of.key
               /\ w = Append(results, t) /\ Puts(c, t)
  BY <1>1, <1>2, AppendProperties DEF Follows, Puts
<1>3. ASSUME Drops(c) \/ Gives(c) \/ Takes(c) \/ Deletes(c), Follows(c, results)
      PROVE  /\ Advances(c, copy[c], Tail(todo), results)
             /\ Head(todo).op # "PutExemption" /\ (Drops(c) \/ Gives(c))
  BY <1>1, <1>3, ServiceFacts DEF Follows, CallsFor, Drops, Gives, Takes, Deletes
<1>4. CASE \E t \in Tracked : Puts(c, t) /\ Follows(c, Append(results, t))
  <2> PICK t \in Tracked : Puts(c, t) /\ Follows(c, Append(results, t))
    BY <1>4
  <2> PICK w \in Seq(Tracked) :
        /\ Advances(c, copy[c], Tail(todo), w)
        /\ Head(todo).op = "PutExemption" /\ t.key = Head(todo).of.key
        /\ w = Append(results, t) /\ Puts(c, t)
    BY <1>2
  <2> QED BY <1>1, OrderAdvances
<1>5. CASE (Drops(c) \/ Gives(c) \/ Takes(c) \/ Deletes(c)) /\ Follows(c, results)
  BY <1>1, <1>3, <1>5, OrderAdvances
<1> QED BY <1>4, <1>5 DEF Serves

LEMMA TidyObject ==
  ASSUME KeysApart, NEW c \in CRs, TidyInv(c), ObjectMoves(c), Present(obj'[c])
  PROVE  Tidy(obj'[c])
<1>1. CASE Created(c, NoStatus)
  BY <1>1, EmptyTidy DEF Created, KeysApart, NoStatus, Tidy
<1>2. CASE Edited(c)
  BY <1>2 DEF Edited, KeysApart, Tidy, TidyInv
<1>3. CASE Reported(c)
  BY <1>3 DEF Reported, Tidy, TidyInv
<1> QED BY <1>1, <1>2, <1>3 DEF ObjectMoves, Vanishes, Ended

LEMMA TidyCopy ==
  ASSUME IInv, [Next]_vars, NEW c \in CRs, TidyInv(c), InOrder(c), pc'[c] # "idle"
  PROVE  Tidy(copy'[c])
<1> DEFINE o == copy[c]
<1>1. CopyMoves(c)
  BY NextOK DEF StepOK, ObjectStep
<1>2. CASE Stays(c)
  BY <1>2 DEF Stays, Waits, TidyInv
<1>3. CASE Begins(c)
  BY <1>3 DEF Begins, TidyInv, Tidy, SameButDefinition
<1>4. CASE Reports(c) \/ IsFree(c)
  BY <1>4 DEF Reports, IsFree, GoesOn, TidyInv, Tidy
<1>5. CASE Imports(c)
  <2>1. o.man.importId # None
    BY <1>5, CallFacts DEF Imports, LocalInv, CallOK
  <2> QED BY <1>5, <2>1 DEF Imports, GoesOn, TidyInv, Tidy
<1>6. CASE Creates(c)
  <2> DEFINE p == Bound(c, o)
  <2>1. /\ GoesOn(c) /\ Advances(c, p, CreatePlan(p), <<>>) /\ pc[c] = "Create"
        /\ Target(c, o) \in Refs
    BY <1>6 DEF Creates, WritesAssignment
  <2>2. p.status.id # None /\ p.status.exemptions = o.status.exemptions
    BY <2>1, CallFacts, BoundFacts, NoneAssumption
  <2> HIDE DEF p
  <2>3. /\ copy'[c].status.id = p.status.id /\ copy'[c].man = o.man
        /\ copy'[c].status.exemptions \in {o.status.exemptions, <<>>}
    BY <2>1, <2>2 DEF Advances, GoesOn
  <2>4. Tidy(o)
    BY <2>1 DEF TidyInv
  <2> QED BY <2>2, <2>3, <2>4, EmptyTidy DEF Tidy
<1>7. CASE Serves(c)
  <2>1. GoesOn(c) /\ pc[c] = "Service" /\ o.status.id # None /\ Tidy(o)
        /\ o.phase \in {"live", "deleting"}
    BY <1>7, CallFacts DEF Serves, LocalInv, CallOK, TidyInv, Objects, ObjectsOf
  <2>2. CASE o.phase = "deleting"
    BY <1>7, <2>1, <2>2 DEF Serves, Follows
  <2>3. CASE o.phase = "live"
    <3>1. PICK w : /\ Advances(c, o, Tail(todo), w)
                   /\ \A i \in DOMAIN w : /\ i \in DOMAIN o.man.spec.exemptions
                                          /\ w[i].key = o.man.spec.exemptions[i].key
      BY <1>7, <2>3, ServesWritten
    <3>2. DistinctKeys(w)
      BY <2>1, <3>1, KeysOfWritten DEF Tidy
    <3>3. /\ copy'[c].status.id = o.status.id /\ copy'[c].man = o.man
          /\ copy'[c].status.exemptions \in {o.status.exemptions, w}
      BY <2>1, <3>1 DEF Advances, GoesOn
    <3> QED BY <2>1, <3>2, <3>3 DEF Tidy
  <2> QED BY <2>1, <2>2, <2>3
<1> QED BY <1>1, <1>2, <1>3, <1>4, <1>5, <1>6, <1>7 DEF CopyMoves, Rests

LEMMA TidyStep ==
  ASSUME KeysApart, IInv, [Next]_vars, NEW c \in CRs, TidyInv(c), InOrder(c)
  PROVE  TidyInv(c)'
<1>1. ObjectMoves(c) /\ CacheMoves(c)
  BY NextOK DEF StepOK, ObjectStep
<1>2. Present(obj'[c]) => Tidy(obj'[c])
  BY <1>1, TidyObject
<1>3. Present(cache'[c]) => Tidy(cache'[c])
  BY <1>1 DEF CacheMoves, TidyInv
<1>4. pc'[c] # "idle" => Tidy(copy'[c])
  BY TidyCopy
<1> QED BY <1>2, <1>3, <1>4 DEF TidyInv, Tidy, Present

LEMMA InOrderStep ==
  ASSUME IInv, [Next]_vars, NEW c \in CRs, InOrder(c)
  PROVE  InOrder(c)'
<1> DEFINE o == copy[c]
<1>1. CopyMoves(c)
  BY NextOK DEF StepOK, ObjectStep
<1>2. CASE Stays(c)
  <2>1. pc'[c] = pc[c] /\ copy'[c] = copy[c] /\ (pc[c] # "idle" => UNCHANGED service)
    BY <1>2 DEF Stays, Waits, Quiet
  <2> QED BY <2>1 DEF InOrder, service
<1>3. CASE Creates(c)
  <2> DEFINE p == Bound(c, o)
  <2>1. /\ GoesOn(c) /\ Advances(c, p, CreatePlan(p), <<>>) /\ pc[c] = "Create"
        /\ Target(c, o) \in Refs
    BY <1>3 DEF Creates, WritesAssignment
  <2>2. p \in Objects /\ p.man = o.man
    BY <2>1, CallFacts, BoundFacts DEF Restated
  <2> HIDE DEF p
  <2>3. /\ copy'[c].man = p.man /\ todo' = CreatePlan(p)
        /\ pc'[c] = "Service" => results' = <<>>
    BY <2>1, <2>2 DEF Advances, GoesOn
  <2>4. Len(<<>>) = 0 /\ DOMAIN <<>> = {}
    OBVIOUS
  <2>5. ASSUME NEW k \in DOMAIN CreatePlan(p), CreatePlan(p)[k].op = "PutExemption"
        PROVE  /\ 0 + k = k /\ k \in DOMAIN p.man.spec.exemptions
               /\ CreatePlan(p)[k].of = p.man.spec.exemptions[k]
               /\ \A j \in 1..k : CreatePlan(p)[j].op = "PutExemption"
    <3>1. /\ k \in DOMAIN p.man.spec.exemptions
          /\ CreatePlan(p)[k].of = p.man.spec.exemptions[k]
          /\ \A j \in 1..k : CreatePlan(p)[j].op = "PutExemption"
      BY <2>2, <2>5, PutsFirst
    <3>2. p.man.spec.exemptions \in Seq(Entries)
      BY <2>2 DEF Objects, ObjectsOf, Manifests, Specs
    <3>3. k \in Nat
      BY <3>1, <3>2, LenProperties
    <3> QED BY <3>1, <3>3
  <2> QED BY <2>3, <2>4, <2>5 DEF InOrder
<1>4. CASE Serves(c)
  <2>1. GoesOn(c)
    BY <1>4 DEF Serves
  <2>2. CASE o.phase = "live"
    <3>1. PICK w \in Seq(Tracked) :
            /\ Advances(c, o, Tail(todo), w)
            /\ \A i \in DOMAIN w : /\ i \in DOMAIN o.man.spec.exemptions
                                   /\ w[i].key = o.man.spec.exemptions[i].key
            /\ \A k \in DOMAIN Tail(todo) :
                 Tail(todo)[k].op = "PutExemption" =>
                   /\ Len(w) + k \in DOMAIN o.man.spec.exemptions
                   /\ Tail(todo)[k].of = o.man.spec.exemptions[Len(w) + k]
                   /\ \A j \in 1..k : Tail(todo)[j].op = "PutExemption"
      BY <1>4, <2>2, ServesWritten
    <3>2. /\ copy'[c].man = o.man /\ todo' = Tail(todo)
          /\ pc'[c] = "Service" => results' = w
      BY <2>1, <3>1 DEF Advances, GoesOn
    <3> QED BY <3>1, <3>2 DEF InOrder
  <2>3. CASE o.phase # "live"
    BY <2>1, <2>3 DEF GoesOn, InOrder
  <2> QED BY <2>2, <2>3
<1>5. CASE Begins(c)
  BY <1>5 DEF Begins, InOrder
<1>6. CASE Rests(c) \/ Reports(c) \/ IsFree(c) \/ Imports(c)
  BY <1>6 DEF Rests, Reports, IsFree, Imports, InOrder
<1> QED BY <1>1, <1>2, <1>3, <1>4, <1>5, <1>6 DEF CopyMoves

-----------------------------------------------------------------------------
(* Exemptions stay listed until they are gone.                             *)

SafeNext(t, s) == exempted'[ExemptionId(t)] = None \/ \E j \in DOMAIN s : s[j].uuid = t.uuid

PendingNext(t) ==
  \/ SafeNext(t, results')
  \/ In([op |-> "DropExemption", of |-> t], todo')
  \/ \E k \in DOMAIN todo' : todo'[k].op = "PutExemption" /\ todo'[k].of.key = t.key

LEMMA ExemptionIdFacts ==
  ASSUME NEW t \in Tracked
  PROVE  ExemptionId(t) \in ExemptionIds /\ t.uuid \in Uuids
  BY DEF ExemptionId, ExemptionIds, Tracked

\* What is gone does not come back while c has a reconcile that is not about
\* to write an exemption.
LEMMA NoneStays ==
  ASSUME IInv, [Next]_vars, NEW c \in CRs, pc[c] # "idle",
         pc[c] = "Service" => Head(todo).op # "PutExemption",
         NEW t \in Tracked, exempted[ExemptionId(t)] = None
  PROVE  exempted'[ExemptionId(t)] = None
<1>1. ExemptionId(t) \in ExemptionIds
  BY ExemptionIdFacts
<1>2. CASE UNCHANGED cloud
  BY <1>2 DEF cloud
<1>3. CASE Shrinks
  BY <1>1, <1>3 DEF Shrinks
<1>4. ASSUME NEW d \in CRs, Touches(d)
      PROVE  exempted'[ExemptionId(t)] = None
  <2>1. pc[d] \in {"Create", "Service"}
    BY <1>4 DEF Touches, WritesAssignment
  <2>2. d = c
    BY <2>1 DEF IInv, Runtime, RuntimeInv, OneWorker
  <2>3. CASE pc[c] = "Create"
    BY <1>4, <2>2, <2>3 DEF Touches, WritesAssignment
  <2>4. CASE pc[c] = "Service"
    <3>1. Drops(c) \/ UNCHANGED exempted
      BY <1>4, <2>2, <2>4 DEF Touches, WritesAssignment, Puts, Gives, Takes, Deletes
    <3>2. exempted \in [ExemptionIds -> Exemptions \cup {None}]
      BY DEF IInv, OutsideTyped
    <3> QED BY <1>1, <3>1, <3>2 DEF Drops
  <2> QED BY <2>1, <2>2, <2>3, <2>4
<1> QED BY <1>2, <1>3, <1>4, CloudStep DEF CloudMoves

\* What the stored object lists.
LEMMA StoredFacts ==
  ASSUME IInv, NEW c \in CRs, fresh[c]
  PROVE  /\ pc[c] # "idle" /\ obj[c] \in Objects /\ Present(obj[c])
         /\ obj[c].status.exemptions \in Seq(Tracked)
         /\ \A i \in DOMAIN obj[c].status.exemptions : obj[c].status.exemptions[i] \in Tracked
<1>1. pc[c] # "idle" /\ Present(obj[c])
  BY DEF IInv, Runtime, RuntimeInv, Protocol, FlagsOK
<1>2. obj[c] \in Objects
  BY <1>1, CallFacts
<1>3. obj[c].status.exemptions \in Seq(Tracked)
  BY <1>2 DEF Objects, ObjectsOf, Statuses
<1>4. \A s \in Seq(Tracked) : \A i \in DOMAIN s : s[i] \in Tracked
  BY LenProperties, ElementOfSeq
<1> QED BY <1>1, <1>2, <1>3, <1>4

LEMMA SafeStays ==
  ASSUME IInv, [Next]_vars, NEW c \in CRs, pc[c] # "idle",
         pc[c] = "Service" => Head(todo).op # "PutExemption",
         NEW t \in Tracked, NEW s, SafeWith(t, s)
  PROVE  SafeNext(t, s)
  BY NoneStays DEF SafeWith, SafeNext

\* An exemption of the status that is pending stays so, and is safe when no
\* exemption is left to write or to delete.
LEMMA ServeStep ==
  ASSUME IInv, [Next]_vars, NEW c \in CRs, InOrder(c), TidyInv(c),
         pc[c] = "Service", copy[c].phase = "live",
         NEW w \in Seq(Tracked),
         \/ \E t \in Tracked : Puts(c, t) /\ w = Append(results, t)
         \/ w = results /\ (Drops(c) \/ Gives(c)),
         NEW i \in DOMAIN copy[c].status.exemptions, NEW t \in Tracked,
         t = copy[c].status.exemptions[i], Pending(t)
  PROVE  \/ SafeNext(t, w)
         \/ In([op |-> "DropExemption", of |-> t], Tail(todo))
         \/ \E k \in DOMAIN Tail(todo) : /\ Tail(todo)[k].op = "PutExemption"
                                         /\ Tail(todo)[k].of.key = t.key
<1> DEFINE o == copy[c]
<1>1. /\ o \in Objects /\ Tidy(o) /\ ExemptionId(t) \in ExemptionIds
      /\ results \in Seq(Tracked) /\ todo \in Seq(Operations) /\ todo # <<>>
      /\ exempted \in [ExemptionIds -> Exemptions \cup {None}]
  BY ServiceFacts, ExemptionIdFacts DEF TidyInv, IInv, OutsideTyped
<1>2. CASE \E u \in Tracked : Puts(c, u) /\ w = Append(results, u)
  <2> PICK u \in Tracked : Puts(c, u) /\ w = Append(results, u)
    BY <1>2
  <2>1. \A x : In(x, w) <=> In(x, results) \/ x = u
    BY <1>1, InAppend
  <2>2. ASSUME u.uuid = t.uuid
        PROVE  SafeNext(t, w)
    <3>1. In(u, w)
      BY <2>1
    <3> QED BY <2>2, <3>1 DEF In, SafeNext
  <2>3. CASE exempted[ExemptionId(t)] = None
    <3>1. ExemptionId(u) # ExemptionId(t) => exempted'[ExemptionId(t)] = None
      BY <1>1, <2>3 DEF Puts
    <3>2. ExemptionId(u) = ExemptionId(t) => u.uuid = t.uuid
      BY DEF ExemptionId
    <3> QED BY <2>2, <3>1, <3>2 DEF SafeNext
  <2>4. CASE \E j \in DOMAIN results : results[j].uuid = t.uuid
    <3>1. PICK j \in DOMAIN results : results[j].uuid = t.uuid
      BY <2>4
    <3>2. In(results[j], w)
      BY <2>1, <3>1 DEF In
    <3> QED BY <3>1, <3>2 DEF In, SafeNext
  <2>5. CASE In([op |-> "DropExemption", of |-> t], todo)
    <3>1. Head(todo) # [op |-> "DropExemption", of |-> t]
      BY DEF Puts
    <3> QED BY <2>5, <3>1, ServiceFacts
  <2>6. CASE \E k \in DOMAIN todo : todo[k].op = "PutExemption" /\ todo[k].of.key = t.key
    <3>1. PICK k \in DOMAIN todo : todo[k].op = "PutExemption" /\ todo[k].of.key = t.key
      BY <2>6
    <3>2. CASE k = 1
      <4>1. u.key = t.key /\ u.uuid \in NamesFor(o, t.key)
        BY <1>1, <3>1, <3>2, TailOrder DEF Puts
      <4>2. i \in Known(o, t.key)
        BY DEF Known
      <4>3. PICK j \in Known(o, t.key) : NamesFor(o, t.key) = {o.status.exemptions[j].uuid}
        BY <1>1, <4>2, NamesForFacts
      <4>4. j = i
        BY <1>1, <4>3 DEF Known, Tidy, DistinctKeys
      <4> QED BY <2>2, <4>1, <4>3, <4>4
    <3>3. CASE k # 1
      <4>1. k - 1 \in DOMAIN Tail(todo) /\ Tail(todo)[k - 1] = todo[k]
        BY <1>1, <3>3, TailOrder
      <4> QED BY <3>1, <4>1
    <3> QED BY <3>2, <3>3
  <2> QED BY <2>3, <2>4, <2>5, <2>6 DEF Pending, SafeWith
<1>3. CASE w = results /\ (Drops(c) \/ Gives(c))
  <2>1. Head(todo).op # "PutExemption"
    BY <1>3 DEF Drops, Gives
  <2>2. CASE SafeWith(t, results)
    BY <1>3, <2>1, <2>2, SafeStays
  <2>3. CASE In([op |-> "DropExemption", of |-> t], todo)
    <3>1. CASE Head(todo) = [op |-> "DropExemption", of |-> t]
      <4>1. exempted'[ExemptionId(t)] = None
        BY <1>1, <1>3, <3>1 DEF Drops, Gives
      <4> QED BY <4>1 DEF SafeNext
    <3>2. CASE Head(todo) # [op |-> "DropExemption", of |-> t]
      BY <2>3, <3>2, ServiceFacts
    <3> QED BY <3>1, <3>2
  <2>4. CASE \E k \in DOMAIN todo : todo[k].op = "PutExemption" /\ todo[k].of.key = t.key
    <3>1. PICK k \in DOMAIN todo : todo[k].op = "PutExemption" /\ todo[k].of.key = t.key
      BY <2>4
    <3>2. k # 1
      BY <1>1, <2>1, <3>1, TailOrder
    <3>3. k - 1 \in DOMAIN Tail(todo) /\ Tail(todo)[k - 1] = todo[k]
      BY <1>1, <3>2, TailOrder
    <3> QED BY <3>1, <3>3
  <2> QED BY <2>2, <2>3, <2>4 DEF Pending
<1> QED BY <1>2, <1>3

\* CreateOrUpdate plans something for every exemption of the status.
LEMMA PlanPending ==
  ASSUME NEW o \in Objects, o.phase = "live", NEW i \in DOMAIN o.status.exemptions
  PROVE  LET t == o.status.exemptions[i]
             plan == CreatePlan(o)
         IN  /\ \/ In([op |-> "DropExemption", of |-> t], plan)
                \/ \E k \in DOMAIN plan : plan[k].op = "PutExemption" /\ plan[k].of.key = t.key
             /\ Exempting(plan)
<1> DEFINE t == o.status.exemptions[i]
           e == o.man.spec.exemptions
           plan == CreatePlan(o)
<1>1. CASE i \in Gone(o)
  <2>1. In([op |-> "DropExemption", of |-> t], plan)
    BY <1>1, CreatePlanFacts
  <2> HIDE DEF plan, t
  <2>2. Exempting(plan)
    BY <2>1 DEF In, Exempting
  <2> QED BY <2>1, <2>2 DEF plan, t
<1>2. CASE i \notin Gone(o)
  <2>1. PICK j \in DOMAIN e : e[j].key = t.key
    BY <1>2 DEF Gone
  <2>2. In([op |-> "PutExemption", of |-> e[j]], plan)
    BY CreatePlanFacts
  <2> HIDE DEF plan, t, e
  <2>3. PICK k \in DOMAIN plan : plan[k] = [op |-> "PutExemption", of |-> e[j]]
    BY <2>2 DEF In
  <2>4. plan[k].op = "PutExemption" /\ plan[k].of.key = t.key
    BY <2>1, <2>3
  <2>5. Exempting(plan)
    BY <2>4 DEF Exempting
  <2> QED BY <2>4, <2>5 DEF plan, t
<1> QED BY <1>1, <1>2

\* Tracking, of the next state.
TrackingNext(c) ==
  fresh'[c] =>
    LET listed == copy'[c].status.exemptions
        stored == obj'[c].status.exemptions
        safe(s) == \A i \in DOMAIN stored : SafeNext(stored[i], s)
    IN  /\ pc'[c] \notin {"Service", "StatusUpdate", "ReportExisting"} => listed = stored
        /\ pc'[c] \in {"StatusUpdate", "ReportExisting"} => safe(listed)
        /\ pc'[c] = "Service" /\ copy'[c].phase = "live" /\ Exempting(todo') =>
             listed = stored /\ \A i \in DOMAIN stored : PendingNext(stored[i])
        /\ pc'[c] = "Service" /\ copy'[c].phase = "live" /\ ~Exempting(todo') =>
             listed = results' /\ safe(listed)

LEMMA NextTracking ==
  ASSUME NEW c \in CRs, TrackingNext(c)
  PROVE  Tracking(c)'
  BY DEF TrackingNext, Tracking, AllSafeWith, SafeWith, SafeNext, Pending, PendingNext,
         Exempting, In, ExemptionId

\* What is listed is safe.
LEMMA ListedIsSafe ==
  ASSUME NEW s, NEW i \in DOMAIN s
  PROVE  SafeNext(s[i], s)
  BY DEF SafeNext

LEMMA TrackingStays ==
  ASSUME IInv, [Next]_vars, NEW c \in CRs, Tracking(c), Stays(c)
  PROVE  TrackingNext(c)
<1> SUFFICES ASSUME fresh'[c]
             PROVE  TrackingNext(c)
  BY DEF TrackingNext
<1>1. /\ fresh[c] /\ obj'[c] = obj[c] /\ pc'[c] = pc[c] /\ copy'[c] = copy[c]
  BY DEF Stays, Waits
<1>2. todo' = todo /\ results' = results /\ Shrinks
  BY <1>1, StoredFacts DEF Stays, Quiet, service
<1>3. ASSUME NEW i \in DOMAIN obj[c].status.exemptions, NEW s,
             SafeWith(obj[c].status.exemptions[i], s)
      PROVE  SafeNext(obj[c].status.exemptions[i], s)
  BY <1>1, <1>2, <1>3, StoredFacts, ExemptionIdFacts DEF Shrinks, SafeWith, SafeNext
<1>4. ASSUME NEW i \in DOMAIN obj[c].status.exemptions, Pending(obj[c].status.exemptions[i])
      PROVE  PendingNext(obj[c].status.exemptions[i])
  BY <1>2, <1>3, <1>4 DEF Pending, PendingNext
<1> QED BY <1>1, <1>2, <1>3, <1>4 DEF Tracking, AllSafeWith, TrackingNext

LEMMA TrackingReports ==
  ASSUME IInv, [Next]_vars, NEW c \in CRs, Tracking(c), Reports(c)
  PROVE  TrackingNext(c)
<1> DEFINE o == copy[c]
<1> SUFFICES ASSUME fresh'[c]
             PROVE  \A i \in DOMAIN obj[c].status.exemptions :
                      SafeNext(obj[c].status.exemptions[i], o.status.exemptions)
  BY DEF TrackingNext, Reports, GoesOn
<1>1. /\ fresh[c] /\ pc[c] # "idle" /\ LocalInv(c) /\ o.phase \in {"live", "deleting"}
      /\ \A i \in DOMAIN obj[c].status.exemptions : obj[c].status.exemptions[i] \in Tracked
  BY StoredFacts, CallFacts DEF Reports, GoesOn, Objects, ObjectsOf
<1>2. CASE o.status.exemptions = obj[c].status.exemptions
  BY <1>2, ListedIsSafe
<1>3. CASE o.status.exemptions # obj[c].status.exemptions
  <2>1. /\ AllSafeWith(c, o.status.exemptions)
        /\ pc[c] = "Service" => ~Exempting(todo)
    BY <1>1, <1>3 DEF Tracking, LocalInv, CopyAgrees
  <2>2. pc[c] = "Service" => Head(todo).op # "PutExemption"
    BY <2>1, ServiceFacts DEF Exempting, In
  <2> QED BY <1>1, <2>1, <2>2, SafeStays DEF AllSafeWith
<1> QED BY <1>2, <1>3

LEMMA TrackingCreates ==
  ASSUME IInv, NEW c \in CRs, Tracking(c), Creates(c)
  PROVE  TrackingNext(c)
<1> DEFINE o == copy[c]
           p == Bound(c, o)
           stored == obj[c].status.exemptions
<1> SUFFICES ASSUME fresh'[c]
             PROVE  TrackingNext(c)
  BY DEF TrackingNext
<1>1. /\ GoesOn(c) /\ Advances(c, p, CreatePlan(p), <<>>) /\ pc[c] = "Create" /\ fresh[c]
      /\ Target(c, o) \in Refs /\ o.phase = "live" /\ o.status.exemptions = stored
  BY CallFacts DEF Creates, WritesAssignment, GoesOn, LocalInv, CallOK, Tracking
<1>2. p \in Objects /\ p.phase = "live" /\ p.status.exemptions = stored
  BY <1>1, CallFacts, BoundFacts DEF Restated
<1> HIDE DEF p, stored
<1>3. /\ obj'[c].status.exemptions = stored /\ todo' = CreatePlan(p)
      /\ copy'[c].status.exemptions = IF Exempting(CreatePlan(p)) THEN stored ELSE <<>>
      /\ CreatePlan(p) # <<>> => pc'[c] = "Service" /\ results' = <<>>
      /\ CreatePlan(p) = <<>> => pc'[c] = "StatusUpdate"
  BY <1>1, <1>2 DEF Advances, GoesOn, stored
<1>4. CASE Exempting(CreatePlan(p))
  <2>1. CreatePlan(p) # <<>>
    BY <1>4 DEF Exempting
  <2>2. ASSUME NEW i \in DOMAIN stored
        PROVE  PendingNext(stored[i])
    BY <1>2, <1>3, PlanPending DEF PendingNext
  <2> QED BY <1>3, <1>4, <2>1, <2>2 DEF TrackingNext
<1>5. CASE ~Exempting(CreatePlan(p))
  <2>1. \A i \in DOMAIN stored : FALSE
    BY <1>2, <1>5, PlanPending
  <2> QED BY <1>3, <1>5, <2>1 DEF TrackingNext
<1> QED BY <1>4, <1>5

LEMMA TrackingServes ==
  ASSUME IInv, [Next]_vars, NEW c \in CRs, InOrder(c), TidyInv(c), Tracking(c), Serves(c)
  PROVE  TrackingNext(c)
<1> DEFINE o == copy[c]
           stored == obj[c].status.exemptions
           rest == Tail(todo)
<1> SUFFICES ASSUME fresh'[c]
             PROVE  TrackingNext(c)
  BY DEF TrackingNext
<1>1. /\ GoesOn(c) /\ pc[c] = "Service" /\ fresh[c] /\ LocalInv(c)
      /\ o.phase \in {"live", "deleting"} /\ copy'[c].phase = o.phase
      /\ obj'[c].status.exemptions = stored
      /\ \A i \in DOMAIN stored : stored[i] \in Tracked
  BY CallFacts, StoredFacts DEF Serves, GoesOn, Objects, ObjectsOf
<1>2. CASE o.phase = "deleting"
  <2>1. copy'[c] = o /\ pc'[c] \in {"RemoveFinalizer", "Service"}
    BY <1>2 DEF Serves, Follows
  <2>2. o.status.exemptions = stored
    BY <1>1, <1>2 DEF LocalInv, CopyAgrees
  <2> QED BY <1>1, <1>2, <2>1, <2>2 DEF TrackingNext
<1>3. CASE o.phase = "live"
  <2>1. PICK w \in Seq(Tracked) :
          /\ Advances(c, o, rest, w)
          /\ \/ \E t \in Tracked : Puts(c, t) /\ w = Append(results, t)
             \/ w = results /\ (Drops(c) \/ Gives(c))
    BY <1>3, ServesWritten
  <2>2. /\ todo' = rest
        /\ copy'[c].status.exemptions = IF Exempting(rest) THEN o.status.exemptions ELSE w
        /\ rest # <<>> => pc'[c] = "Service" /\ results' = w
        /\ rest = <<>> => pc'[c] = "StatusUpdate"
    BY <2>1 DEF Advances
  <2>3. /\ \A x : In(x, todo) <=> x = Head(todo) \/ In(x, rest)
        /\ In(Head(todo), todo)
    BY <1>1, ServiceFacts
  <2> HIDE DEF stored, rest
  <2>4. CASE Exempting(todo)
    <3>1. o.status.exemptions = stored /\ \A i \in DOMAIN stored : Pending(stored[i])
      BY <1>1, <1>3, <2>4 DEF Tracking, stored
    <3>2. ASSUME NEW i \in DOMAIN stored
          PROVE  \/ SafeNext(stored[i], w)
                 \/ In([op |-> "DropExemption", of |-> stored[i]], rest)
                 \/ \E k \in DOMAIN rest : /\ rest[k].op = "PutExemption"
                                           /\ rest[k].of.key = stored[i].key
      BY <1>1, <1>3, <2>1, <3>1, ServeStep DEF rest
    <3>3. CASE Exempting(rest)
      <4>1. rest # <<>>
        BY <3>3 DEF Exempting
      <4>2. \A i \in DOMAIN stored : PendingNext(stored[i])
        BY <2>2, <3>2, <4>1 DEF PendingNext
      <4> QED BY <1>1, <2>2, <3>1, <3>3, <4>1, <4>2 DEF TrackingNext
    <3>4. CASE ~Exempting(rest)
      <4>1. \A i \in DOMAIN stored : SafeNext(stored[i], w)
        BY <3>2, <3>4 DEF Exempting, In
      <4> QED BY <1>1, <2>2, <3>4, <4>1 DEF TrackingNext
    <3> QED BY <3>3, <3>4
  <2>5. CASE ~Exempting(todo)
    <3>1. Head(todo).op \notin {"PutExemption", "DropExemption"} /\ ~Exempting(rest)
      BY <2>3, <2>5 DEF Exempting, In
    <3>2. w = results
      BY <2>1, <3>1 DEF Puts
    <3>3. o.status.exemptions = results /\ AllSafeWith(c, results)
      BY <1>1, <1>3, <2>5 DEF Tracking
    <3>4. \A i \in DOMAIN stored : SafeNext(stored[i], w)
      BY <1>1, <3>1, <3>2, <3>3, SafeStays DEF AllSafeWith, stored
    <3> QED BY <1>1, <2>2, <3>1, <3>4 DEF TrackingNext
  <2> QED BY <2>4, <2>5
<1> QED BY <1>1, <1>2, <1>3

LEMMA TrackingStep ==
  ASSUME IInv, [Next]_vars, NEW c \in CRs, InOrder(c), TidyInv(c), Tracking(c)
  PROVE  Tracking(c)'
<1>1. CopyMoves(c)
  BY NextOK DEF StepOK, ObjectStep
<1> SUFFICES TrackingNext(c)
  BY NextTracking
<1>2. CASE Rests(c)
  BY <1>2 DEF Rests, TrackingNext
<1>3. CASE Begins(c)
  <2>1. synced[c] => cache[c] = obj[c]
    BY DEF IInv, Runtime, RuntimeInv, Protocol, FlagsOK
  <2>2. /\ fresh'[c] => copy'[c].status.exemptions = obj'[c].status.exemptions
        /\ pc'[c] = "Service" => copy'[c].phase = "deleting"
    BY <1>3, <2>1 DEF Begins
  <2> QED BY <2>2, ListedIsSafe DEF TrackingNext
<1>4. CASE IsFree(c) \/ Imports(c)
  <2>1. /\ fresh'[c] => copy'[c].status.exemptions = obj'[c].status.exemptions
        /\ pc'[c] # "Service"
    BY <1>4 DEF IsFree, Imports, GoesOn, Tracking
  <2>2. fresh'[c] => \A i \in DOMAIN obj'[c].status.exemptions :
                       SafeNext(obj'[c].status.exemptions[i], copy'[c].status.exemptions)
    BY <2>1, ListedIsSafe
  <2> QED BY <2>1, <2>2 DEF TrackingNext
<1>5. CASE Stays(c)
  BY <1>5, TrackingStays
<1>6. CASE Reports(c)
  BY <1>6, TrackingReports
<1>7. CASE Creates(c)
  BY <1>7, TrackingCreates
<1>8. CASE Serves(c)
  BY <1>8, TrackingServes
<1> QED BY <1>1, <1>2, <1>3, <1>4, <1>5, <1>6, <1>7, <1>8 DEF CopyMoves

LEMMA ListInvariance ==
  ASSUME KeysApart
  PROVE  Spec => []\A c \in CRs : ListInv(c)
<1> DEFINE Lists == \A c \in CRs : ListInv(c)
<1>1. Init => Lists
  BY DEF Init, RuntimeInit, ListInv, TidyInv, InOrder, Tracking, Present, Absent
<1>2. IInv /\ Lists /\ [Next]_vars => Lists'
  BY TidyStep, InOrderStep, TrackingStep DEF ListInv
<1> HIDE DEF Lists
<1>3. Spec => []Lists
  BY <1>1, <1>2, Invariance, PTL DEF Spec
<1> QED BY <1>3 DEF Lists

\* However CreateOrUpdate and Delete are cut off, and whatever is edited in the
\* meantime, the random name of an inline exemption stays in the status until
\* the exemption is gone: the failed calls leave the old list, which names
\* every old exemption, and the new list is stored only when those that it
\* leaves out are deleted.
THEOREM ExemptionsAreTracked ==
  ASSUME KeysApart
  PROVE  Spec => TrackedUntilGone
<1> DEFINE Lists == \A c \in CRs : ListInv(c)
<1>1. ASSUME IInv, Lists, [Next]_vars, NEW c \in CRs, Present(obj[c]),
             NEW i \in DOMAIN obj[c].status.exemptions
      PROVE  LET t == obj[c].status.exemptions[i]
             IN  \/ exempted[ExemptionId(t)] = None
                 \/ /\ Present(obj'[c])
                    /\ \E j \in DOMAIN obj'[c].status.exemptions :
                         obj'[c].status.exemptions[j].uuid = t.uuid
  <2> DEFINE t == obj[c].status.exemptions[i]
  <2>1. ObjectMoves(c) /\ LocalInv(c) /\ Protocol(c) /\ Tidy(obj[c]) /\ Tracking(c)
    BY <1>1, NextOK DEF StepOK, ObjectStep, IInv, Runtime, RuntimeInv, ListInv, TidyInv
  <2>2. obj[c].status.exemptions # <<>>
    OBVIOUS
  <2>3. HasId(obj[c])
    BY <1>1, <2>1, <2>2 DEF Tidy, HasId
  <2>4. CASE Vanishes(c)
    BY <1>1, <2>1, <2>3, <2>4 DEF Vanishes, HasFinalizer, Protocol, GuardOK
  <2>5. CASE Ended(c)
    <3>1. /\ pc[c] = "RemoveFinalizer" /\ copy[c].phase = "deleting"
          /\ copy[c].status.id = obj[c].status.id
          /\ copy[c].status.exemptions = obj[c].status.exemptions
          /\ copy[c] \in Objects /\ copy[c].status.id # None
      BY <1>1, <2>1, <2>3, <2>5, CallFacts DEF Ended, LocalInv, CallOK, CopyAgrees, HasId
    <3> DEFINE x == [op |-> "DropExemption", of |-> copy[c].status.exemptions[i]]
    <3>2. x \in Operations /\ In(x, DeletePlan(copy[c]))
      BY <3>1, DeletePlanFacts
    <3>3. Deleted(copy[c], x)
      BY <2>1, <3>1, <3>2 DEF LocalInv, CleansAll
    <3> QED BY <3>1, <3>3 DEF Deleted
  <2>6. CASE Edited(c)
    BY <1>1, <2>6 DEF Edited, Present
  <2>7. CASE Reported(c)
    <3>1. SafeWith(t, copy[c].status.exemptions)
      BY <2>1, <2>7 DEF Reported, Tracking, AllSafeWith
    <3>2. Present(obj'[c]) /\ obj'[c].status.exemptions = copy[c].status.exemptions
      BY <2>7 DEF Reported, Present
    <3> QED BY <3>1, <3>2 DEF SafeWith
  <2>8. ~Created(c, NoStatus)
    BY <1>1 DEF Created
  <2> QED BY <2>1, <2>4, <2>5, <2>6, <2>7, <2>8 DEF ObjectMoves
<1> HIDE DEF Lists
<1>2. IInv /\ Lists /\ [Next]_vars =>
        [\A c \in CRs :
           Present(obj[c]) =>
             \A i \in DOMAIN obj[c].status.exemptions :
               LET t == obj[c].status.exemptions[i]
               IN  \/ exempted[ExemptionId(t)] = None
                   \/ /\ Present(obj'[c])
                      /\ \E j \in DOMAIN obj'[c].status.exemptions :
                           obj'[c].status.exemptions[j].uuid = t.uuid]_vars
  BY <1>1
<1>3. Spec => []Lists
  BY ListInvariance DEF Lists
<1> QED BY <1>2, <1>3, Invariance, PTL DEF Spec, TrackedUntilGone

-----------------------------------------------------------------------------
(* Names.  A bound object has the name that it has always asked for, and   *)
(* its manifests ask for names of its own.                                 *)

\* The name that o is bound to, or that a reconcile of o will bind it to.
NameToTake(c, o) ==
  IF o.status.id # None THEN o.status.id.name
  ELSE IF o.man.importId # None THEN o.man.importId.name
  ELSE OwnName(c, o.man)

\* The names that the manifests of c ask for.
OwnNames(c) ==
  Names \cap ({NameOf[c]} \cup {m.importName : m \in Offers[c]}
              \cup {m.importId.name : m \in {n \in Offers[c] : n.importId # None}})

\* Two objects never ask for the same name.
NamesApart == \A c, d \in CRs : c # d => OwnNames(c) \cap OwnNames(d) = {}

Own(c, o) == NameToTake(c, o) \in Names => NameToTake(c, o) \in OwnNames(c)

OwnInv(c) ==
  /\ Present(obj[c]) => Own(c, obj[c])
  /\ Present(cache[c]) => Own(c, cache[c])
  /\ pc[c] # "idle" => Own(c, copy[c])

\* A cache that does not show the binding yet still asks for that name, and
\* so does every copy that was read from it.
NameInv(c) ==
  /\ pc[c] \in {"Get", "Create"} => copy[c].man.importId = None \/ copy[c].status.id # None
  /\ fresh[c] => NameToTake(c, copy[c]) = NameToTake(c, obj[c])
  /\ HasId(obj[c]) =>
       /\ Present(cache[c]) => NameToTake(c, cache[c]) = obj[c].status.id.name
       /\ pc[c] # "idle" => NameToTake(c, copy[c]) = obj[c].status.id.name

\* Where the copy of the next state has its name from.
LEMMA CopyName ==
  ASSUME IInv, [Next]_vars, NEW c \in CRs, NameInv(c), pc'[c] # "idle"
  PROVE  /\ IF pc[c] = "idle"
            THEN Present(cache[c]) /\ NameToTake(c, copy'[c]) = NameToTake(c, cache[c])
            ELSE NameToTake(c, copy'[c]) = NameToTake(c, copy[c])
         /\ pc'[c] \in {"Get", "Create"} =>
              copy'[c].man.importId = None \/ copy'[c].status.id # None
<1> DEFINE o == copy[c]
           p == copy'[c]
<1>1. CopyMoves(c) /\ LocalInv(c)
  BY NextOK DEF StepOK, ObjectStep, IInv
<1>2. pc[c] # "idle" => o \in Objects /\ o.status.observed <= o.gen
  BY CallFacts
<1>3. CASE Rests(c)
  BY <1>3 DEF Rests
<1>4. CASE Stays(c)
  BY <1>4 DEF Stays, Waits, NameInv
<1>5. CASE Begins(c)
  BY <1>5 DEF Begins, SameButDefinition, NameToTake, OwnName
<1>6. ASSUME pc[c] # "idle", p.man = o.man, p.status.id = o.status.id, pc'[c] # "Get",
             pc'[c] = "Create" => pc[c] = "Get"
      PROVE  NameToTake(c, p) = NameToTake(c, o) /\
             (pc'[c] \in {"Get", "Create"} => p.man.importId = None \/ p.status.id # None)
  BY <1>6 DEF NameToTake, NameInv
<1>7. CASE Reports(c)
  BY <1>6, <1>7 DEF Reports, GoesOn
<1>8. CASE IsFree(c)
  BY <1>6, <1>8 DEF IsFree, GoesOn
<1>9. CASE Imports(c)
  <2>1. /\ pc[c] = "Import" /\ p.status.id = o.man.importId /\ p.man = o.man
        /\ o.man.importId # None /\ ~Rebinds(o)
    BY <1>1, <1>9 DEF Imports, GoesOn, LocalInv, CallOK
  <2> QED BY <2>1 DEF NameToTake, Rebinds, RefOf
<1>10. CASE Creates(c)
  <2>1. /\ pc[c] = "Create" /\ p.man = o.man /\ p.status.id = Bound(c, o).status.id
        /\ Target(c, o) \in Refs /\ pc'[c] \notin {"Get", "Create"}
    BY <1>10 DEF Creates, GoesOn, WritesAssignment, Advances
  <2>2. p.status.id \in Ids /\ p.status.id.name = Target(c, o).name
    BY <1>2, <2>1, BoundFacts DEF RefOf
  <2>3. p.status.id # None
    BY <2>2, NoneAssumption
  <2>4. Target(c, o).name = NameToTake(c, o)
    BY <2>1 DEF NameInv, NameToTake, Target
  <2> QED BY <2>1, <2>2, <2>3, <2>4 DEF NameToTake
<1>11. CASE Serves(c)
  <2>1. /\ pc[c] = "Service" /\ p.man = o.man /\ p.status.id = o.status.id
        /\ pc'[c] \notin {"Get", "Create"}
    BY <1>2, <1>11 DEF Serves, GoesOn, Follows, Advances, Objects, ObjectsOf
  <2> QED BY <1>6, <2>1
<1> QED BY <1>1, <1>3, <1>4, <1>5, <1>7, <1>8, <1>9, <1>10, <1>11 DEF CopyMoves

LEMMA NameStep ==
  ASSUME IInv, [Next]_vars, NEW c \in CRs, NameInv(c)
  PROVE  NameInv(c)'
<1> DEFINE o == copy[c]
           p == copy'[c]
<1>1. /\ ObjectMoves(c) /\ CacheMoves(c) /\ CopyMoves(c) /\ LocalInv(c) /\ Protocol(c)
      /\ (pc[c] # "idle" => o \in Objects)
  BY NextOK, CallFacts DEF StepOK, ObjectStep, IInv, Runtime, RuntimeInv
<1>2. ASSUME pc'[c] # "idle"
      PROVE  /\ IF pc[c] = "idle"
                THEN Present(cache[c]) /\ NameToTake(c, p) = NameToTake(c, cache[c])
                ELSE NameToTake(c, p) = NameToTake(c, o)
             /\ pc'[c] \in {"Get", "Create"} => p.man.importId = None \/ p.status.id # None
  BY <1>2, CopyName
<1>3. /\ fresh'[c] => pc'[c] # "idle" /\ obj'[c] = obj[c]
      /\ fresh'[c] /\ pc[c] = "idle" => cache[c] = obj[c]
      /\ fresh'[c] /\ pc[c] # "idle" => fresh[c]
  <2>1. /\ fresh[c] => pc[c] # "idle"
        /\ synced[c] => cache[c] = obj[c]
    BY <1>1 DEF Protocol, FlagsOK
  <2>2. fresh'[c] => pc'[c] # "idle"
    BY Step DEF IInv, Runtime, RuntimeInv, Protocol, FlagsOK
  <2>3. CASE Rests(c)
    BY <2>3 DEF Rests
  <2>4. CASE Stays(c)
    BY <2>1, <2>2, <2>4 DEF Stays, Waits
  <2>5. CASE Begins(c)
    BY <2>1, <2>2, <2>5 DEF Begins
  <2>6. CASE GoesOn(c)
    BY <2>1, <2>2, <2>6 DEF GoesOn
  <2>7. Rests(c) \/ Stays(c) \/ Begins(c) \/ GoesOn(c)
    BY <1>1 DEF CopyMoves, Reports, IsFree, Imports, Creates, Serves
  <2> QED BY <2>3, <2>4, <2>5, <2>6, <2>7
<1>4. fresh'[c] => NameToTake(c, p) = NameToTake(c, obj'[c])
  BY <1>2, <1>3 DEF NameInv
<1>5. ASSUME HasId(obj'[c])
      PROVE  /\ Present(cache'[c]) => NameToTake(c, cache'[c]) = obj'[c].status.id.name
             /\ pc'[c] # "idle" => NameToTake(c, p) = obj'[c].status.id.name
  <2>1. CASE HasId(obj[c]) /\ obj'[c].status.id = obj[c].status.id
    <3>1. NameToTake(c, obj[c]) = obj[c].status.id.name
      BY <2>1 DEF NameToTake, HasId
    <3> QED BY <1>1, <1>2, <2>1, <3>1 DEF NameInv, CacheMoves
  <2>2. CASE Reported(c)
    <3>1. /\ obj'[c].status.id = o.status.id /\ o.status.id # None
          /\ pc'[c] = "idle" /\ cache[c] = obj[c] /\ fresh[c]
      BY <1>1, <1>5, <2>2 DEF Reported, Rests, Protocol, FlagsOK, HasId
    <3>2. NameToTake(c, o) = o.status.id.name
      BY <3>1 DEF NameToTake
    <3> QED BY <1>1, <3>1, <3>2 DEF NameInv, CacheMoves
  <2>3. CASE Edited(c)
    BY <1>5, <2>1, <2>3 DEF Edited, HasId
  <2>4. CASE Created(c, NoStatus)
    BY <1>5, <2>4 DEF Created, NoStatus, HasId
  <2>5. CASE Vanishes(c) \/ Ended(c)
    BY <1>5, <2>5 DEF Vanishes, Ended, HasId
  <2> QED BY <1>1, <2>2, <2>3, <2>4, <2>5 DEF ObjectMoves
<1> QED BY <1>2, <1>4, <1>5 DEF NameInv, NameToTake, HasId, Present, OwnName

\* What an offer asks for is one of the names of its object.
LEMMA OfferName ==
  ASSUME NEW c \in CRs, NEW o, o.status.id = None, o.man \in Offers[c]
  PROVE  Own(c, o)
<1>1. CASE o.man.importId # None
  BY <1>1 DEF Own, OwnNames, NameToTake
<1>2. CASE o.man.importId = None
  BY <1>2 DEF Own, OwnNames, NameToTake, OwnName
<1> QED BY <1>1, <1>2

LEMMA OwnStep ==
  ASSUME IInv, [Next]_vars, NEW c \in CRs, NameInv(c), OwnInv(c)
  PROVE  OwnInv(c)'
<1>1. /\ ObjectMoves(c) /\ CacheMoves(c) /\ LocalInv(c) /\ Protocol(c)
  BY NextOK DEF StepOK, ObjectStep, IInv, Runtime, RuntimeInv
<1>2. pc'[c] # "idle" => Own(c, copy'[c])
  BY CopyName DEF OwnInv, Own
<1>3. Present(cache'[c]) => Own(c, cache'[c])
  BY <1>1 DEF CacheMoves, OwnInv
<1>4. ASSUME Present(obj'[c])
      PROVE  Own(c, obj'[c])
  <2>1. CASE Created(c, NoStatus)
    BY <2>1, OfferName DEF Created, NoStatus
  <2>2. CASE Edited(c)
    <3>1. /\ Present(obj[c]) /\ obj'[c].status = obj[c].status
          /\ obj'[c].man = obj[c].man \/ obj'[c].man \in Offers[c]
      BY <2>2 DEF Edited
    <3>2. CASE obj'[c].status.id = None /\ obj'[c].man \in Offers[c]
      BY <3>2, OfferName
    <3>3. CASE obj'[c].status.id # None \/ obj'[c].man = obj[c].man
      BY <3>1, <3>3 DEF OwnInv, Own, NameToTake
    <3> QED BY <3>1, <3>2, <3>3
  <2>3. CASE Reported(c)
    <3>1. /\ Present(obj[c]) /\ fresh[c] /\ pc[c] # "idle"
          /\ obj'[c].status = copy[c].status /\ obj'[c].man = obj[c].man
      BY <2>3 DEF Reported
    <3>2. CASE copy[c].status.id # None
      BY <3>1, <3>2 DEF OwnInv, Own, NameToTake
    <3>3. CASE copy[c].status.id = None
      BY <1>1, <3>1, <3>3 DEF LocalInv, CopyAgrees, OwnInv, Own, NameToTake
    <3> QED BY <3>2, <3>3
  <2>4. CASE Vanishes(c) \/ Ended(c)
    BY <1>4, <2>4 DEF Vanishes, Ended
  <2> QED BY <1>1, <2>1, <2>2, <2>3, <2>4 DEF ObjectMoves
<1> QED BY <1>2, <1>3, <1>4 DEF OwnInv, Own, NameToTake, OwnName, OwnNames, Present

\* A copy of the current generation has the spec of the object.
SpecInv(c) ==
  Present(obj[c]) /\ pc[c] # "idle" /\ copy[c].gen = obj[c].gen =>
    /\ copy[c].man.spec.scope = obj[c].man.spec.scope
    /\ copy[c].man.spec.exemptions = obj[c].man.spec.exemptions
    /\ copy[c].man.spec.permissions = obj[c].man.spec.permissions

LEMMA SpecStep ==
  ASSUME IInv, [Next]_vars, NEW c \in CRs, SpecInv(c)
  PROVE  SpecInv(c)'
<1> DEFINE o == copy[c]
           p == copy'[c]
<1>1. /\ ObjectMoves(c) /\ CopyMoves(c) /\ Protocol(c)
      /\ (Present(obj[c]) => obj[c] \in Objects) /\ edits \in Nat
  BY NextOK, CopyFields DEF StepOK, ObjectStep, IInv, Runtime, RuntimeInv, Objects
<1> SUFFICES ASSUME Present(obj'[c]), pc'[c] # "idle", p.gen = obj'[c].gen
             PROVE  /\ p.man.spec.scope = obj'[c].man.spec.scope
                    /\ p.man.spec.exemptions = obj'[c].man.spec.exemptions
                    /\ p.man.spec.permissions = obj'[c].man.spec.permissions
  BY DEF SpecInv, Present
<1>2. CASE Stays(c)
  <2>1. p = o /\ pc[c] # "idle"
    BY <1>2 DEF Stays, Waits
  <2>2. o.gen \in Nat /\ o.gen <= edits
    BY <1>1, <2>1, CallFacts DEF Protocol, GenOK, Dated, Objects, ObjectsOf
  <2>3. CASE Created(c, NoStatus)
    BY <1>1, <2>1, <2>2, <2>3 DEF Created
  <2>4. CASE Edited(c)
    <3>1. /\ Present(obj[c]) /\ obj'[c].man.spec = obj[c].man.spec
          /\ obj'[c].gen = obj[c].gen
      BY <1>1, <2>1, <2>2, <2>4 DEF Edited
    <3> QED BY <2>1, <3>1 DEF SpecInv
  <2>5. ~Reported(c) /\ ~Vanishes(c) /\ ~Ended(c)
    BY DEF Reported, Rests, Vanishes, Ended
  <2> QED BY <1>1, <2>3, <2>4, <2>5 DEF ObjectMoves
<1>3. CASE Begins(c)
  <2>1. /\ Present(cache[c]) /\ obj'[c] = obj[c] /\ p.gen = cache[c].gen
        /\ SameButDefinition(p.man, cache[c].man)
    BY <1>3 DEF Begins
  <2>2. cache[c].man.spec = obj[c].man.spec
    BY <1>1, <2>1 DEF Protocol, GenOK
  <2> QED BY <2>1, <2>2 DEF SameButDefinition
<1>4. CASE GoesOn(c)
  BY <1>4 DEF GoesOn, SpecInv
<1>5. Stays(c) \/ Begins(c) \/ GoesOn(c)
  BY <1>1 DEF CopyMoves, Rests, Reports, IsFree, Imports, Creates, Serves
<1> QED BY <1>2, <1>3, <1>4, <1>5

-----------------------------------------------------------------------------
(* Who holds a UUID.                                                       *)

Lists(s, k, u) == \E i \in DOMAIN s : s[i].key = k /\ s[i].uuid = u

\* The object c knows an inline exemption k under the name u, or has it in
\* Azure.
Holds(c, k, u) ==
  \/ Present(obj[c]) /\ Lists(obj[c].status.exemptions, k, u)
  \/ Present(cache[c]) /\ Lists(cache[c].status.exemptions, k, u)
  \/ pc[c] # "idle" /\ Lists(copy[c].status.exemptions, k, u)
  \/ pc[c] = "Service" /\ copy[c].phase = "live" /\ Lists(results, k, u)
  \/ \E s \in Scopes : LET x == exempted[[scope |-> s, uuid |-> u]]
                       IN  x # None /\ x.by = c /\ x.key = k

\* A name belongs to one object and to one display name.
OneHolder ==
  \A u \in Uuids : \A c, d \in CRs : \A k, l :
    Holds(c, k, u) /\ Holds(d, l, u) => c = d /\ k = l

\* The exemption k that c writes next may get the new name u.
GetsName(c, k, u) ==
  /\ pc[c] = "Service" /\ Head(todo).op = "PutExemption" /\ Head(todo).of.key = k
  /\ u \in NewUuids

\* Nobody holds a new name.
LEMMA NewIsFree ==
  ASSUME IInv, NEW c \in CRs, NEW k, NEW u \in NewUuids
  PROVE  ~Holds(c, k, u)
<1>1. \A s \in Scopes : exempted[[scope |-> s, uuid |-> u]] = None
  BY DEF NewUuids
<1>2. ~Lists(results, k, u)
  BY DEF NewUuids, Lists
<1>3. \A o \in {obj[c], cache[c], copy[c]} : Present(o) => ~Lists(o.status.exemptions, k, u)
  BY DEF NewUuids, Lists
<1>4. pc[c] # "idle" => Present(copy[c])
  BY CallFacts DEF Objects, ObjectsOf, Present
<1> QED BY <1>1, <1>2, <1>3, <1>4 DEF Holds

LEMMA ListsAppend ==
  ASSUME NEW s \in Seq(Tracked), NEW t \in Tracked, NEW k, NEW u, Lists(Append(s, t), k, u)
  PROVE  Lists(s, k, u) \/ (t.key = k /\ t.uuid = u)
<1>1. PICK x : In(x, Append(s, t)) /\ x.key = k /\ x.uuid = u
  BY DEF Lists, In
<1>2. In(x, s) \/ x = t
  BY <1>1, InAppend
<1> QED BY <1>1, <1>2 DEF Lists, In

\* An exemption is written under a name that its object holds, or a new one.
LEMMA PutName ==
  ASSUME IInv, NEW c \in CRs, pc[c] = "Service", NEW t \in Tracked, Puts(c, t)
  PROVE  Holds(c, t.key, t.uuid) \/ GetsName(c, t.key, t.uuid)
<1> DEFINE o == copy[c]
<1>1. o \in Objects /\ t.uuid \in NamesFor(o, t.key)
  BY CallFacts DEF Puts
<1>2. CASE Known(o, t.key) # {}
  <2>1. PICK i \in Known(o, t.key) : NamesFor(o, t.key) = {o.status.exemptions[i].uuid}
    BY <1>1, <1>2, NamesForFacts
  <2> QED BY <1>1, <2>1 DEF Known, Holds, Lists
<1>3. CASE Known(o, t.key) = {}
  BY <1>1, <1>3, NamesForFacts DEF GetsName, Puts
<1> QED BY <1>2, <1>3

\* The step of a running CreateOrUpdate.
LEMMA ServesLive ==
  ASSUME IInv, NEW c \in CRs, Serves(c), copy[c].phase = "live"
  PROVE  /\ pc[c] = "Service"
         /\ \/ \E t \in Tracked : /\ Puts(c, t)
                                  /\ Advances(c, copy[c], Tail(todo), Append(results, t))
            \/ (Drops(c) \/ Gives(c)) /\ Advances(c, copy[c], Tail(todo), results)
<1>1. pc[c] = "Service" /\ Head(todo).op \in CallsFor(copy[c])
  BY ServiceFacts DEF Serves
<1>2. ~Takes(c) /\ ~Deletes(c)
  BY <1>1 DEF CallsFor, Takes, Deletes
<1> QED BY <1>1, <1>2 DEF Serves, Follows

LEMMA CopyHolds ==
  ASSUME IInv, [Next]_vars, NEW c \in CRs, NEW k, NEW u \in Uuids, pc'[c] # "idle",
         \/ Lists(copy'[c].status.exemptions, k, u)
         \/ pc'[c] = "Service" /\ copy'[c].phase = "live" /\ Lists(results', k, u)
  PROVE  Holds(c, k, u) \/ GetsName(c, k, u)
<1> DEFINE o == copy[c]
<1>1. CopyMoves(c) /\ (pc[c] # "idle" => o \in Objects /\ o.status.observed <= o.gen)
  BY NextOK, CallFacts DEF StepOK, ObjectStep
<1>2. CASE Stays(c)
  BY <1>2 DEF Stays, Waits, Quiet, service, Holds
<1>3. CASE Begins(c)
  BY <1>3 DEF Begins, Holds
<1>4. CASE Reports(c) \/ IsFree(c) \/ Imports(c)
  BY <1>4 DEF Reports, IsFree, Imports, GoesOn, Holds
<1>5. ASSUME NEW p, NEW rest, NEW w, Advances(c, p, rest, w), pc[c] # "idle",
             p.status.exemptions = o.status.exemptions
      PROVE  Lists(o.status.exemptions, k, u) \/ Lists(w, k, u)
  BY <1>5 DEF Advances
<1>6. ~Lists(<<>>, k, u)
  BY DEF Lists
<1>7. CASE Creates(c)
  <2>1. /\ pc[c] # "idle" /\ Target(c, o) \in Refs
        /\ Advances(c, Bound(c, o), CreatePlan(Bound(c, o)), <<>>)
    BY <1>7 DEF Creates, GoesOn, WritesAssignment
  <2>2. Bound(c, o).status.exemptions = o.status.exemptions
    BY <1>1, <2>1, BoundFacts
  <2> QED BY <1>5, <1>6, <2>1, <2>2 DEF Holds
<1>8. CASE Serves(c)
  <2>1. /\ results \in Seq(Tracked) /\ pc[c] = "Service" /\ copy'[c].phase = o.phase
        /\ o.phase \in {"live", "deleting"}
    BY <1>1, <1>8 DEF Serves, GoesOn, IInv, OutsideTyped, Objects, ObjectsOf
  <2>2. CASE o.phase = "deleting"
    BY <1>8, <2>1, <2>2 DEF Serves, Follows, Holds
  <2>3. ASSUME o.phase = "live", NEW t \in Tracked, Puts(c, t),
               Advances(c, o, Tail(todo), Append(results, t))
        PROVE  Holds(c, k, u) \/ GetsName(c, k, u)
    <3>1. \/ Lists(o.status.exemptions, k, u)
          \/ Lists(results, k, u)
          \/ t.key = k /\ t.uuid = u
      BY <1>5, <2>1, <2>3, ListsAppend
    <3>2. Holds(c, t.key, t.uuid) \/ GetsName(c, t.key, t.uuid)
      BY <2>1, <2>3, PutName
    <3> QED BY <2>1, <2>3, <3>1, <3>2 DEF Holds
  <2>4. ASSUME o.phase = "live", Advances(c, o, Tail(todo), results)
        PROVE  Holds(c, k, u)
    BY <1>5, <2>1, <2>4 DEF Holds
  <2> QED BY <1>8, <2>1, <2>2, <2>3, <2>4, ServesLive
<1> QED BY <1>1, <1>2, <1>3, <1>4, <1>7, <1>8 DEF CopyMoves, Rests

LEMMA ExemptedHolds ==
  ASSUME IInv, [Next]_vars, NEW c \in CRs, NEW k, NEW u \in Uuids, NEW s \in Scopes,
         exempted'[[scope |-> s, uuid |-> u]] # None,
         exempted'[[scope |-> s, uuid |-> u]].by = c,
         exempted'[[scope |-> s, uuid |-> u]].key = k
  PROVE  Holds(c, k, u) \/ GetsName(c, k, u)
<1> DEFINE e == [scope |-> s, uuid |-> u]
<1>1. e \in ExemptionIds /\ exempted \in [ExemptionIds -> Exemptions \cup {None}]
  BY DEF ExemptionIds, IInv, OutsideTyped
<1>2. exempted'[e] = exempted[e] => Holds(c, k, u)
  BY DEF Holds
<1>3. CASE UNCHANGED cloud
  BY <1>2, <1>3 DEF cloud
<1>4. CASE Shrinks
  BY <1>1, <1>2, <1>4 DEF Shrinks
<1>5. ASSUME NEW d \in CRs, Touches(d)
      PROVE  Holds(c, k, u) \/ GetsName(c, k, u)
  <2>1. ASSUME NEW t \in Tracked, pc[d] = "Service", Puts(d, t)
        PROVE  Holds(c, k, u) \/ GetsName(c, k, u)
    <3>1. CASE e = ExemptionId(t)
      <4>1. exempted'[e] = [of |-> RefOf(copy[d].status.id), key |-> t.key, by |-> d]
        BY <1>1, <2>1, <3>1 DEF Puts
      <4>2. c = d /\ k = t.key /\ u = t.uuid
        BY <3>1, <4>1 DEF ExemptionId
      <4> QED BY <2>1, <4>2, PutName
    <3>2. CASE e # ExemptionId(t)
      BY <1>1, <1>2, <2>1, <3>2 DEF Puts
    <3> QED BY <3>1, <3>2
  <2>2. CASE Drops(d)
    BY <1>1, <1>2, <2>2 DEF Drops
  <2>3. CASE WritesAssignment(d) \/ Gives(d) \/ Takes(d) \/ Deletes(d)
    BY <1>2, <2>3 DEF WritesAssignment, Gives, Takes, Deletes
  <2> QED BY <1>5, <2>1, <2>2, <2>3 DEF Touches
<1> QED BY <1>3, <1>4, <1>5, CloudStep DEF CloudMoves

LEMMA HoldsFrom ==
  ASSUME IInv, [Next]_vars, NEW c \in CRs, NEW k, NEW u \in Uuids, Holds(c, k, u)'
  PROVE  Holds(c, k, u) \/ GetsName(c, k, u)
<1>1. ObjectMoves(c) /\ CacheMoves(c)
  BY NextOK DEF StepOK, ObjectStep
<1>2. CASE Present(obj'[c]) /\ Lists(obj'[c].status.exemptions, k, u)
  <2>1. ~Lists(<<>>, k, u)
    BY DEF Lists
  <2> QED BY <1>1, <1>2, <2>1
          DEF ObjectMoves, Vanishes, Ended, Created, NoStatus, Edited, Reported, Holds
<1>3. CASE Present(cache'[c]) /\ Lists(cache'[c].status.exemptions, k, u)
  BY <1>1, <1>3 DEF CacheMoves, Holds
<1>4. CASE \/ pc'[c] # "idle" /\ Lists(copy'[c].status.exemptions, k, u)
           \/ pc'[c] = "Service" /\ copy'[c].phase = "live" /\ Lists(results', k, u)
  BY <1>4, CopyHolds
<1>5. CASE \E s \in Scopes : LET x == exempted'[[scope |-> s, uuid |-> u]]
                             IN  x # None /\ x.by = c /\ x.key = k
  BY <1>5, ExemptedHolds
<1> QED BY <1>2, <1>3, <1>4, <1>5 DEF Holds, Lists, Present

LEMMA OneHolderStep ==
  ASSUME IInv, [Next]_vars, OneHolder
  PROVE  OneHolder'
<1> SUFFICES ASSUME NEW u \in Uuids, NEW c \in CRs, NEW d \in CRs, NEW k, NEW l,
                    Holds(c, k, u)', Holds(d, l, u)'
             PROVE  c = d /\ k = l
  BY DEF OneHolder
<1>1. Holds(c, k, u) \/ GetsName(c, k, u)
  BY HoldsFrom
<1>2. Holds(d, l, u) \/ GetsName(d, l, u)
  BY HoldsFrom
<1>3. GetsName(c, k, u) \/ GetsName(d, l, u) => ~Holds(c, k, u) /\ ~Holds(d, l, u)
  BY NewIsFree DEF GetsName
<1>4. CASE GetsName(c, k, u) /\ GetsName(d, l, u)
  BY <1>4 DEF GetsName, IInv, Runtime, RuntimeInv, OneWorker
<1> QED BY <1>1, <1>2, <1>3, <1>4 DEF OneHolder

-----------------------------------------------------------------------------
(* What the service may delete.                                            *)

\* CreateOrUpdate deletes exemptions that the copy tracks and the spec does
\* not list, Delete those that the copy tracks and the bound assignment.
Fits(o, x) ==
  /\ x.op = "DropExemption" =>
       /\ In(x.of, o.status.exemptions)
       /\ o.phase = "live" =>
            \A i \in DOMAIN o.man.spec.exemptions : o.man.spec.exemptions[i].key # x.of.key
  /\ x.op = "DeleteAssignment" => x.of = DeleteRef(o)

PlanInv(c) ==
  pc[c] = "Service" => \A i \in DOMAIN todo : Fits(copy[c], todo[i])

\* The plan of CreateOrUpdate fits the copy it is made for,
LEMMA CreatePlanFits ==
  ASSUME NEW o \in Objects, o.phase = "live", NEW q, q.phase = "live", q.man = o.man,
         q.status.exemptions = IF Exempting(CreatePlan(o)) THEN o.status.exemptions ELSE <<>>,
         NEW x, In(x, CreatePlan(o))
  PROVE  Fits(q, x)
<1>1. \/ x.op \in {"PutExemption", "Grant"}
      \/ \E i \in Gone(o) : x = [op |-> "DropExemption", of |-> o.status.exemptions[i]]
  BY CreatePlanFacts
<1>2. CASE x.op \in {"PutExemption", "Grant"}
  BY <1>2 DEF Fits
<1>3. ASSUME NEW i \in Gone(o), x = [op |-> "DropExemption", of |-> o.status.exemptions[i]]
      PROVE  Fits(q, x)
  <2>1. Exempting(CreatePlan(o))
    <3> HIDE DEF CreatePlan
    <3> QED BY <1>3 DEF Exempting, In
  <2>2. In(x.of, q.status.exemptions)
    BY <1>3, <2>1 DEF Gone, In
  <2>3. \A j \in DOMAIN q.man.spec.exemptions : q.man.spec.exemptions[j].key # x.of.key
    BY <1>3 DEF Gone
  <2> QED BY <1>3, <2>2, <2>3 DEF Fits
<1> QED BY <1>1, <1>2, <1>3

\* and what is left of it fits the copy after each call.
LEMMA PlanStep ==
  ASSUME IInv, [Next]_vars, NEW c \in CRs, PlanInv(c)
  PROVE  PlanInv(c)'
<1> DEFINE o == copy[c]
           q == copy'[c]
<1>1. CopyMoves(c)
  BY NextOK DEF StepOK, ObjectStep
<1> SUFFICES ASSUME pc'[c] = "Service", NEW x, In(x, todo')
             PROVE  Fits(q, x)
  BY DEF PlanInv, In, Fits, DeleteRef
<1>2. CASE Stays(c)
  <2>1. q = o /\ pc[c] = "Service" /\ todo' = todo
    BY <1>2 DEF Stays, Waits, Quiet, service
  <2> QED BY <2>1 DEF PlanInv, In
<1>3. CASE Begins(c)
  <2>1. /\ Present(cache[c]) /\ cache[c].phase = "deleting" /\ cache[c].status.id # None
        /\ q = cache[c] /\ todo' = DeletePlan(cache[c])
    BY <1>3 DEF Begins
  <2>2. \/ x.op = "DropExemption" /\ In(x.of, q.status.exemptions)
        \/ x.op = "Revoke"
        \/ x = [op |-> "DeleteAssignment", of |-> DeleteRef(q)]
    BY <2>1, CacheFacts, DeletePlanFacts
  <2> QED BY <2>1, <2>2 DEF Fits
<1>4. CASE Creates(c)
  <2> DEFINE p == Bound(c, o)
  <2>1. /\ GoesOn(c) /\ Advances(c, p, CreatePlan(p), <<>>) /\ o \in Objects
        /\ o.status.observed <= o.gen /\ o.phase = "live" /\ Target(c, o) \in Refs
    BY <1>4, CallFacts DEF Creates, GoesOn, WritesAssignment, LocalInv, CallOK
  <2>2. p \in Objects /\ p.phase = "live" /\ p.man = o.man
    BY <2>1, BoundFacts DEF Restated
  <2> HIDE DEF p
  <2>3. /\ todo' = CreatePlan(p) /\ q.phase = "live" /\ q.man = p.man
        /\ q.status.exemptions =
             IF Exempting(CreatePlan(p)) THEN p.status.exemptions ELSE <<>>
    BY <2>1, <2>2 DEF Advances, GoesOn
  <2> QED BY <2>2, <2>3, CreatePlanFits
<1>5. CASE Serves(c)
  <2>1. /\ pc[c] = "Service" /\ q.phase = o.phase /\ q.man = o.man
        /\ o.phase \in {"live", "deleting"}
        /\ \A y : In(y, todo) <=> y = Head(todo) \/ In(y, Tail(todo))
    BY <1>5, CallFacts, ServiceFacts DEF Serves, GoesOn, Objects, ObjectsOf
  <2>2. CASE o.phase = "deleting"
    <3>1. q = o /\ todo' = Tail(todo)
      BY <1>5, <2>2 DEF Serves, Follows
    <3> QED BY <2>1, <3>1 DEF PlanInv, In
  <2>3. CASE o.phase = "live"
    <3>1. PICK w : Advances(c, o, Tail(todo), w)
      BY <1>5, <2>3, ServesLive
    <3>2. /\ todo' = Tail(todo) /\ q.status.id = o.status.id
          /\ q.status.exemptions = IF Exempting(Tail(todo)) THEN o.status.exemptions ELSE w
      BY <3>1 DEF Advances
    <3>3. Fits(o, x) /\ In(x, Tail(todo))
      BY <2>1, <3>2 DEF PlanInv, In
    <3>4. x.op = "DropExemption" => q.status.exemptions = o.status.exemptions
      BY <3>2, <3>3 DEF Exempting, In
    <3> QED BY <2>1, <2>3, <3>2, <3>3, <3>4 DEF Fits, DeleteRef
  <2> QED BY <2>1, <2>2, <2>3
<1> QED BY <1>1, <1>2, <1>3, <1>4, <1>5 DEF CopyMoves, Rests, Reports, IsFree, Imports

-----------------------------------------------------------------------------
(* What a call leaves alone.                                               *)

\* With nobody else writing, Azure changes by the calls of the service alone.
LEMMA OnlyCalls ==
  ASSUME IInv, [Next]_vars, portal' = 0
  PROVE  portal = 0 /\ roles' = roles /\ (UNCHANGED cloud \/ \E c \in CRs : Touches(c))
<1>1. portal \in Nat /\ portal + 1 # 0
  BY ConstantsAssumption DEF IInv, OutsideTyped
<1>2. portal' = portal \/ portal' = portal + 1
  BY DEF Next, Environment, CrashAll, SyncObject, DefinitionChanges, WatchDefinition, Portal,
         Reconcile, Call, others, vars
<1> QED BY <1>1, <1>2, CloudStep DEF CloudMoves, RolesStay

\* Whoever has an exemption in Azure holds its name.
LEMMA ExemptedIsHeld ==
  ASSUME NEW e \in ExemptionIds, exempted[e] # None
  PROVE  e.uuid \in Uuids /\ Holds(exempted[e].by, exempted[e].key, e.uuid)
<1>1. e.scope \in Scopes /\ e.uuid \in Uuids /\ e = [scope |-> e.scope, uuid |-> e.uuid]
  BY DEF ExemptionIds
<1> QED BY <1>1 DEF Holds

\* An exemption that is overwritten has its display name, and is of the object
\* that writes.
LEMMA PutsOwn ==
  ASSUME IInv, OneHolder, NEW c \in CRs, pc[c] = "Service", NEW t \in Tracked, Puts(c, t),
         exempted[ExemptionId(t)] # None, exempted[ExemptionId(t)].by \in CRs
  PROVE  exempted[ExemptionId(t)].by = c /\ exempted[ExemptionId(t)].key = t.key
<1> DEFINE x == exempted[ExemptionId(t)]
<1>1. t.uuid \in Uuids /\ Holds(x.by, x.key, t.uuid)
  BY ExemptedIsHeld, ExemptionIdFacts DEF ExemptionId
<1>2. Holds(c, t.key, t.uuid) \/ GetsName(c, t.key, t.uuid)
  BY PutName
<1>3. ~GetsName(c, t.key, t.uuid)
  BY <1>1, NewIsFree DEF GetsName
<1> QED BY <1>1, <1>2, <1>3 DEF OneHolder

\* And so has one that is deleted.
LEMMA DropsOwn ==
  ASSUME IInv, OneHolder, NEW c \in CRs, pc[c] = "Service", PlanInv(c), Drops(c),
         NEW t, t = Head(todo).of,
         exempted[ExemptionId(t)] # None, exempted[ExemptionId(t)].by \in CRs
  PROVE  /\ exempted[ExemptionId(t)].by = c /\ exempted[ExemptionId(t)].key = t.key
         /\ Fits(copy[c], Head(todo))
<1> DEFINE x == exempted[ExemptionId(t)]
<1>1. Head(todo) \in Operations /\ Head(todo).op = "DropExemption" /\ In(Head(todo), todo)
  BY ServiceFacts DEF Drops
<1>2. t \in Tracked
  BY <1>1 DEF Operations
<1>3. t.uuid \in Uuids /\ Holds(x.by, x.key, t.uuid)
  BY <1>2, ExemptedIsHeld, ExemptionIdFacts DEF ExemptionId
<1>4. Fits(copy[c], Head(todo))
  BY <1>1 DEF PlanInv, In
<1>5. Holds(c, t.key, t.uuid)
  BY <1>1, <1>4 DEF Fits, In, Holds, Lists
<1> QED BY <1>3, <1>4, <1>5 DEF OneHolder

\* The name that a bound object has is one of its own.
LEMMA BoundName ==
  ASSUME NEW c \in CRs, NEW o \in Objects, o.status.id # None, Own(c, o)
  PROVE  o.status.id \in Ids /\ o.status.id.name \in OwnNames(c) /\ RefOf(o.status.id) \in Refs
<1>1. o.status.id \in Ids
  BY DEF Objects, ObjectsOf, Statuses
<1> QED BY <1>1 DEF Own, NameToTake, Ids, RefOf, Refs

\* A call of d leaves alone what is in Azure under the names of c.
LEMMA OthersLeave ==
  ASSUME NamesApart, IInv, OneHolder, NEW c \in CRs, NEW d \in CRs \ {c},
         OwnInv(d), NameInv(d), PlanInv(d), Touches(d)
  PROVE  /\ \A r \in Refs : r.name \in OwnNames(c) => azure'[r] = azure[r]
         /\ \A e \in ExemptionIds :
              exempted[e] # None /\ exempted[e].by = c => exempted'[e] = exempted[e]
         /\ \A g \in granted : g.id.name \in OwnNames(c) => g \in granted'
<1> DEFINE o == copy[d]
           h == Head(todo)
<1>1. OwnNames(c) \cap OwnNames(d) = {}
  BY DEF NamesApart
<1>2. /\ azure \in [Refs -> Resources \cup {None}]
      /\ exempted \in [ExemptionIds -> Exemptions \cup {None}]
  BY DEF IInv, OutsideTyped
<1>3. CASE WritesAssignment(d)
  <2>1. /\ pc[d] = "Create" /\ Target(d, o) \in Refs /\ UNCHANGED <<exempted, granted>>
        /\ azure' = [azure EXCEPT ![Target(d, o)] = Assignment(d, o)]
    BY <1>3 DEF WritesAssignment
  <2>2. Target(d, o).name = NameToTake(d, o) /\ Own(d, o)
    BY <2>1 DEF NameInv, OwnInv, Target, NameToTake
  <2>3. Target(d, o).name \in OwnNames(d)
    BY <2>1, <2>2 DEF Own, Refs
  <2>4. \A r \in Refs : r.name \in OwnNames(c) => r # Target(d, o)
    BY <1>1, <2>3
  <2> QED BY <1>2, <2>1, <2>4
<1>4. CASE pc[d] = "Service"
  <2>1. /\ o \in Objects /\ h \in Operations /\ In(h, todo) /\ o.status.id.name \in OwnNames(d)
    BY <1>4, ServiceFacts, BoundName, NoneAssumption DEF OwnInv
  <2>2. ASSUME NEW t \in Tracked, Puts(d, t)
        PROVE  \A e \in ExemptionIds :
                 exempted[e] # None /\ exempted[e].by = c => exempted'[e] = exempted[e]
    <3>1. \A e \in ExemptionIds : e # ExemptionId(t) => exempted'[e] = exempted[e]
      BY <1>2, <2>2 DEF Puts
    <3>2. ~(exempted[ExemptionId(t)] # None /\ exempted[ExemptionId(t)].by = c)
      BY <1>4, <2>2, PutsOwn
    <3> QED BY <3>1, <3>2
  <2>3. ASSUME Drops(d)
        PROVE  \A e \in ExemptionIds :
                 exempted[e] # None /\ exempted[e].by = c => exempted'[e] = exempted[e]
    <3>1. \A e \in ExemptionIds : e # ExemptionId(h.of) => exempted'[e] = exempted[e]
      BY <1>2, <2>3 DEF Drops
    <3>2. ~(exempted[ExemptionId(h.of)] # None /\ exempted[ExemptionId(h.of)].by = c)
      BY <1>4, <2>3, DropsOwn
    <3> QED BY <3>1, <3>2
  <2>4. ASSUME Deletes(d)
        PROVE  \A r \in Refs : r.name \in OwnNames(c) => azure'[r] = azure[r]
    <3>1. Fits(o, h) /\ h.op = "DeleteAssignment" /\ azure' = [azure EXCEPT ![h.of] = None]
      BY <1>4, <2>1, <2>4 DEF PlanInv, In, Deletes
    <3>2. h.of.name \in OwnNames(d)
      BY <2>1, <3>1 DEF Fits, DeleteRef
    <3>3. \A r \in Refs : r.name \in OwnNames(c) => r # h.of
      BY <1>1, <3>2
    <3> QED BY <1>2, <3>1, <3>3
  <2>5. ASSUME Takes(d)
        PROVE  \A g \in granted : g.id.name \in OwnNames(c) => g \in granted'
    BY <1>1, <2>1, <2>5 DEF Takes, GrantOf
  <2>6. (\E t \in Tracked : Puts(d, t)) \/ Drops(d) \/ Gives(d) \/ Takes(d) \/ Deletes(d)
    BY <1>4 DEF Touches, WritesAssignment
  <2> QED BY <2>2, <2>3, <2>4, <2>5, <2>6 DEF Puts, Drops, Gives, Takes, Deletes
<1> QED BY <1>3, <1>4 DEF Touches

\* One of the exemptions s, as Azure has them in x, is the entry e of c's spec
\* for the assignment with this ID.
Backs(c, id, s, e, x) ==
  \E j \in DOMAIN s :
    /\ s[j].key = e.key /\ s[j].scope = e.scope
    /\ x[ExemptionId(s[j])] = [of |-> RefOf(id), key |-> e.key, by |-> c]

\* Such an exemption is in Azure.
LEMMA BacksFacts ==
  ASSUME NEW c \in CRs, NEW id, RefOf(id) \in Refs, NEW s \in Seq(Tracked), NEW e, NEW x,
         Backs(c, id, s, e, x)
  PROVE  \E t \in Tracked :
           /\ In(t, s) /\ t.key = e.key /\ t.scope = e.scope
           /\ x[ExemptionId(t)] = [of |-> RefOf(id), key |-> e.key, by |-> c]
           /\ x[ExemptionId(t)] # None
           /\ x[ExemptionId(t)].by = c /\ x[ExemptionId(t)].key = e.key
           /\ ExemptionId(t) \in ExemptionIds
<1>1. PICK j \in DOMAIN s :
        /\ s[j].key = e.key /\ s[j].scope = e.scope
        /\ x[ExemptionId(s[j])] = [of |-> RefOf(id), key |-> e.key, by |-> c]
  BY DEF Backs
<1>2. s[j] \in Tracked
  BY ElementOfSeq, LenProperties
<1>3. [of |-> RefOf(id), key |-> e.key, by |-> c] \in Exemptions
  BY <1>1, <1>2 DEF Exemptions, Tracked
<1>4. [of |-> RefOf(id), key |-> e.key, by |-> c] # None
  BY <1>3, NoneAssumption
<1> QED BY <1>1, <1>2, <1>4, ExemptionIdFacts DEF In

\* And the other way round.
LEMMA BackedBy ==
  ASSUME NEW c, NEW id, NEW s, NEW e, NEW x, NEW t, In(t, s),
         t.key = e.key, t.scope = e.scope,
         x[ExemptionId(t)] = [of |-> RefOf(id), key |-> e.key, by |-> c]
  PROVE  Backs(c, id, s, e, x)
  BY DEF Backs, In

\* What c writes leaves its other exemptions of the assignment as they are.
LEMMA PutsKeep ==
  ASSUME IInv, OneHolder, NEW c \in CRs, pc[c] = "Service", NEW t \in Tracked, Puts(c, t),
         NEW id, RefOf(id) \in Refs, RefOf(id) = RefOf(copy[c].status.id), NEW s \in Seq(Tracked), NEW e,
         Backs(c, id, s, e, exempted)
  PROVE  Backs(c, id, s, e, exempted')
<1>1. PICK u \in Tracked :
        /\ In(u, s) /\ u.key = e.key /\ u.scope = e.scope
        /\ exempted[ExemptionId(u)] = [of |-> RefOf(id), key |-> e.key, by |-> c]
        /\ exempted[ExemptionId(u)] # None
        /\ exempted[ExemptionId(u)].by = c /\ exempted[ExemptionId(u)].key = e.key
        /\ ExemptionId(u) \in ExemptionIds
  BY BacksFacts
<1>2. exempted \in [ExemptionIds -> Exemptions \cup {None}]
  BY DEF IInv, OutsideTyped
<1>3. exempted'[ExemptionId(u)] = [of |-> RefOf(id), key |-> e.key, by |-> c]
  <2>1. CASE ExemptionId(u) # ExemptionId(t)
    BY <1>1, <1>2, <2>1 DEF Puts
  <2>2. CASE ExemptionId(u) = ExemptionId(t)
    <3>1. t.key = e.key
      BY <1>1, <2>2, PutsOwn
    <3> QED BY <1>1, <1>2, <2>2, <3>1 DEF Puts
  <2> QED BY <2>1, <2>2
<1> QED BY <1>1, <1>3, BackedBy

\* What CreateOrUpdate deletes is not an entry of the spec.
LEMMA DropsKeep ==
  ASSUME IInv, OneHolder, NEW c \in CRs, pc[c] = "Service", copy[c].phase = "live",
         PlanInv(c), Drops(c), NEW id, RefOf(id) \in Refs, NEW s \in Seq(Tracked),
         NEW i \in DOMAIN copy[c].man.spec.exemptions, NEW e,
         e = copy[c].man.spec.exemptions[i], Backs(c, id, s, e, exempted)
  PROVE  Backs(c, id, s, e, exempted')
<1>1. PICK u \in Tracked :
        /\ In(u, s) /\ u.key = e.key /\ u.scope = e.scope
        /\ exempted[ExemptionId(u)] = [of |-> RefOf(id), key |-> e.key, by |-> c]
        /\ exempted[ExemptionId(u)] # None
        /\ exempted[ExemptionId(u)].by = c /\ exempted[ExemptionId(u)].key = e.key
        /\ ExemptionId(u) \in ExemptionIds
  BY BacksFacts
<1>2. exempted \in [ExemptionIds -> Exemptions \cup {None}]
  BY DEF IInv, OutsideTyped
<1>3. ExemptionId(u) # ExemptionId(Head(todo).of)
  <2> SUFFICES ASSUME ExemptionId(u) = ExemptionId(Head(todo).of)
               PROVE  FALSE
    OBVIOUS
  <2>1. e.key = Head(todo).of.key /\ Fits(copy[c], Head(todo))
    BY <1>1, DropsOwn
  <2> QED BY <2>1 DEF Fits, Drops
<1>4. exempted'[ExemptionId(u)] = exempted[ExemptionId(u)]
  BY <1>1, <1>2, <1>3 DEF Drops
<1> QED BY <1>1, <1>4, BackedBy

-----------------------------------------------------------------------------
(* CreateOrUpdate, call by call.                                           *)

\* With the calls in list left and the exemptions w written, what the copy o
\* of c asks for is in Azure (a, x and g) or comes with one of those calls.
Reached(c, o, list, w, a, x, g) ==
  LET id == o.status.id
      r == a[RefOf(id)]
  IN  /\ id # None /\ id.scope = o.man.spec.scope
      /\ r # None /\ r.by = c /\ r.gen = o.gen
      /\ \A i \in DOMAIN o.man.spec.exemptions :
           LET e == o.man.spec.exemptions[i]
           IN  In([op |-> "PutExemption", of |-> e], list) \/ Backs(c, id, w, e, x)
      /\ \A i \in DOMAIN o.man.spec.permissions :
           LET p == o.man.spec.permissions[i]
           IN  In([op |-> "Grant", of |-> p], list) \/ GrantOf(o, p) \in g
      /\ ~Exempting(list) => o.status.exemptions = w

\* Assignments.Create plans all of it,
LEMMA CreatesReaches ==
  ASSUME IInv, NEW c \in CRs, Creates(c)
  PROVE  Reached(c, copy'[c], todo', <<>>, azure', exempted', granted')
<1> DEFINE o == copy[c]
           p == Bound(c, o)
           q == copy'[c]
<1>1. /\ GoesOn(c) /\ Advances(c, p, CreatePlan(p), <<>>) /\ o \in Objects
      /\ o.status.observed <= o.gen /\ o.phase = "live" /\ Target(c, o) \in Refs
      /\ o.man.spec.definition \in DefinitionIds
      /\ azure' = [azure EXCEPT ![Target(c, o)] = Assignment(c, o)]
  BY CallFacts DEF Creates, GoesOn, WritesAssignment, LocalInv, CallOK
<1>2. /\ p \in Objects /\ p.phase = "live" /\ p.man = o.man
      /\ p.status.id # None /\ RefOf(p.status.id) = Target(c, o)
  BY <1>1, BoundFacts, NoneAssumption DEF Restated
<1>3. Target(c, o).scope = o.man.spec.scope
  BY DEF Target
<1> HIDE DEF p
<1>4. /\ todo' = CreatePlan(p) /\ q.man = o.man /\ q.gen = o.gen /\ q.status.id = p.status.id
      /\ q.status.exemptions =
           IF Exempting(CreatePlan(p)) THEN p.status.exemptions ELSE <<>>
  BY <1>1 DEF Advances, GoesOn
<1>5. q.status.id.scope = q.man.spec.scope
  BY <1>2, <1>3, <1>4 DEF RefOf
<1>6. LET r == azure'[RefOf(q.status.id)] IN r # None /\ r.by = c /\ r.gen = q.gen
  <2>1. azure'[Target(c, o)] = Assignment(c, o)
    BY <1>1 DEF IInv, OutsideTyped
  <2> QED BY <1>1, <1>2, <1>4, <2>1, AssignmentFacts
<1>7. ASSUME NEW i \in DOMAIN q.man.spec.exemptions
      PROVE  In([op |-> "PutExemption", of |-> q.man.spec.exemptions[i]], todo')
  BY <1>2, <1>4, CreatePlanFacts
<1>8. ASSUME NEW i \in DOMAIN q.man.spec.permissions
      PROVE  In([op |-> "Grant", of |-> q.man.spec.permissions[i]], todo')
  BY <1>2, <1>4, CreatePlanFacts
<1> HIDE DEF o, q
<1> QED BY <1>2, <1>4, <1>5, <1>6, <1>7, <1>8 DEF Reached, q

\* and a call that succeeds puts its part in Azure and keeps the others.
LEMMA ServesReaches ==
  ASSUME IInv, OneHolder, NEW c \in CRs, PlanInv(c), Serves(c), copy[c].phase = "live",
         Reached(c, copy[c], todo, results, azure, exempted, granted)
  PROVE  \E w \in Seq(Tracked) :
           /\ Advances(c, copy[c], Tail(todo), w)
           /\ Reached(c, copy'[c], todo', w, azure', exempted', granted')
<1> DEFINE o == copy[c]
           q == copy'[c]
           id == o.status.id
           h == Head(todo)
<1>1. /\ o \in Objects /\ id \in Ids /\ pc[c] = "Service" /\ h \in Operations
      /\ \A x : In(x, todo) <=> x = h \/ In(x, Tail(todo))
      /\ results \in Seq(Tracked) /\ q.man = o.man /\ q.gen = o.gen
      /\ exempted \in [ExemptionIds -> Exemptions \cup {None}]
  BY ServiceFacts DEF Serves, GoesOn, IInv, OutsideTyped
<1>2. RefOf(id) \in Refs
  BY <1>1 DEF RefOf, Refs, Ids
<1>3. PICK w \in Seq(Tracked) :
        /\ Advances(c, o, Tail(todo), w)
        /\ \/ \E t \in Tracked : Puts(c, t) /\ w = Append(results, t)
           \/ (Drops(c) \/ Gives(c)) /\ w = results
  <2>1. \A t \in Tracked : Append(results, t) \in Seq(Tracked)
    BY <1>1, InAppend
  <2> QED BY <1>1, <2>1, ServesLive
<1>4. /\ todo' = Tail(todo) /\ q.status.id = id
      /\ q.status.exemptions = IF Exempting(Tail(todo)) THEN o.status.exemptions ELSE w
  BY <1>3 DEF Advances
<1>5. UNCHANGED azure /\ granted \subseteq granted'
  BY <1>3 DEF Puts, Drops, Gives
<1>6. ASSUME NEW i \in DOMAIN o.man.spec.exemptions
      PROVE  LET e == o.man.spec.exemptions[i]
             IN  \/ In([op |-> "PutExemption", of |-> e], Tail(todo))
                 \/ Backs(c, id, w, e, exempted')
  <2> DEFINE e == o.man.spec.exemptions[i]
             put == [op |-> "PutExemption", of |-> e]
  <2>1. put = h \/ In(put, Tail(todo)) \/ Backs(c, id, results, e, exempted)
    BY <1>1 DEF Reached
  <2>2. ASSUME NEW t \in Tracked, Puts(c, t), w = Append(results, t)
        PROVE  In(put, Tail(todo)) \/ Backs(c, id, w, e, exempted')
    <3>1. \A u : In(u, w) <=> In(u, results) \/ u = t
      BY <1>1, <2>2, InAppend
    <3>2. CASE put = h
      <4>1. t.key = e.key /\ t.scope = e.scope
        BY <2>2, <3>2 DEF Puts
      <4>2. exempted'[ExemptionId(t)] = [of |-> RefOf(id), key |-> e.key, by |-> c]
        BY <1>1, <2>2, <4>1, ExemptionIdFacts DEF Puts
      <4> QED BY <3>1, <4>1, <4>2, BackedBy
    <3>3. CASE Backs(c, id, results, e, exempted)
      <4>1. Backs(c, id, results, e, exempted')
        BY <1>1, <1>2, <2>2, <3>3, PutsKeep
      <4>2. PICK u \in Tracked :
              /\ In(u, results) /\ u.key = e.key /\ u.scope = e.scope
              /\ exempted'[ExemptionId(u)] = [of |-> RefOf(id), key |-> e.key, by |-> c]
        BY <1>1, <1>2, <4>1, BacksFacts
      <4> QED BY <3>1, <4>2, BackedBy
    <3> QED BY <2>1, <3>2, <3>3
  <2>3. ASSUME Drops(c), w = results
        PROVE  In(put, Tail(todo)) \/ Backs(c, id, w, e, exempted')
    <3>1. put # h
      BY <2>3 DEF Drops
    <3>2. Backs(c, id, results, e, exempted) => Backs(c, id, results, e, exempted')
      BY <1>1, <1>2, <2>3, DropsKeep
    <3> QED BY <2>1, <2>3, <3>1, <3>2
  <2>4. ASSUME Gives(c), w = results
        PROVE  In(put, Tail(todo)) \/ Backs(c, id, w, e, exempted')
    BY <2>1, <2>4 DEF Gives
  <2> QED BY <1>3, <2>2, <2>3, <2>4
<1>7. ASSUME NEW i \in DOMAIN o.man.spec.permissions
      PROVE  LET p == o.man.spec.permissions[i]
             IN  In([op |-> "Grant", of |-> p], Tail(todo)) \/ GrantOf(o, p) \in granted'
  <2> DEFINE p == o.man.spec.permissions[i]
  <2>1. [op |-> "Grant", of |-> p] = h \/ In([op |-> "Grant", of |-> p], Tail(todo))
        \/ GrantOf(o, p) \in granted
    BY <1>1 DEF Reached
  <2>2. [op |-> "Grant", of |-> p] = h => GrantOf(o, p) \in granted'
    BY <1>3 DEF Puts, Drops, Gives
  <2> QED BY <1>5, <2>1, <2>2
<1>8. \A p : GrantOf(q, p) = GrantOf(o, p)
  BY <1>4 DEF GrantOf
<1>9. id.scope = o.man.spec.scope /\ id # None
      /\ LET r == azure'[RefOf(id)] IN r # None /\ r.by = c /\ r.gen = o.gen
  BY <1>5 DEF Reached
<1> HIDE DEF o, q, id
<1>10. Reached(c, q, todo', w, azure', exempted', granted')
  BY <1>1, <1>4, <1>6, <1>7, <1>8, <1>9 DEF Reached
<1> QED BY <1>3, <1>10 DEF o, q

\* What o asks for, and reports for its generation, is in Azure.
Complete(c, o, a, x, g) ==
  LET id == o.status.id
      r == a[RefOf(id)]
  IN  /\ id # None /\ r # None /\ r.by = c /\ r.gen >= o.status.observed
      /\ o.status.observed = o.gen =>
           /\ id.scope = o.man.spec.scope
           /\ \A i \in DOMAIN o.man.spec.exemptions :
                Backs(c, id, o.status.exemptions, o.man.spec.exemptions[i], x)
           /\ \A i \in DOMAIN o.man.spec.permissions :
                GrantOf(o, o.man.spec.permissions[i]) \in g

\* When no call is left, all of it is there.
LEMMA ReachedIsComplete ==
  ASSUME NEW c, NEW o \in Objects, o.status.observed = o.gen, NEW w, NEW a, NEW x, NEW g,
         Reached(c, o, <<>>, w, a, x, g)
  PROVE  Complete(c, o, a, x, g)
<1>1. /\ \A y : ~In(y, <<>>)
      /\ ~Exempting(<<>>)
  BY DEF In, Exempting
<1>2. o.gen \in Nat
  BY DEF Objects, ObjectsOf
<1>3. o.gen >= o.status.observed
  BY <1>2
<1> QED BY <1>1, <1>3 DEF Reached, Complete

\* The running CreateOrUpdate of c, nobody else writing.
Progress(c) ==
  portal = 0 /\ pc[c] = "Service" /\ copy[c].phase = "live" =>
    Reached(c, copy[c], todo, results, azure, exempted, granted)

\* A reconcile on its way to report Reconciled has done it.
ReportIsTrue(c) ==
  /\ portal = 0 /\ pc[c] \in {"StatusUpdate", "ReportExisting"}
  /\ copy[c].status.ready = "Reconciled"
  => /\ copy[c].phase = "live" /\ copy[c].status.observed = copy[c].gen
     /\ Complete(c, copy[c], azure, exempted, granted)

\* A live object that reports Reconciled has it.
ObjectIsTrue(c) ==
  portal = 0 /\ obj[c].phase = "live" /\ obj[c].status.ready = "Reconciled" =>
    Complete(c, obj[c], azure, exempted, granted)

\* While a reconcile waits for another call than those of the service, nobody
\* writes to Azure.
LEMMA WaitsForCalls ==
  ASSUME IInv, [Next]_vars, portal' = 0, NEW c \in CRs, pc[c] \notin {"idle", "Create", "Service"}
  PROVE  UNCHANGED cloud
<1>1. \A d \in CRs : Touches(d) => pc[d] \in {"Create", "Service"}
  BY DEF Touches, WritesAssignment
<1> QED BY <1>1, OnlyCalls DEF IInv, Runtime, RuntimeInv, OneWorker

\* A reconcile that waits finds Azure as it left it.
LEMMA StaysForCalls ==
  ASSUME IInv, [Next]_vars, portal' = 0, NEW c \in CRs, pc[c] # "idle", Stays(c)
  PROVE  /\ portal = 0 /\ azure' = azure /\ exempted' = exempted /\ granted' = granted
         /\ pc'[c] = pc[c] /\ copy'[c] = copy[c] /\ todo' = todo /\ results' = results
<1>1. portal = 0
  BY OnlyCalls
<1> QED BY <1>1 DEF Stays, Waits, Quiet, cloud, service

\* The copy of the next state is an object.
LEMMA CopyNext ==
  ASSUME IInv, [Next]_vars, NEW c \in CRs, pc'[c] # "idle"
  PROVE  copy'[c] \in Objects
<1>1. IInv'
  BY Step
<1>2. Runtime'
  BY <1>1 DEF IInv
<1> QED BY <1>2 DEF Runtime, RuntimeInv, Typed, RuntimeTypeOK, Objects, Absent, Present

\* The service has gone on, or is done.
LEMMA AdvancesReached ==
  ASSUME IInv, [Next]_vars, roles' = roles, NEW c \in CRs, GoesOn(c), copy[c].phase = "live",
         NEW o, NEW rest, NEW w, Advances(c, o, rest, w),
         Reached(c, copy'[c], todo', w, azure', exempted', granted')
  PROVE  Progress(c)' /\ ReportIsTrue(c)'
<1>1. CASE rest # <<>>
  <2>1. pc'[c] = "Service" /\ results' = w
    BY <1>1 DEF Advances
  <2>2. Reached(c, copy[c], todo, results, azure, exempted, granted)'
    BY <2>1 DEF Reached, GrantOf
  <2> QED BY <2>1, <2>2 DEF Progress, ReportIsTrue
<1>2. CASE rest = <<>>
  <2>1. /\ pc'[c] = "StatusUpdate" /\ todo' = <<>> /\ copy'[c].phase = "live"
        /\ copy'[c].status.observed = copy'[c].gen
    BY <1>2 DEF Advances, GoesOn
  <2>2. copy'[c] \in Objects
    BY <2>1, CopyNext
  <2>3. Complete(c, copy'[c], azure', exempted', granted')
    BY <2>1, <2>2, ReachedIsComplete
  <2>4. Complete(c, copy[c], azure, exempted, granted)'
    BY <2>3 DEF Complete, GrantOf
  <2> QED BY <2>1, <2>4 DEF Progress, ReportIsTrue
<1> QED BY <1>1, <1>2

\* What CreateOrUpdate has reached stays reached until it reports.
LEMMA ProgressStep ==
  ASSUME IInv, [Next]_vars, OneHolder, NEW c \in CRs, PlanInv(c), Progress(c), ReportIsTrue(c)
  PROVE  Progress(c)' /\ ReportIsTrue(c)'
<1>1. CopyMoves(c)
  BY NextOK DEF StepOK, ObjectStep
<1> SUFFICES ASSUME portal' = 0
             PROVE  Progress(c)' /\ ReportIsTrue(c)'
  BY DEF Progress, ReportIsTrue
<1>2. portal = 0 /\ roles' = roles
  BY OnlyCalls
<1>3. CASE Stays(c)
  <2>1. CASE pc[c] = "idle"
    BY <1>3, <2>1 DEF Stays, Waits, Progress, ReportIsTrue
  <2>2. CASE pc[c] # "idle"
    <3>1. portal = 0 /\ azure' = azure /\ exempted' = exempted /\ granted' = granted
          /\ pc'[c] = pc[c] /\ copy'[c] = copy[c] /\ todo' = todo /\ results' = results
      BY <1>3, <2>2, StaysForCalls
    <3>2. Progress(c)'
      BY <1>2, <3>1 DEF Progress, Reached, GrantOf
    <3>3. ReportIsTrue(c)'
      BY <1>2, <3>1 DEF ReportIsTrue, Complete, GrantOf
    <3> QED BY <3>2, <3>3
  <2> QED BY <2>1, <2>2
<1>4. CASE Begins(c)
  BY <1>4 DEF Begins, Progress, ReportIsTrue
<1>5. CASE Rests(c) \/ Reports(c) \/ IsFree(c) \/ Imports(c)
  BY <1>5 DEF Rests, Reports, IsFree, Imports, Progress, ReportIsTrue
<1>6. CASE Creates(c)
  <2>1. GoesOn(c) /\ copy[c].phase = "live"
        /\ Advances(c, Bound(c, copy[c]), CreatePlan(Bound(c, copy[c])), <<>>)
    BY <1>6, CallFacts DEF Creates, GoesOn, WritesAssignment, LocalInv, CallOK
  <2> QED BY <1>2, <1>6, <2>1, CreatesReaches, AdvancesReached
<1>7. CASE Serves(c)
  <2>1. GoesOn(c) /\ pc[c] = "Service" /\ copy[c].phase \in {"live", "deleting"}
    BY <1>7, CallFacts DEF Serves, GoesOn, Objects, ObjectsOf
  <2>2. CASE copy[c].phase = "live"
    <3>1. Reached(c, copy[c], todo, results, azure, exempted, granted)
      BY <1>2, <2>1, <2>2 DEF Progress
    <3>2. PICK w \in Seq(Tracked) :
            /\ Advances(c, copy[c], Tail(todo), w)
            /\ Reached(c, copy'[c], todo', w, azure', exempted', granted')
      BY <1>7, <2>2, <3>1, ServesReaches
    <3> QED BY <1>2, <2>1, <2>2, <3>2, AdvancesReached
  <2>3. CASE copy[c].phase = "deleting"
    BY <1>7, <2>1, <2>3 DEF Serves, Follows, GoesOn, Progress, ReportIsTrue
  <2> QED BY <2>1, <2>2, <2>3
<1> QED BY <1>1, <1>3, <1>4, <1>5, <1>6, <1>7 DEF CopyMoves

-----------------------------------------------------------------------------
(* What is reported stays true.                                            *)

\* What is reported stays, whatever the reconcile of another object does,
LEMMA KeptByOthers ==
  ASSUME NamesApart, IInv, OneHolder, NEW c \in CRs, NEW d \in CRs \ {c}, OwnInv(c),
         OwnInv(d), NameInv(d), PlanInv(d), Touches(d), NEW o \in Objects, Own(c, o),
         Complete(c, o, azure, exempted, granted)
  PROVE  Complete(c, o, azure', exempted', granted')
<1> DEFINE id == o.status.id
           r == azure[RefOf(id)]
<1>1. id # None /\ r # None /\ r.by = c /\ r.gen >= o.status.observed
  BY DEF Complete
<1>2. id.name \in OwnNames(c) /\ RefOf(id) \in Refs /\ RefOf(id).name = id.name
  BY <1>1, BoundName DEF RefOf
<1>3. /\ azure'[RefOf(id)] = r
      /\ \A e \in ExemptionIds :
           exempted[e] # None /\ exempted[e].by = c => exempted'[e] = exempted[e]
      /\ \A g \in granted : g.id.name \in OwnNames(c) => g \in granted'
  BY <1>2, OthersLeave
<1>4. o.status.exemptions \in Seq(Tracked)
  BY DEF Objects, ObjectsOf, Statuses
<1>5. ASSUME NEW e, Backs(c, id, o.status.exemptions, e, exempted)
      PROVE  Backs(c, id, o.status.exemptions, e, exempted')
  <2>1. PICK u \in Tracked :
          /\ In(u, o.status.exemptions) /\ u.key = e.key /\ u.scope = e.scope
          /\ exempted[ExemptionId(u)] = [of |-> RefOf(id), key |-> e.key, by |-> c]
          /\ exempted[ExemptionId(u)] # None /\ exempted[ExemptionId(u)].by = c
          /\ ExemptionId(u) \in ExemptionIds
    BY <1>2, <1>4, <1>5, BacksFacts
  <2>2. exempted'[ExemptionId(u)] = exempted[ExemptionId(u)]
    BY <1>3, <2>1
  <2> QED BY <2>1, <2>2, BackedBy
<1>6. ASSUME NEW p, GrantOf(o, p) \in granted
      PROVE  GrantOf(o, p) \in granted'
  BY <1>2, <1>3, <1>6 DEF GrantOf
<1> HIDE DEF id, r
<1>7. id = o.status.id /\ r = azure[RefOf(id)]
  BY DEF id, r
<1> QED BY <1>1, <1>3, <1>5, <1>6, <1>7 DEF Complete

\* when the object writes its assignment again, from a newer generation or the
\* same one,
LEMMA KeptByCreate ==
  ASSUME IInv, NEW c \in CRs, WritesAssignment(c), Present(obj[c]),
         Complete(c, obj[c], azure, exempted, granted)
  PROVE  Complete(c, obj[c], azure', exempted', granted')
<1> DEFINE o == obj[c]
           id == o.status.id
           t == Target(c, copy[c])
<1>1. /\ pc[c] = "Create" /\ UNCHANGED <<exempted, granted>> /\ t \in Refs
      /\ azure' = [azure EXCEPT ![t] = Assignment(c, copy[c])]
      /\ azure \in [Refs -> Resources \cup {None}]
  BY DEF WritesAssignment, IInv, OutsideTyped
<1>2. /\ copy[c] \in Objects /\ copy[c].man.spec.definition \in DefinitionIds
      /\ o \in Objects /\ o.status.observed <= copy[c].gen
  BY <1>1, CallFacts DEF LocalInv, CallOK, Protocol, GenOK
<1>3. id # None /\ RefOf(id) \in Refs
  BY <1>2, BoundTarget DEF Complete
<1>4. LET r == azure'[RefOf(id)] IN r # None /\ r.by = c /\ r.gen >= o.status.observed
  <2>1. CASE RefOf(id) = t
    <3>1. LET r == azure'[t] IN r # None /\ r.by = c /\ r.gen = copy[c].gen
      BY <1>1, <1>2, AssignmentFacts
    <3>2. copy[c].gen \in Nat /\ o.status.observed \in Nat
      BY <1>2 DEF Objects, ObjectsOf, Statuses
    <3> QED BY <1>2, <2>1, <3>1, <3>2
  <2>2. CASE RefOf(id) # t
    <3>1. azure'[RefOf(id)] = azure[RefOf(id)]
      BY <1>1, <1>3, <2>2
    <3> QED BY <3>1 DEF Complete
  <2> QED BY <2>1, <2>2
<1> HIDE DEF o, id, t
<1>5. id = o.status.id /\ o = obj[c]
  BY DEF id, o
<1> QED BY <1>1, <1>3, <1>4, <1>5 DEF Complete

\* A CreateOrUpdate of the current generation is about the same assignment.
LEMMA SameAssignment ==
  ASSUME IInv, NEW c \in CRs, portal = 0, pc[c] = "Service", copy[c].phase = "live",
         NameInv(c), SpecInv(c), Progress(c), Present(obj[c]),
         Complete(c, obj[c], azure, exempted, granted),
         obj[c].status.observed = obj[c].gen
  PROVE  /\ RefOf(obj[c].status.id) = RefOf(copy[c].status.id)
         /\ copy[c].man.spec.exemptions = obj[c].man.spec.exemptions
<1>1. /\ copy[c] \in Objects /\ obj[c] \in Objects
      /\ obj[c].status.observed <= copy[c].gen /\ copy[c].gen <= obj[c].gen
  BY CallFacts DEF Protocol, GenOK
<1>2. copy[c].gen = obj[c].gen
  BY <1>1 DEF Objects, ObjectsOf
<1>3. /\ copy[c].man.spec.scope = obj[c].man.spec.scope
      /\ copy[c].man.spec.exemptions = obj[c].man.spec.exemptions
  BY <1>2 DEF SpecInv
<1>4. /\ copy[c].status.id # None /\ copy[c].status.id.scope = copy[c].man.spec.scope
      /\ obj[c].status.id # None /\ obj[c].status.id.scope = obj[c].man.spec.scope
  BY DEF Progress, Reached, Complete
<1>5. copy[c].status.id.name = obj[c].status.id.name
  BY <1>4 DEF NameInv, HasId, NameToTake
<1> QED BY <1>3, <1>4, <1>5 DEF RefOf

\* and while the rest of CreateOrUpdate runs; a clean-up is not for a live
\* object.
LEMMA KeptByService ==
  ASSUME IInv, OneHolder, NEW c \in CRs, portal = 0, pc[c] = "Service", Touches(c),
         NameInv(c), SpecInv(c), PlanInv(c), Progress(c), obj[c].phase = "live",
         Complete(c, obj[c], azure, exempted, granted)
  PROVE  Complete(c, obj[c], azure', exempted', granted')
<1> DEFINE o == obj[c]
           id == o.status.id
<1>1. /\ Present(o) /\ o \in Objects /\ copy[c] \in Objects /\ id # None
      /\ RefOf(id) \in Refs /\ o.status.exemptions \in Seq(Tracked)
  <2>1. Present(o) /\ id # None
    BY DEF Present, Complete
  <2>2. o \in Objects /\ copy[c] \in Objects
    BY <2>1, CallFacts
  <2> QED BY <2>1, <2>2, BoundTarget DEF Objects, ObjectsOf, Statuses
<1>2. copy[c].phase = "live"
  <2>1. o.fin /\ (Work(pc[c], copy[c]) = "clean" => ~Managed(o))
    BY <1>1, CallFacts DEF Protocol, GuardOK, CacheOK, HasId
  <2>2. Work(pc[c], copy[c]) # "clean"
    BY <2>1 DEF Managed
  <2> QED BY <1>1, <2>2 DEF Work, Objects, ObjectsOf
<1>3. (\E t \in Tracked : Puts(c, t)) \/ Drops(c) \/ Gives(c)
  <2>1. Head(todo).op \in CallsFor(copy[c])
    BY ServiceFacts
  <2> QED BY <1>2, <2>1 DEF CallsFor, Touches, WritesAssignment, Takes, Deletes
<1>4. azure' = azure /\ granted \subseteq granted'
  BY <1>3 DEF Puts, Drops, Gives
<1>5. ASSUME o.status.observed = o.gen, NEW i \in DOMAIN o.man.spec.exemptions
      PROVE  Backs(c, id, o.status.exemptions, o.man.spec.exemptions[i], exempted')
  <2> DEFINE e == o.man.spec.exemptions[i]
  <2>1. /\ RefOf(id) = RefOf(copy[c].status.id)
        /\ copy[c].man.spec.exemptions = o.man.spec.exemptions
    BY <1>1, <1>2, <1>5, SameAssignment
  <2>2. Backs(c, id, o.status.exemptions, e, exempted)
    BY <1>5 DEF Complete
  <2>3. ASSUME NEW t \in Tracked, Puts(c, t)
        PROVE  Backs(c, id, o.status.exemptions, e, exempted')
    BY <1>1, <2>1, <2>2, <2>3, PutsKeep
  <2>4. ASSUME Drops(c)
        PROVE  Backs(c, id, o.status.exemptions, e, exempted')
    BY <1>1, <1>2, <2>1, <2>2, <2>4, DropsKeep
  <2> QED BY <1>3, <2>2, <2>3, <2>4 DEF Gives
<1> HIDE DEF o, id
<1>6. id = o.status.id /\ o = obj[c]
  BY DEF id, o
<1> QED BY <1>4, <1>5, <1>6 DEF Complete

\* So it stays in every step.
LEMMA CompleteStays ==
  ASSUME NamesApart, IInv, [Next]_vars, OneHolder, portal' = 0, NEW c \in CRs,
         \A d \in CRs : OwnInv(d) /\ NameInv(d) /\ PlanInv(d),
         SpecInv(c), Progress(c), obj[c].phase = "live",
         Complete(c, obj[c], azure, exempted, granted)
  PROVE  Complete(c, obj[c], azure', exempted', granted')
<1>1. Present(obj[c]) /\ portal = 0
  BY OnlyCalls DEF Present
<1>2. obj[c] \in Objects /\ Own(c, obj[c])
  BY <1>1, CopyFields DEF IInv, Runtime, Objects, OwnInv
<1>3. CASE UNCHANGED cloud
  BY <1>3 DEF cloud
<1>4. ASSUME NEW d \in CRs \ {c}, Touches(d)
      PROVE  Complete(c, obj[c], azure', exempted', granted')
  BY <1>2, <1>4, KeptByOthers
<1>5. CASE Touches(c) /\ WritesAssignment(c)
  BY <1>1, <1>5, KeptByCreate
<1>6. CASE Touches(c) /\ pc[c] = "Service"
  BY <1>1, <1>6, KeptByService
<1>7. UNCHANGED cloud \/ \E d \in CRs : Touches(d)
  BY OnlyCalls
<1>8. Touches(c) => WritesAssignment(c) \/ pc[c] = "Service"
  BY DEF Touches
<1> QED BY <1>3, <1>4, <1>5, <1>6, <1>7, <1>8

\* The same status, of an object with the same spec or of an edited one.
LEMMA CompleteAs ==
  ASSUME NEW c, NEW o, NEW q, NEW a, NEW x, NEW g, Complete(c, o, a, x, g),
         q.status = o.status,
         \/ /\ q.gen = o.gen /\ q.man.spec.scope = o.man.spec.scope
            /\ q.man.spec.exemptions = o.man.spec.exemptions
            /\ q.man.spec.permissions = o.man.spec.permissions
         \/ q.gen # q.status.observed
  PROVE  Complete(c, q, a, x, g)
  BY DEF Complete, GrantOf

\* An edit raises the generation, and a report is true when it is stored.
LEMMA ObjectIsTrueStep ==
  ASSUME NamesApart, IInv, [Next]_vars, OneHolder, NEW c \in CRs,
         \A d \in CRs : OwnInv(d) /\ NameInv(d) /\ PlanInv(d),
         SpecInv(c), Progress(c), ReportIsTrue(c), ObjectIsTrue(c)
  PROVE  ObjectIsTrue(c)'
<1> DEFINE o == obj[c]
           q == obj'[c]
<1> SUFFICES ASSUME portal' = 0, q.phase = "live", q.status.ready = "Reconciled"
             PROVE  Complete(c, q, azure', exempted', granted')
  <2>1. portal' = 0 => roles' = roles
    BY OnlyCalls
  <2> QED BY <2>1 DEF ObjectIsTrue, Complete, GrantOf
<1>1. ObjectMoves(c) /\ portal = 0 /\ Protocol(c) /\ (Present(o) => o \in Objects) /\ edits \in Nat
  BY NextOK, OnlyCalls, CopyFields
     DEF StepOK, ObjectStep, IInv, Runtime, RuntimeInv, Objects
<1>2. CASE Edited(c)
  <2>1. /\ Present(o) /\ q.status = o.status /\ o.phase = "live"
    BY <1>2 DEF Edited
  <2>2. Complete(c, o, azure', exempted', granted')
    BY <1>1, <2>1, CompleteStays DEF ObjectIsTrue
  <2>3. o.gen \in Nat /\ o.gen <= edits /\ o.status.observed \in Nat /\ o.status.observed <= o.gen
    BY <1>1, <2>1 DEF Protocol, GenOK, Dated, Objects, ObjectsOf, Statuses
  <2>4. \/ q.man.spec = o.man.spec /\ q.gen = o.gen
        \/ q.gen = edits + 1
    BY <1>2 DEF Edited
  <2>5. q.gen = edits + 1 => q.gen # q.status.observed
    BY <1>1, <2>1, <2>3
  <2> QED BY <2>1, <2>2, <2>4, <2>5, CompleteAs
<1>3. CASE Reported(c)
  <2>1. /\ pc[c] \in {"StatusUpdate", "ReportExisting"} /\ fresh[c] /\ Present(o)
        /\ q.status = copy[c].status /\ q.man = o.man /\ q.gen = o.gen
    BY <1>3 DEF Reported
  <2>2. copy[c].gen = o.gen
    BY <1>1, <2>1 DEF Protocol, FlagsOK
  <2>3. Complete(c, copy[c], azure, exempted, granted)
    BY <1>1, <2>1 DEF ReportIsTrue
  <2>4. azure' = azure /\ exempted' = exempted /\ granted' = granted
    BY <2>1, WaitsForCalls DEF cloud
  <2>5. /\ q.man.spec.scope = copy[c].man.spec.scope
        /\ q.man.spec.exemptions = copy[c].man.spec.exemptions
        /\ q.man.spec.permissions = copy[c].man.spec.permissions
    BY <2>1, <2>2 DEF SpecInv
  <2> QED BY <2>1, <2>2, <2>3, <2>4, <2>5, CompleteAs
<1>4. ~Created(c, NoStatus)
  BY NoneAssumption DEF Created, NoStatus
<1>5. ~Vanishes(c) /\ ~Ended(c)
  BY DEF Vanishes, Ended, Present
<1> QED BY <1>1, <1>2, <1>3, <1>4, <1>5 DEF ObjectMoves

ReportInv ==
  /\ OneHolder
  /\ \A c \in CRs : NameInv(c) /\ OwnInv(c) /\ SpecInv(c) /\ PlanInv(c)
  /\ \A c \in CRs : Progress(c) /\ ReportIsTrue(c) /\ ObjectIsTrue(c)

LEMMA ReportStart == Init => ReportInv
<1> SUFFICES ASSUME Init
             PROVE  ReportInv
  OBVIOUS
<1>1. \A c \in CRs : /\ obj[c] = Absent /\ cache[c] = Absent /\ pc[c] = "idle" /\ ~fresh[c]
  BY DEF Init, RuntimeInit
<1>2. \A c \in CRs : \A u \in Uuids : \A k : ~Holds(c, k, u)
  BY <1>1 DEF Init, Holds, Present, Absent, ExemptionIds
<1>3. OneHolder
  BY <1>2 DEF OneHolder
<1>4. \A c \in CRs : NameInv(c) /\ OwnInv(c) /\ SpecInv(c) /\ PlanInv(c)
  BY <1>1 DEF NameInv, OwnInv, SpecInv, PlanInv, HasId, Present, Absent
<1>5. \A c \in CRs : Progress(c) /\ ReportIsTrue(c) /\ ObjectIsTrue(c)
  BY <1>1 DEF Progress, ReportIsTrue, ObjectIsTrue, Absent
<1> QED BY <1>3, <1>4, <1>5 DEF ReportInv

LEMMA ReportStep ==
  ASSUME NamesApart, IInv, [Next]_vars, ReportInv
  PROVE  ReportInv'
<1>1. OneHolder'
  BY OneHolderStep DEF ReportInv
<1>2. ASSUME NEW c \in CRs
      PROVE  NameInv(c)' /\ OwnInv(c)' /\ SpecInv(c)' /\ PlanInv(c)'
  BY NameStep, OwnStep, SpecStep, PlanStep DEF ReportInv
<1>3. ASSUME NEW c \in CRs
      PROVE  Progress(c)' /\ ReportIsTrue(c)'
  BY ProgressStep DEF ReportInv
<1>4. ASSUME NEW c \in CRs
      PROVE  ObjectIsTrue(c)'
  BY ObjectIsTrueStep DEF ReportInv
<1> QED BY <1>1, <1>2, <1>3, <1>4 DEF ReportInv

\* An assignment that reports Reconciled for its current generation has in
\* Azure the assignment, every inline exemption and every role assignment of
\* its spec, under the ID in its status; one that reports an older generation
\* has an assignment that it wrote from that generation or a later one.  So
\* it is whatever a stale reconcile, a failed call that was applied, a crash
\* or a clean-up of another object did in between, as long as nobody else
\* writes to Azure and no two objects ask for the same name.
THEOREM ReconciledIsInAzure ==
  ASSUME NamesApart
  PROVE  Spec => []ReconciledIsComplete
<1>1. Init => ReportInv
  BY ReportStart
<1>2. IInv /\ ReportInv /\ [Next]_vars => ReportInv'
  BY ReportStep
<1>3. ReportInv => ReconciledIsComplete
  <2> SUFFICES ASSUME ReportInv, NEW c \in CRs, portal = 0, obj[c].phase = "live",
                      obj[c].status.ready = "Reconciled"
               PROVE  LET o == obj[c]
                          a == azure[RefOf(o.status.id)]
                      IN  /\ a # None /\ a.by = c /\ a.gen >= o.status.observed
                          /\ o.status.observed = o.gen
                               => ExemptionsInPlace(c, o) /\ PermissionsInPlace(o)
    BY DEF ReconciledIsComplete
  <2>1. Complete(c, obj[c], azure, exempted, granted)
    BY DEF ReportInv, ObjectIsTrue
  <2> QED BY <2>1 DEF Complete, ExemptionsInPlace, PermissionsInPlace, Backs
<1> QED BY <1>1, <1>2, <1>3, Invariance, PTL DEF Spec
=============================================================================
