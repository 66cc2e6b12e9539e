-------------------------- MODULE MCPolicyDefinition --------------------------
(* Instances of PolicyDefinition for TLC. *)
EXTENDS PolicyDefinition

CONSTANTS c1, c2

\* The name of the one object, or the name two objects of different
\* namespaces share.
MCNameOf == [c \in CRs |-> "n1"]

NothingInAzure == [r \in Refs |-> None]

Foreign == [head |-> "h1", version |-> "v1", by |-> None, gen |-> 0]

\* Somebody else's definition under the one name of the subscription.
N1InAzure == [r \in Refs |-> Foreign]

\* The object's own name is free, the other one is taken in the subscription.
N2InAzure ==
  [r \in Refs |-> IF r.scope = "sub" /\ r.name = "n2" THEN Foreign ELSE None]

Spec1(head, version) == [mg |-> None, head |-> head, version |-> version]

Plain(spec) == [spec |-> spec, importId |-> None, importName |-> None, mode |-> None]

Id(name, text) == [scope |-> "sub", name |-> name, text |-> text]

Import1(spec, id, mode) ==
  [spec |-> spec, importId |-> id, importName |-> id.name, mode |-> mode]

\* A user who names no import-id and forgets the import-name.
Careless(spec) == [Plain(spec) EXCEPT !.mode = "reconcile"]

H1 == Spec1("h1", "v1")
H2 == Spec1("h2", "v1")
V2 == Spec1("h1", "v2")

\* Plain specs, one of them at the management group, and imports of the name
\* that is taken, in every mode, in none, and with the ID in another case.
MixedOffers ==
  [c \in CRs |->
     {Plain(H1), Plain(H2), Plain([H1 EXCEPT !.mg = "mg"]),
      Import1(H1, Id("n2", "canonical"), None),
      Import1(H2, Id("n2", "canonical"), "observe-only"),
      Import1(H1, Id("n2", "canonical"), "adopt-once"),
      Import1(H2, Id("n2", "otherCase"), "reconcile"),
      Import1(H1, Id("n1", "canonical"), "other"),
      Import1(H2, Id("n1", "canonical"), "reconcile")}]

\* Two versions of the name that is taken: plain, imported, or careless.
HandsOnOffers ==
  [c \in CRs |->
     {Plain(H1), Plain(V2), Careless(H1),
      Import1(H1, Id("n1", "canonical"), "reconcile"),
      Import1(V2, Id("n1", "canonical"), "reconcile"),
      Import1(V2, Id("n1", "canonical"), "adopt-once")}]

\* A version for each of two objects.
OneVersionEach == [c \in CRs |-> {Plain(IF c = c1 THEN H1 ELSE V2)}]

PlainOffers == [c \in CRs |-> {Plain(H1), Plain(V2)}]
=============================================================================
