-------------------------- MODULE MCPolicyAssignment --------------------------
(* Instances of PolicyAssignment for TLC. *)
EXTENDS PolicyAssignment

CONSTANTS c1

MCNameOf == [c \in CRs |-> "n1"]

NothingInAzure == [r \in Refs |-> None]

Foreign == [definition |-> "id1", body |-> "b1", located |-> FALSE, by |-> None, gen |-> 0]

\* Somebody else's assignment under the object's name, or under another.
N1InAzure == [r \in Refs |-> IF r.name = "n1" THEN Foreign ELSE None]
N2InAzure == [r \in Refs |-> IF r.name = "n2" THEN Foreign ELSE None]

Plain(spec) == [spec |-> spec, importId |-> None, importName |-> None, mode |-> None]

\* The import-id as people write it, in another case than Azure's.
Id1 == [scope |-> "s1", name |-> "n1", text |-> "otherCase"]

Import1(spec, mode) ==
  [spec |-> spec, importId |-> Id1, importName |-> "n1", mode |-> mode]

Exempt(key) == [key |-> key, scope |-> "s1"]

\* By reference, with one inline exemption.
One ==
  [scope |-> "s1", ref |-> "def", definition |-> None, body |-> "b1",
   exemptions |-> <<Exempt("k1")>>, permissions |-> <<>>]

\* Another exemption instead, and a managed identity.
Two == [One EXCEPT !.exemptions = <<Exempt("k2")>>, !.permissions = <<"p1">>]

\* By ID, with both exemptions and another body.
Three == [One EXCEPT !.ref = None, !.definition = "id2", !.body = "b2",
                     !.exemptions = <<Exempt("k2"), Exempt("k1")>>]

MixedOffers ==
  [c \in CRs |->
     {Plain(One), Plain(Two), Import1(Two, "reconcile"), Import1(Three, "observe-only"),
      [Import1(One, "adopt-once") EXCEPT !.importId.name = "n2", !.importName = "n2"]}]

\* Kept in sync with all its parts, or observed.
HandsOnOffers == [c \in CRs |-> {Plain(Two), Import1(One, "observe-only")}]

ObserveOnlyOffers == [c \in CRs |-> {Import1(One, "observe-only")}]

\* Two inline exemptions.
ThreeOffers == [c \in CRs |-> {Plain(Three)}]
=============================================================================
