-------------------------- MODULE MCPolicyInitiative --------------------------
(* Instances of PolicyInitiative for TLC. *)
EXTENDS PolicyInitiative

CONSTANTS c1

MCNameOf == [c \in CRs |-> "n1"]

\* The object's own name is free; the other one is somebody else's initiative.
N2InAzure ==
  [r \in Refs |->
     IF r.name = "n2"
     THEN [head |-> "h1", version |-> "v1", members |-> <<"id1", "id2">>,
           by |-> None, gen |-> 0]
     ELSE None]

\* By reference and by ID, in an order that matters.
Plain ==
  [spec |-> [mg |-> None, head |-> "h1", version |-> "v1", members |-> <<"def", "id2">>],
   importId |-> None, importName |-> None, mode |-> None]

\* A user who names no import-id and forgets the import-name.
Careless == [Plain EXCEPT !.mode = "reconcile"]

Import2(mode) ==
  [Plain EXCEPT !.importId = [scope |-> "sub", name |-> "n2"], !.importName = "n2",
                !.mode = mode]

\* A mode that the code does not know, and the members in another order.
Swapped == [Import2("other") EXCEPT !.spec.members = <<"id2", "def">>]

MixedOffers ==
  [c \in CRs |->
     {Plain, Careless, Import2("adopt-once"), Import2("observe-only"), Swapped}]

AdoptOnceOffers == [c \in CRs |-> {Import2("adopt-once")}]
=============================================================================
