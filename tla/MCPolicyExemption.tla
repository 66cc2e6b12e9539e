-------------------------- MODULE MCPolicyExemption --------------------------
(* Instances of PolicyExemption for TLC. *)
EXTENDS PolicyExemption

CONSTANTS c1

Manifest(scope, ref, assignment) ==
  [spec |-> [scope |-> scope, ref |-> ref, assignment |-> assignment, body |-> "b1"]]

\* By reference at two scopes, by ID, and with neither.
MixedOffers ==
  [c \in CRs |-> {Manifest("rg", "asg", None), Manifest("sub", "asg", None),
                  Manifest("rg", None, "id1"), Manifest("rg", None, None)}]
=============================================================================
