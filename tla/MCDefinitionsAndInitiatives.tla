--------------------- MODULE MCDefinitionsAndInitiatives ---------------------
(* Instances of DefinitionsAndInitiatives for TLC. *)
EXTENDS DefinitionsAndInitiatives

CONSTANTS d1, c1

MCMetaName == [c \in {d1, c1} |-> "n1"]

AzureRefs == [scope : Subs \cup MGs, name : Names]

\* The definitions differ in their scope.
MCIdOf ==
  [id \in [scope : Subs \cup MGs, name : Names, text : {"canonical", "otherCase"}] |->
     id.scope]

NothingInAzure == [r \in AzureRefs |-> None]

Plain(spec) == [spec |-> spec, importId |-> None, importName |-> None, mode |-> None]

\* A definition at one scope, then perhaps at another.
TwoScopes ==
  [d \in Definitions |->
     {Plain([mg |-> mg, head |-> "h1", version |-> "v1"]) : mg \in {None, "mg"}}]

\* Somebody else's initiative at the management group.
OneInAzure ==
  [r \in AzureRefs |->
     IF r.scope = "mg"
     THEN [head |-> "h1", version |-> "v1", members |-> <<"mg">>, by |-> None, gen |-> 0]
     ELSE None]

Refers == [mg |-> None, head |-> "h1", version |-> "v1", members |-> <<d1>>]

Observes ==
  [Plain(Refers) EXCEPT !.importId = [scope |-> "mg", name |-> "n1"],
                        !.importName = "n1", !.mode = "observe-only"]

\* One that is written, or one that is observed.
OneRef == [c \in Initiatives |-> {Plain(Refers), Observes}]
=============================================================================
