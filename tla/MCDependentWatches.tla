------------------------ MODULE MCDependentWatches ------------------------
(* Two CRs of one namespace.  The chart of one has a Deployment and a kept *)
(* claim, or a List of a ClusterRole and the Deployment; that of the other *)
(* a second ClusterRole.                                                   *)
EXTENDS DependentWatches

Resource(r) == [list |-> FALSE, items |-> <<r>>]
ListOf(resources) == [list |-> TRUE, items |-> resources]

MCKind == [r \in Resources |->
    CASE r \in {"deployment", "deployment2"} -> "Deployment"
      [] r \in {"role", "role2"} -> "ClusterRole"
      [] r = "claim" -> "Claim"]
MCOwner == [r \in Resources |-> IF r \in {"role2", "deployment2"} THEN "b" ELSE "a"]
MCNamespace == [x \in Resources \cup {"a", "b"} |->
    IF x \in {"role", "role2"} THEN "cluster" ELSE "ns"]
MCCharts == [cr \in {"a", "b"} |->
    IF cr = "a" THEN {<<Resource("deployment"), Resource("claim")>>,
                      <<ListOf(<<"role", "deployment">>)>>}
                ELSE {<<Resource("role2")>>}]

(* Two charts with a Deployment; one of them is kept.                      *)
KeptDeployment == [cr \in {"a", "b"} |->
    IF cr = "a" THEN {<<Resource("deployment")>>} ELSE {<<Resource("deployment2")>>}]
=============================================================================
