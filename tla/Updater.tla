------------------------------ MODULE Updater ------------------------------
(***************************************************************************)
(* pkg/reconciler/internal/updater/updater.go: the pending changes to a    *)
(* custom resource's status that Reconcile accumulates while it works and  *)
(* Apply writes at the end.                                                *)
(*                                                                         *)
(* The code keeps a list of functions and folds it over the status it      *)
(* finds when Apply runs.  A status is a function from Fields to values,   *)
(* and what a list does to one field is determined by the values it wants  *)
(* there (seen) and the one it wants last: the fold is reported as a       *)
(* change when some wanted value differs from the stored one, so a list    *)
(* that sets a condition and sets it back is a change as well.  Module     *)
(* StatusFold checks this summary against the fold itself.                 *)
(***************************************************************************)

CONSTANTS Manifests,    \* the rendered manifests a release can have
          Nil           \* an absent condition, release, resource or copy

ASSUME NilAssumption == Nil \notin Manifests

(* pkg/reconciler/internal/conditions/conditions.go *)
ConditionTypes ==
    {"Initialized", "Deployed", "ReleaseFailed", "Irreconcilable", "Paused"}

Reasons == {"", "InstallOrUpgradeSuccessful", "UninstallSuccessful",
            "PauseReconcileAnnotationTrue", "ErrorGettingClient",
            "ErrorGettingValues", "ErrorGettingReleaseState", "InstallError",
            "UpgradeError", "UninstallError", "ReconcileError"}

Condition == [status : {"True", "False", "Unknown"}, reason : Reasons]

True(reason)  == [status |-> "True", reason |-> reason]
False(reason) == [status |-> "False", reason |-> reason]
Unknown       == [status |-> "Unknown", reason |-> ""]

(* helmAppStatus: the conditions, and deployedRelease (Nil when unset).     *)
Fields == ConditionTypes \cup {"deployedRelease"}

Values == Condition \cup Manifests \cup {Nil}

Status == [Fields -> Values]

EmptyStatus == [f \in Fields |-> Nil]

(* The list of status functions, summarised field by field.                *)
Updates == [Fields -> [last : Values, seen : SUBSET Values]]

NoUpdates == [f \in Fields |-> [last |-> Nil, seen |-> {}]]

(* EnsureCondition, EnsureDeployedRelease: one more function in the list.   *)
Ensure(u, f, v) ==
    [u EXCEPT ![f] = [last |-> v, seen |-> u[f].seen \cup {v}]]

(* EnsureConditionUnknown for each of the conditions in types.              *)
EnsureUnknown(u, types) ==
    [f \in Fields |-> IF f \in types
                      THEN [last |-> Unknown, seen |-> u[f].seen \cup {Unknown}]
                      ELSE u[f]]

EnsureDeployedRelease(u, m) == Ensure(u, "deployedRelease", m)

(* needsStatusUpdate: does some function of the list report a change?       *)
NeedsStatusUpdate(u, st) == \E f \in Fields : \E v \in u[f].seen : v # st[f]

(* The status after all the functions of the list.                          *)
Applied(u, st) ==
    [f \in Fields |-> IF u[f].seen = {} THEN st[f] ELSE u[f].last]
=============================================================================
