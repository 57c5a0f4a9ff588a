-------------------------- MODULE ReconcilerHistory --------------------------
(***************************************************************************)
(* Module Reconciler with a record of what its CR has asked for and of     *)
(* whether its release has ever been deployed, and what Reconcile thereby  *)
(* promises: the lifecycle of ReleaseLifecycle.                            *)
(***************************************************************************)
EXTENDS Reconciler

VARIABLES
    asked,       \* history: the values of the stored incarnation, now or before
    established  \* history: has the release been deployed since it was installed?

HInit == Init /\ asked = {} /\ established = FALSE

Remember ==
    /\ asked' = CASE cr' = Nil -> {}
                  [] cr' # Nil /\ cr = Nil -> {cr'.spec}
                  [] OTHER -> asked \cup {cr'.spec}
    /\ established' = /\ rel' # Nil
                      /\ established \/ rel'.status = "deployed"

HNext == Next /\ Remember

hvars == <<vars, asked, established>>

HSpec == HInit /\ [][HNext]_hvars

(* The stored CR and the latest revision, as ReleaseLifecycle sees them.   *)
ResourceViews == [uid : Nat \ {0}, deleting : BOOLEAN, guarded : BOOLEAN]
ReleaseViews ==
    [owner : Nat \ {0}, manifest : Manifests,
     status : {"deployed", "failed", "pending", "uninstalling"}]

ASSUME AbsentViewAssumption == Nil \notin ResourceViews \cup ReleaseViews

Resource ==
    IF cr = Nil THEN Nil
    ELSE [uid |-> cr.uid, deleting |-> cr.deleting,
          guarded |-> uninstallFinalizer \in cr.finalizers]

Latest ==
    IF rel = Nil THEN Nil
    ELSE [owner |-> rel.owner, status |-> rel.status, manifest |-> rel.manifest]

Lifecycle == INSTANCE ReleaseLifecycle WITH
    Uids <- 1..MaxIncarnations, resource <- Resource, release <- Latest

(* However stale the copy is that Reconcile works on, and whatever fails   *)
(* or is interrupted: a release is made for a CR that is stored and        *)
(* guarded, from values this very CR has asked for; once deployed it goes  *)
(* only with its CR; what is pending or half uninstalled is left alone     *)
(* until the CR is deleted.                                                *)
ImplementsLifecycle == Lifecycle!Spec
=============================================================================
