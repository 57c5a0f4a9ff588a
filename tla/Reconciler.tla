----------------------------- MODULE Reconciler -----------------------------
(***************************************************************************)
(* pkg/reconciler/reconciler.go: one custom resource (CR), the worker that *)
(* reconciles it, and what the two meet on the way: the API server, the    *)
(* manager's informer cache, the work queue and Helm.                      *)
(*                                                                         *)
(* Reconcile is cut at every call that leaves the process.  The cluster    *)
(* moves between two such steps: users edit, pause, delete and re-create   *)
(* the CR, the watch delivers its versions late, timers fire, and the      *)
(* operator may be killed.                                                 *)
(*                                                                         *)
(* The CR's values stand for the manifest the chart renders from them, so  *)
(* a manifest is a member of Manifests.  A resourceVersion is only ever    *)
(* compared with the current one: fresh says whether the worker's copy     *)
(* carries it.                                                             *)
(***************************************************************************)
EXTENDS Naturals, Sequences, Updater

CONSTANTS
    FailureRollbacks,   \* actionClient.enableFailureRollbacks
    ReconcilePeriod,    \* is reconcilePeriod positive?
    FaultKinds,         \* the failures that may happen: see Fault
    MaxIncarnations,    \* bound: how often the CR is created
    MaxEdits,           \* bound: steps of users
    MaxFaults,          \* bound: failures and crashes
    MaxLag              \* bound: versions the cache is behind

ASSUME ConfigAssumption ==
    /\ FailureRollbacks \in BOOLEAN
    /\ ReconcilePeriod \in BOOLEAN
    /\ FaultKinds \subseteq {"api", "helm", "cleanup", "config", "crash"}
    /\ MaxIncarnations \in Nat
    /\ MaxEdits \in Nat
    /\ MaxFaults \in Nat
    /\ MaxLag \in Nat

VARIABLES
    cr,        \* the API server: the stored CR, or Nil
    born,      \* the API server: how many incarnations it has created
    backlog,   \* the watch: versions stored but not yet delivered
    cache,     \* the informer's copy: what r.client.Get returns
    dirty,     \* the work queue: is the request waiting for a worker?
    delayed,   \* the work queue: timers that will add the request
    pc,        \* the worker: the next step of Reconcile
    obj,       \* the worker: Reconcile's obj
    fresh,     \* the worker: is obj's resourceVersion the stored one?
    u,         \* the worker: the pending changes of Reconcile's updater
    un,        \* the worker: those of handleDeletion's uninstallUpdater
    result,    \* the worker: what Reconcile will return
    rel,       \* Helm: the latest revision of the release, or Nil
    drift,     \* the cluster: do the resources differ from the manifest?
    edits,     \* how many steps users have taken
    faults     \* how many failures there have been

api    == <<cr, born, backlog>>
queue  == <<dirty, delayed>>
worker == <<pc, obj, fresh, u, un, result>>
helm   == <<rel, drift>>
budget == <<edits, faults>>
vars   == <<api, cache, queue, worker, helm, budget>>

uninstallFinalizer == "uninstall"

CustomResource ==
    [uid : Nat \ {0}, deleting : BOOLEAN, paused : BOOLEAN,
     finalizers : SUBSET {uninstallFinalizer, "other"},
     spec : Manifests, status : Status]

(* A release's latest revision.  Helm's pending-install, pending-upgrade   *)
(* and pending-rollback are one status here.  owner is the uid in the      *)
(* owner references; previous is the manifest Helm would roll back to.     *)
Release ==
    [status : {"deployed", "failed", "pending", "uninstalling"},
     manifest : Manifests, previous : Manifests \cup {Nil}, owner : Nat \ {0}]

ASSUME AbsentAssumption == Nil \notin CustomResource \cup Release

Steps == {"idle", "addFinalizer", "lookup", "releaseState", "install",
          "cleanup", "upgrade", "rollback", "reconcile", "uninstall",
          "applyUninstall", "removeFinalizer", "waitForDeletion", "apply"}

TypeOK ==
    /\ cr \in CustomResource \cup {Nil}
    /\ born \in Nat
    /\ backlog \in Seq(CustomResource \cup {Nil})
    /\ cache \in CustomResource \cup {Nil}
    /\ dirty \in BOOLEAN
    /\ delayed \subseteq {"retry", "period"}
    /\ pc \in Steps
    /\ obj \in CustomResource \cup {Nil}
    /\ fresh \in BOOLEAN
    /\ u \in Updates
    /\ un \in Updates
    /\ result \in {"none", "done", "requeue", "error"}
    /\ rel \in Release \cup {Nil}
    /\ drift \in BOOLEAN
    /\ edits \in Nat
    /\ faults \in Nat

Init ==
    /\ cr = Nil /\ born = 0 /\ backlog = <<>> /\ cache = Nil
    /\ dirty = FALSE /\ delayed = {}
    /\ pc = "idle" /\ obj = Nil /\ fresh = FALSE
    /\ u = NoUpdates /\ un = NoUpdates /\ result = "none"
    /\ rel = Nil /\ drift = FALSE
    /\ edits = 0 /\ faults = 0

-----------------------------------------------------------------------------
(* The API server                                                          *)

(* A call fails: one that reaches the API server, a Helm action, the       *)
(* undoing of a failed Helm action, the construction of the client or the  *)
(* values, or the whole process.                                           *)
Fault(kind) ==
    /\ kind \in FaultKinds
    /\ faults < MaxFaults
    /\ faults' = faults + 1

(* A deleted object goes with its last finalizer.                          *)
Persisted(v) == IF v.deleting /\ v.finalizers = {} THEN Nil ELSE v

Store(v) ==
    /\ Len(backlog) < MaxLag
    /\ cr' = Persisted(v)
    /\ backlog' = Append(backlog, Persisted(v))

(* Mutant: the last writer wins.                                           *)
WritableAtAnyVersion == cr # Nil

(* Optimistic concurrency: a write carries the version it was read at.     *)
Writable == cr # Nil /\ fresh

(* client.Update writes everything but the status, Status().Update the     *)
(* status alone; uid and deletionTimestamp are the server's.               *)
Updated(o) ==
    [cr EXCEPT !.spec = o.spec, !.paused = o.paused, !.finalizers = o.finalizers]
StatusUpdated(o) == [cr EXCEPT !.status = o.status]

(* A status that differs only in its transition times is a new version;    *)
(* within the same second it is no change at all.                          *)
StoreStatus(o) ==
    \/ Store(StatusUpdated(o))
    \/ StatusUpdated(o) = cr /\ UNCHANGED <<cr, backlog>>

-----------------------------------------------------------------------------
(* The users of the cluster                                                *)

UserStep ==
    /\ edits < MaxEdits
    /\ edits' = edits + 1
    /\ fresh' = FALSE
    /\ UNCHANGED <<cache, queue, pc, obj, u, un, result, rel, faults>>

CreateCR ==
    /\ UserStep
    /\ cr = Nil
    /\ born < MaxIncarnations
    /\ born' = born + 1
    /\ \E spec \in Manifests, fs \in SUBSET {"other"} :
          Store([uid |-> born + 1, deleting |-> FALSE, paused |-> FALSE,
                 finalizers |-> fs, spec |-> spec, status |-> EmptyStatus])
    /\ UNCHANGED drift

EditSpec ==
    /\ UserStep
    /\ cr # Nil
    /\ \E spec \in Manifests \ {cr.spec} : Store([cr EXCEPT !.spec = spec])
    /\ UNCHANGED <<born, drift>>

TogglePause ==
    /\ UserStep
    /\ cr # Nil
    /\ Store([cr EXCEPT !.paused = ~cr.paused])
    /\ UNCHANGED <<born, drift>>

DeleteCR ==
    /\ UserStep
    /\ cr # Nil /\ ~cr.deleting
    /\ Store([cr EXCEPT !.deleting = TRUE])
    /\ UNCHANGED <<born, drift>>

(* Another controller lets go of the CR.                                   *)
ReleaseOtherFinalizer ==
    /\ UserStep
    /\ cr # Nil /\ cr.deleting /\ "other" \in cr.finalizers
    /\ Store([cr EXCEPT !.finalizers = cr.finalizers \ {"other"}])
    /\ UNCHANGED <<born, drift>>

(* Somebody changes or deletes a resource of the release.                  *)
Drift ==
    /\ edits < MaxEdits
    /\ edits' = edits + 1
    /\ rel # Nil
    /\ drift' = TRUE
    /\ UNCHANGED <<api, cache, queue, worker, rel, faults>>

Users == \/ CreateCR \/ EditSpec \/ TogglePause \/ DeleteCR
         \/ ReleaseOtherFinalizer \/ Drift

-----------------------------------------------------------------------------
(* The informer and the work queue                                         *)

(* A version reaches the cache, and its event the queue: the watch on the  *)
(* CR has no predicate that would drop status changes.                     *)
Deliver ==
    /\ backlog # <<>>
    /\ cache' = Head(backlog)
    /\ backlog' = Tail(backlog)
    /\ dirty' = TRUE
    /\ UNCHANGED <<cr, born, delayed, worker, helm, budget>>

TimerFires ==
    /\ \E t \in delayed : delayed' = delayed \ {t}
    /\ dirty' = TRUE
    /\ UNCHANGED <<api, cache, worker, helm, budget>>

(* Mutant: no reconcile period is started.                                 *)
RequeueWithoutPeriod(res) ==
    IF res = "error" THEN delayed \cup {"retry"} ELSE delayed

(* The queue's answer to what Reconcile returns: an error is retried with  *)
(* backoff, RequeueAfter starts the reconcile period.                      *)
Requeue(res) ==
    CASE res = "error" -> delayed \cup {"retry"}
      [] res = "requeue" /\ ReconcilePeriod -> delayed \cup {"period"}
      [] OTHER -> delayed

Return(res) ==
    /\ pc' = "idle"
    /\ obj' = Nil /\ fresh' = FALSE
    /\ u' = NoUpdates /\ un' = NoUpdates /\ result' = "none"
    /\ delayed' = Requeue(res)
    /\ dirty' = dirty

-----------------------------------------------------------------------------
(* Reconcile, up to the decision what to do                                *)

(* Control goes on at step p; neither updater nor result changes.          *)
GoTo(p) == pc' = p /\ UNCHANGED <<u, un, result>>

(* Control goes to the deferred Apply with the pending changes upd.        *)
Leave(upd, res) ==
    /\ pc' = "apply" /\ u' = upd /\ result' = res /\ UNCHANGED un

(* Mutant: a finalizer of somebody else is taken for the operator's.       *)
NeedsFirstFinalizer(o) == ~o.deleting /\ o.finalizers = {}

NeedsFinalizer(o) == ~o.deleting /\ uninstallFinalizer \notin o.finalizers

StartReconcile ==
    /\ pc = "idle" /\ dirty
    /\ dirty' = FALSE
    /\ UNCHANGED <<api, cache, helm, edits, un, result>>
    /\ \/ /\ cache = Nil                                  \* nothing to do
          /\ UNCHANGED <<delayed, pc, obj, fresh, u, faults>>
       \/ /\ Fault("api")                                 \* the Get fails
          /\ delayed' = delayed \cup {"retry"}
          /\ UNCHANGED <<pc, obj, fresh, u>>
       \/ /\ cache # Nil
          /\ obj' = cache
          /\ fresh' = (backlog = <<>>)
          /\ pc' = IF NeedsFinalizer(cache) THEN "addFinalizer" ELSE "lookup"
          /\ UNCHANGED <<delayed, u, faults>>

(* A failure is returned at once: the deferred Apply is not registered yet.*)
AddFinalizer ==
    /\ pc = "addFinalizer"
    /\ UNCHANGED <<born, cache, helm, edits>>
    /\ LET o == [obj EXCEPT !.finalizers = @ \cup {uninstallFinalizer}] IN
       \/ /\ Writable
          /\ Store(Updated(o))
          /\ obj' = Updated(o) /\ fresh' = TRUE
          /\ GoTo("lookup")
          /\ UNCHANGED <<queue, faults>>
       \/ /\ ~Writable                                    \* conflict, gone
          /\ Return("error")
          /\ UNCHANGED <<cr, backlog, faults>>
       \/ /\ Fault("api")                                 \* lost request
          /\ Return("error")
          /\ UNCHANGED <<cr, backlog>>
       \/ /\ Fault("api") /\ Writable                     \* lost reply
          /\ Store(Updated(o))
          /\ Return("error")

(* The pause handler comes before everything else, deletion included.      *)
Pause ==
    /\ pc = "lookup" /\ obj.paused
    /\ Leave(EnsureDeployedRelease(
               EnsureUnknown(
                 Ensure(u, "Paused", True("PauseReconcileAnnotationTrue")),
                 ConditionTypes \ {"Paused"}),
               Nil), "done")
    /\ UNCHANGED <<api, cache, queue, obj, fresh, helm, budget>>

Unpaused == Ensure(u, "Paused", False(""))

ActionClientFails ==
    /\ pc = "lookup" /\ ~obj.paused
    /\ Fault("config")
    /\ Leave(EnsureDeployedRelease(
               EnsureUnknown(
                 Ensure(Unpaused, "Irreconcilable", True("ErrorGettingClient")),
                 {"Deployed", "Initialized", "ReleaseFailed"}),
               Nil), "error")
    /\ UNCHANGED <<api, cache, queue, obj, fresh, helm, edits>>

(* ensureDeployedRelease: whatever the status of the revision is.          *)
Deployed(upd, r) ==
    EnsureDeployedRelease(
        Ensure(upd, "Deployed", True("InstallOrUpgradeSuccessful")), r.manifest)

(* The first look at the release; an error of Get is swallowed, so that a  *)
(* deleted CR is still uninstalled.                                        *)
LookupRelease ==
    /\ pc = "lookup" /\ ~obj.paused
    /\ \/ /\ u' = Ensure(IF rel = Nil
                         THEN Ensure(Unpaused, "Deployed", False(""))
                         ELSE Deployed(Unpaused, rel),
                         "Initialized", True(""))
          /\ UNCHANGED faults
       \/ /\ Fault("helm")
          /\ u' = Ensure(Unpaused, "Initialized", True(""))
    /\ pc' = CASE ~obj.deleting -> "releaseState"
               [] obj.deleting /\ uninstallFinalizer \in obj.finalizers -> "uninstall"
               [] OTHER -> "waitForDeletion"
    /\ UNCHANGED <<api, cache, queue, obj, fresh, un, result, helm, edits>>

GetValuesFails ==
    /\ pc = "releaseState"
    /\ Fault("config")
    /\ Leave(EnsureUnknown(
               Ensure(u, "Irreconcilable", True("ErrorGettingValues")),
               {"ReleaseFailed"}), "error")
    /\ UNCHANGED <<api, cache, queue, obj, fresh, helm, edits>>

(* Helm refuses to upgrade, in a dry run as well, a release with an        *)
(* operation in progress and one without a deployed revision to start from.*)
HelmRefusesUpgrade(r) == r.status \in {"pending", "uninstalling"}

ReleaseStateFails ==
    /\ pc = "releaseState"
    /\ \/ rel # Nil /\ HelmRefusesUpgrade(rel) /\ UNCHANGED faults
       \/ Fault("helm")
    /\ Leave(EnsureDeployedRelease(
               EnsureUnknown(
                 Ensure(u, "Irreconcilable", True("ErrorGettingReleaseState")),
                 {"ReleaseFailed", "Deployed"}),
               Nil), "error")
    /\ UNCHANGED <<api, cache, queue, obj, fresh, helm, edits>>

(* Mutant: the manifests are not compared.                                 *)
NeedsUpgradeIfFailed(r) == r.status = "failed"

(* getReleaseState, by a dry-run upgrade and a comparison of manifests.     *)
NeedsUpgrade(r) ==
    r.manifest # obj.spec \/ r.status \in {"failed", "superseded"}

(* Mutant: a release that is not deployed is taken for none.               *)
ReinstallIfNotDeployed ==
    /\ pc = "releaseState"
    /\ \/ (rel # Nil => rel.status # "deployed") /\ pc' = "install"
       \/ /\ rel # Nil /\ rel.status = "deployed"
          /\ pc' = IF NeedsUpgrade(rel) THEN "upgrade" ELSE "reconcile"
    /\ u' = Ensure(u, "Irreconcilable", False(""))
    /\ UNCHANGED <<api, cache, queue, obj, fresh, un, result, helm, budget>>

GetReleaseState ==
    /\ pc = "releaseState"
    /\ \/ rel = Nil /\ pc' = "install"
       \/ /\ rel # Nil /\ ~HelmRefusesUpgrade(rel)
          /\ pc' = IF NeedsUpgrade(rel) THEN "upgrade" ELSE "reconcile"
    /\ u' = Ensure(u, "Irreconcilable", False(""))
    /\ UNCHANGED <<api, cache, queue, obj, fresh, un, result, helm, budget>>

-----------------------------------------------------------------------------
(* doInstall, doUpgrade and doReconcile                                    *)

(* What Reconcile still sets when the action succeeded on release r.       *)
Succeeded(upd, r) ==
    Ensure(Ensure(Deployed(upd, r), "ReleaseFailed", False("")),
           "Irreconcilable", False(""))

ActionFailed(upd, reason) ==
    Ensure(Ensure(upd, "Irreconcilable", True("ReconcileError")),
           "ReleaseFailed", True(reason))

(* Mutant: the owner's uid is not filled in.                               *)
RevisionWithoutOwner(status, previous) ==
    [status |-> status, manifest |-> obj.spec, previous |-> previous,
     owner |-> 0]

Revision(status, previous) ==
    [status |-> status, manifest |-> obj.spec, previous |-> previous,
     owner |-> obj.uid]

Install ==
    /\ pc = "install"
    /\ \/ /\ rel' = Revision("deployed", Nil) /\ drift' = FALSE
          /\ Leave(Succeeded(u, rel'), "requeue")
          /\ UNCHANGED faults
       \/ /\ Fault("helm")                          \* before it is recorded
          /\ Leave(ActionFailed(u, "InstallError"), "error")
          /\ UNCHANGED helm
       \/ /\ Fault("helm")                          \* after
          /\ rel' = Revision("failed", Nil)
          /\ IF FailureRollbacks
             THEN GoTo("cleanup")
             ELSE Leave(ActionFailed(u, "InstallError"), "error")
          /\ UNCHANGED drift
    /\ UNCHANGED <<api, cache, queue, obj, fresh, edits>>

(* actionClient.Install uninstalls a release whose installation failed.    *)
CleanUpInstall ==
    /\ pc = "cleanup"
    /\ \/ rel' = Nil /\ drift' = FALSE /\ UNCHANGED faults
       \/ /\ Fault("cleanup")
          /\ \E st \in {rel.status, "uninstalling"} :
                rel' = [rel EXCEPT !.status = st]
          /\ UNCHANGED drift
    /\ Leave(ActionFailed(u, "InstallError"), "error")
    /\ UNCHANGED <<api, cache, queue, obj, fresh, edits>>

Upgrade ==
    /\ pc = "upgrade"
    /\ \/ /\ Fault("helm")                          \* the Get before it
          /\ Leave(u, "error")
          /\ UNCHANGED helm
       \/ /\ rel' = Revision("deployed", Nil) /\ drift' = FALSE
          /\ Leave(Succeeded(u, rel'), "requeue")
          /\ UNCHANGED faults
       \/ /\ Fault("helm")                          \* before it is recorded
          /\ Leave(ActionFailed(u, "UpgradeError"), "error")
          /\ UNCHANGED helm
       \/ /\ Fault("helm")                          \* after
          /\ UNCHANGED drift
          /\ IF FailureRollbacks
             THEN rel' = Revision("failed", rel.manifest) /\ GoTo("rollback")
             ELSE /\ rel' = Revision("failed", Nil)
                  /\ Leave(ActionFailed(u, "UpgradeError"), "error")
    /\ UNCHANGED <<api, cache, queue, obj, fresh, edits>>

(* Mutant: a failed upgrade is undone like a failed installation.          *)
UninstallUpgrade ==
    /\ pc = "rollback"
    /\ rel' = Nil /\ drift' = FALSE
    /\ Leave(ActionFailed(u, "UpgradeError"), "error")
    /\ UNCHANGED <<api, cache, queue, obj, fresh, budget>>

(* actionClient.Upgrade rolls a failed upgrade back.                       *)
RollBackUpgrade ==
    /\ pc = "rollback"
    /\ \/ /\ rel' = [rel EXCEPT !.status = "deployed",
                                !.manifest = rel.previous, !.previous = Nil]
          /\ drift' = FALSE
          /\ UNCHANGED faults
       \/ /\ Fault("cleanup")                  \* before it is recorded, or after
          /\ \E m \in {rel.manifest, rel.previous} :
                rel' = [rel EXCEPT !.manifest = m, !.previous = Nil]
          /\ UNCHANGED drift
    /\ Leave(ActionFailed(u, "UpgradeError"), "error")
    /\ UNCHANGED <<api, cache, queue, obj, fresh, edits>>

ReconcileRelease ==
    /\ pc = "reconcile"
    /\ LET noRelease == Ensure(u, "ReleaseFailed", False("")) IN
       \/ /\ drift' = FALSE
          /\ Leave(Succeeded(noRelease, rel), "requeue")
          /\ UNCHANGED faults
       \/ /\ Fault("helm")
          /\ Leave(Ensure(noRelease, "Irreconcilable", True("ReconcileError")),
                   "error")
          /\ UNCHANGED drift
    /\ UNCHANGED <<api, cache, queue, obj, fresh, rel, edits>>

-----------------------------------------------------------------------------
(* handleDeletion                                                          *)

(* Mutant: nothing to uninstall is an error.                               *)
UninstallOfNothingFails ==
    /\ pc = "uninstall"
    /\ pc' = "applyUninstall"
    /\ rel' = Nil /\ drift' = FALSE
    /\ result' = IF rel = Nil THEN "error" ELSE "done"
    /\ un' = IF rel = Nil THEN ActionFailed(un, "UninstallError")
             ELSE Ensure(un, "Deployed", False("UninstallSuccessful"))
    /\ UNCHANGED <<api, cache, queue, obj, fresh, u, budget>>

(* A release that is not found counts as uninstalled.                      *)
Uninstall ==
    /\ pc = "uninstall"
    /\ pc' = "applyUninstall"
    /\ \/ /\ rel' = Nil /\ drift' = FALSE
          /\ result' = "done"
          /\ un' = EnsureDeployedRelease(
                     Ensure(Ensure(un, "ReleaseFailed", False("")),
                            "Deployed", False("UninstallSuccessful")), Nil)
          /\ UNCHANGED faults
       \/ /\ Fault("helm") /\ rel # Nil
          /\ \/ rel' = Nil /\ drift' = FALSE            \* after it is purged
             \/ /\ \E st \in {rel.status, "uninstalling"} :
                      rel' = [rel EXCEPT !.status = st]
                /\ UNCHANGED drift
          /\ result' = "error"
          /\ un' = ActionFailed(un, "UninstallError")
    /\ UNCHANGED <<api, cache, queue, obj, fresh, u, edits>>

(* uninstallUpdater.Apply, its status part; an error of it ends the        *)
(* deletion, and Reconcile's own Apply follows.                            *)
ApplyUninstall ==
    /\ pc = "applyUninstall"
    /\ UNCHANGED <<born, cache, queue, u, helm, edits>>
    /\ LET o == [obj EXCEPT !.status = Applied(un, obj.status)]
           next == IF result = "error" THEN "apply" ELSE "removeFinalizer"
           failed == /\ pc' = "apply" /\ un' = NoUpdates /\ result' = "error"
                     /\ obj' = o
       IN
       \/ /\ ~NeedsStatusUpdate(un, obj.status)
          /\ pc' = next /\ un' = NoUpdates
          /\ UNCHANGED <<cr, backlog, obj, fresh, result, faults>>
       \/ /\ NeedsStatusUpdate(un, obj.status) /\ Writable
          /\ StoreStatus(o)
          /\ obj' = StatusUpdated(o) /\ fresh' = TRUE
          /\ pc' = next /\ un' = NoUpdates
          /\ UNCHANGED <<result, faults>>
       \/ /\ NeedsStatusUpdate(un, obj.status) /\ ~Writable
          /\ failed
          /\ UNCHANGED <<cr, backlog, fresh, faults>>
       \/ /\ NeedsStatusUpdate(un, obj.status) /\ Fault("api")
          /\ failed
          /\ \/ UNCHANGED <<cr, backlog, fresh>>          \* lost requests
             \/ /\ Writable                               \* lost reply
                /\ Store(StatusUpdated(o)) /\ fresh' = FALSE

(* uninstallUpdater.Apply, its second part.                                *)
RemoveFinalizer ==
    /\ pc = "removeFinalizer"
    /\ UNCHANGED <<born, cache, queue, u, un, helm, edits>>
    /\ LET o == [obj EXCEPT !.finalizers = @ \ {uninstallFinalizer}]
           failed == pc' = "apply" /\ result' = "error" /\ obj' = o
       IN
       \/ /\ Writable
          /\ Store(Updated(o))
          /\ obj' = Updated(o) /\ fresh' = (cr' # Nil)
          /\ pc' = "waitForDeletion"
          /\ UNCHANGED <<result, faults>>
       \/ /\ ~Writable
          /\ failed
          /\ UNCHANGED <<cr, backlog, fresh, faults>>
       \/ /\ Fault("api")
          /\ failed
          /\ \/ UNCHANGED <<cr, backlog, fresh>>
             \/ Writable /\ Store(Updated(o)) /\ fresh' = FALSE

(* WaitForDeletion polls the cache into obj until the CR is gone, which    *)
(* also cancels Reconcile's own updates, or until its timeout.             *)
WaitForDeletion ==
    /\ pc = "waitForDeletion"
    /\ UNCHANGED <<api, cache, helm, budget>>
    /\ \/ /\ cache = Nil
          /\ Return("done")
       \/ /\ cache # Nil
          /\ obj' = cache /\ fresh' = (backlog = <<>>)
          /\ Leave(u, "error")
          /\ UNCHANGED queue

-----------------------------------------------------------------------------
(* The deferred Apply, and the end of Reconcile                            *)

(* Mutant: an error of Apply is only logged.                               *)
ApplyErrorIgnored(res, notFound) == res

(* Apply's error replaces a nil error unless it is NotFound.               *)
AfterApplyError(res, notFound) == IF notFound THEN res ELSE "error"

Apply ==
    /\ pc = "apply"
    /\ UNCHANGED <<born, cache, helm, edits>>
    /\ LET o == [obj EXCEPT !.status = Applied(u, obj.status)] IN
       \/ /\ ~NeedsStatusUpdate(u, obj.status)
          /\ Return(result)
          /\ UNCHANGED <<cr, backlog, faults>>
       \/ /\ NeedsStatusUpdate(u, obj.status) /\ Writable
          /\ StoreStatus(o)
          /\ Return(result)
          /\ UNCHANGED faults
       \/ /\ NeedsStatusUpdate(u, obj.status) /\ ~Writable
          /\ Return(AfterApplyError(result, cr = Nil))
          /\ UNCHANGED <<cr, backlog, faults>>
       \/ /\ NeedsStatusUpdate(u, obj.status) /\ Fault("api")
          /\ Return(AfterApplyError(result, FALSE))
          /\ \/ UNCHANGED <<cr, backlog>>
             \/ Writable /\ Store(StatusUpdated(o))

-----------------------------------------------------------------------------
(* The operator is killed and started again: what it knew is gone, the     *)
(* release is as the Helm call under way had left it, and the first list   *)
(* of the new informer puts the CR into the cache and the queue.           *)

Interrupted ==
    CASE pc = "install" -> {rel, Revision("pending", Nil)}
      [] pc = "upgrade" -> {rel, Revision("pending", Nil)}
      [] pc = "rollback" ->
           {[rel EXCEPT !.previous = Nil],
            [rel EXCEPT !.status = "pending", !.manifest = rel.previous,
                        !.previous = Nil]}
      [] pc \in {"cleanup", "uninstall"} /\ rel # Nil ->
           {rel, [rel EXCEPT !.status = "uninstalling"]}
      [] OTHER -> {rel}

Restart ==
    /\ Fault("crash")
    /\ rel' \in Interrupted
    /\ cache' = cr /\ backlog' = <<>>
    /\ dirty' = (cr # Nil) /\ delayed' = {}
    /\ pc' = "idle" /\ obj' = Nil /\ fresh' = FALSE
    /\ u' = NoUpdates /\ un' = NoUpdates /\ result' = "none"
    /\ UNCHANGED <<cr, born, drift, edits>>

-----------------------------------------------------------------------------
Reconcile ==
    \/ StartReconcile \/ AddFinalizer \/ Pause \/ ActionClientFails
    \/ LookupRelease \/ GetValuesFails \/ ReleaseStateFails \/ GetReleaseState
    \/ Install \/ CleanUpInstall \/ Upgrade \/ RollBackUpgrade
    \/ ReconcileRelease \/ Uninstall \/ ApplyUninstall \/ RemoveFinalizer
    \/ WaitForDeletion \/ Apply

Next == Users \/ Deliver \/ TimerFires \/ Reconcile \/ Restart

Spec == Init /\ [][Next]_vars

(* The watch delivers, timers fire and the worker keeps working; nobody    *)
(* has to edit, fail or crash.                                             *)
Fairness == WF_vars(Deliver) /\ WF_vars(TimerFires) /\ WF_vars(Reconcile)

FairSpec == Spec /\ Fairness

-----------------------------------------------------------------------------
(* Safety                                                                  *)

(* A release never outlives its CR: as long as Helm has one, the CR        *)
(* incarnation it was made for is stored and carries the uninstall         *)
(* finalizer, whatever was stale, failed, lost or interrupted.             *)
ReleaseIsOwned ==
    rel # Nil => /\ cr # Nil
                 /\ cr.uid = rel.owner
                 /\ uninstallFinalizer \in cr.finalizers

(* Why ReleaseIsOwned holds.  Only the removal of the finalizer can break  *)
(* it, and that write needs the stored version of a CR whose deletion the  *)
(* worker has read from the cache; deletion is never revoked, so no copy   *)
(* that could lead to another installation is left anywhere.               *)

(* w is not an older version than v of the same incarnation.               *)
Follows(v, w) ==
    v # Nil /\ w # Nil /\ v.uid = w.uid /\ v.deleting => w.deleting

(* The incarnation of v is stored and guarded by the finalizer.            *)
Guards(v) ==
    cr # Nil /\ cr.uid = v.uid /\ uninstallFinalizer \in cr.finalizers

(* A copy that looks ready to be acted on is of a CR that is guarded.      *)
Credible(v) ==
    v # Nil => /\ v.uid <= born
               /\ ~v.deleting /\ uninstallFinalizer \in v.finalizers => Guards(v)

VersionsInOrder ==
    /\ cr # Nil => Persisted(cr) = cr
    /\ cr = IF backlog = <<>> THEN cache ELSE backlog[Len(backlog)]
    /\ Credible(cache)
    /\ \A i \in 1..Len(backlog) :
          /\ Credible(backlog[i])
          /\ Follows(cache, backlog[i])
          /\ \A j \in 1..Len(backlog) : i < j => Follows(backlog[i], backlog[j])

OldCopy(v) ==
    /\ v.uid <= born
    /\ Follows(v, cache)
    /\ \A i \in 1..Len(backlog) : Follows(v, backlog[i])

CopyIsOld ==
    /\ obj # Nil => OldCopy(obj)
    /\ fresh => /\ obj # Nil /\ cr # Nil
                /\ obj.uid = cr.uid /\ obj.deleting = cr.deleting

(* The steps that may bring a release into being.                          *)
Acting ==
    \/ pc = "lookup" /\ ~obj.deleting
    \/ pc \in {"releaseState", "install", "cleanup", "upgrade", "rollback",
               "reconcile"}

WorkerInStep ==
    /\ pc # "idle" => obj # Nil
    /\ pc = "addFinalizer" => ~obj.deleting
    /\ Acting => ~obj.deleting /\ Guards(obj)
    /\ pc \in {"cleanup", "upgrade", "rollback", "reconcile"} => rel # Nil
    /\ pc = "rollback" => rel.previous # Nil
    /\ pc \in {"uninstall", "applyUninstall", "removeFinalizer"} => obj.deleting
    /\ pc = "applyUninstall" => rel = Nil \/ result = "error"
    /\ pc = "removeFinalizer" => rel = Nil

(* The inductive invariant.                                                *)
IInv == /\ TypeOK /\ VersionsInOrder /\ CopyIsOld /\ WorkerInStep
        /\ ReleaseIsOwned

(* A release that was deployed goes away only because its own CR is being  *)
(* deleted: no failure or stale copy leads to the uninstall of the release *)
(* of a live CR, and cleaning up touches failed first installs only.       *)
Established(r) == r.status = "deployed" \/ r.previous # Nil
UninstallsOnlyDeleted ==
    [][rel # Nil /\ Established(rel) /\ rel' = Nil
          => cr # Nil /\ cr.deleting /\ cr.uid = rel.owner]_vars

(* The worker's writes to the CR never undo a user's: its spec, its pause  *)
(* annotation and the finalizers of others are as the user left them, also *)
(* when the worker's copy was stale.                                       *)
NoLostUpdate ==
    [][Reconcile /\ cr # Nil /\ cr' # Nil
          => /\ cr'.uid = cr.uid /\ cr'.deleting = cr.deleting
             /\ cr'.spec = cr.spec /\ cr'.paused = cr.paused
             /\ cr'.finalizers \ {uninstallFinalizer}
                   = cr.finalizers \ {uninstallFinalizer}]_vars

(* Nothing will wake the worker but a user or the reconcile period.        *)
AtRest == pc = "idle" /\ ~dirty /\ "retry" \notin delayed /\ backlog = <<>>

ReportsDeployed(st, m) ==
    /\ st["Deployed"] = True("InstallOrUpgradeSuccessful")
    /\ st["deployedRelease"] = m
    /\ st["Initialized"] = True("")
    /\ \A f \in {"ReleaseFailed", "Irreconcilable", "Paused"} : st[f] = False("")

ReportsPaused(st) ==
    /\ st["Paused"] = True("PauseReconcileAnnotationTrue")
    /\ st["deployedRelease"] = Nil
    /\ \A f \in ConditionTypes \ {"Paused"} : st[f] = Unknown

(* The operator never goes to sleep over unfinished work: with the queue   *)
(* and the watch empty and no retry due, a live CR's release is deployed   *)
(* at the CR's values and reported so, a paused one is reported paused,    *)
(* and none is left being deleted.                                         *)
AtRestDone ==
    AtRest /\ cr # Nil =>
        IF cr.paused THEN ReportsPaused(cr.status)
        ELSE /\ ~cr.deleting
             /\ rel # Nil /\ rel.status = "deployed" /\ rel.manifest = cr.spec
             /\ ReportsDeployed(cr.status, cr.spec)

-----------------------------------------------------------------------------
(* Liveness                                                                *)

(* A CR that is deleted, not paused and held by no other finalizer does    *)
(* not stay: its release is uninstalled and the uninstall finalizer goes.  *)
DeletionCompletes ==
    []<>~(cr # Nil /\ cr.deleting /\ ~cr.paused /\ "other" \notin cr.finalizers)

(* If users leave a live CR alone, its release ends up deployed at its     *)
(* values for good, and the status says so.  The only way out is a release *)
(* left in progress: pending, as the operator was killed within a Helm     *)
(* action, or uninstalling, as the clean-up of a failed installation was   *)
(* cut short, by a crash or by a failure.                                  *)
Wanted(m) == cr # Nil /\ ~cr.deleting /\ ~cr.paused /\ cr.spec = m
Deploys(m) ==
    /\ rel # Nil /\ rel.status = "deployed" /\ rel.manifest = m
    /\ cr # Nil /\ ReportsDeployed(cr.status, m)
Stuck == rel # Nil /\ HelmRefusesUpgrade(rel)
Converges ==
    \A m \in Manifests : <>[]Wanted(m) => <>[]Deploys(m) \/ <>[]Stuck

(* With a reconcile period, resources that were changed behind Helm's back *)
(* are put back while the CR is live and not paused, unless it is stuck.   *)
DriftIsRepaired ==
    (\E m \in Manifests : <>[]Wanted(m)) => []<>~drift \/ <>[]Stuck

-----------------------------------------------------------------------------
(* What the source says, and the code does not do                          *)

StatusWritten == cr # Nil /\ cr' # Nil /\ cr'.status # cr.status
SaysDeployed(st) == st["Deployed"] = True("InstallOrUpgradeSuccessful")

(* reconciler.go:580 "Deployed - a release for this CR is deployed": the   *)
(* condition is not set to True when there is no release at all.           *)
DeployedMeansRelease ==
    [][StatusWritten /\ SaysDeployed(cr'.status) => rel # Nil]_vars

(* actionclient.go:264 "controller-runtime will backoff on retries after   *)
(* failed attempts": while the retry of a failed installation waits for    *)
(* its timer, the request gets back into the queue only when the CR has    *)
(* really changed.                                                         *)
RetriesBackOff ==
    [][/\ rel = Nil /\ "retry" \in delayed /\ delayed' = delayed /\ ~dirty
       /\ cache # Nil /\ cache' = cache
       /\ cache.status["ReleaseFailed"] = True("InstallError")
       => ~dirty']_vars

(* reconciler.go:561 "If a release does not exist for this CR, a new       *)
(* release is installed", "If a release exists and the CR spec has changed *)
(* ..., the release is upgraded": Converges, and never Stuck.              *)
ConvergesAfterCrash ==
    \A m \in Manifests : <>[]Wanted(m) => <>[]Deploys(m)
=============================================================================
