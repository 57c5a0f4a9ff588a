----------------------------- MODULE Operators -----------------------------
(***************************************************************************)
(* Processes of the operator and what they are configured with.  A process *)
(* (internal/cmd/helm-operator/run/cmd.go) takes flags and environment,    *)
(* loads watches.yaml (pkg/watches) and makes one Reconciler with one      *)
(* controller for each entry; it exits if anything of this fails.  Then    *)
(* events of CRs, release secrets and dependents, filtered as setupWatches *)
(* has arranged, timers and retries fill the queue of each controller.     *)
(*                                                                         *)
(* Several processes may serve the same kinds: replicas, of which leader   *)
(* election lets one work, or shards with different label selectors.  A    *)
(* reconciliation has here the steps at which it meets others: its reads,  *)
(* its writes to the CR, which the API server refuses if the CR was        *)
(* changed after the worker has read it, and Helm's action.  Its details   *)
(* are in module Reconciler, those of dependents in DependentWatches.      *)
(***************************************************************************)
EXTENDS Integers, FiniteSets, SequencesExt

CONSTANTS
    Operators,      \* processes
    CRs, Gvk,       \* the custom resources, and the kind of each
    Namespace,      \* of each custom resource
    Labels,         \* what selectors tell apart; a selector is a set of them
    Setups,         \* of all processes: flags, environment and watches file
    Malformed,      \* a selector that cannot be converted
    ToLower(_),     \* strings.ToLower
    Failed,         \* what the status says of a reconciliation that failed
    Nil,
    MaxEdits,       \* bound: what users do
    MaxFaults       \* bound: failing reconciliations and deaths of processes

ASSUME OperatorsAssumption ==
    /\ Gvk \in [CRs -> [group : STRING, version : STRING, kind : STRING]]
    /\ \A s \in Setups :
          DOMAIN s = Operators /\ \A op \in Operators : s[op].file \in Seq(ToSet(s[op].file))
    /\ MaxEdits \in Nat /\ MaxFaults \in Nat

VARIABLES
    setup,          \* what each process is started with
    phase,          \* down, starting, exited, standby or running
    controllers,    \* the controllers of each process, in the order of its file
    queue, timers,  \* the requests in their queues; those that come later
    work,           \* of each CR: its worker, or Nil
    watching,       \* the kinds whose dependents are watched
    cr,             \* the custom resources, or Nil
    rel,            \* the spec each one's release was made from, or Nil
    drift,          \* the CRs whose dependents differ from the release
    contested,      \* history: the CRs two processes were at work on at a time
    edits, faults

process == <<phase, controllers, watching>>
cluster == <<cr, rel, drift>>
vars    == <<setup, process, queue, timers, work, cluster, contested, edits, faults>>

-----------------------------------------------------------------------------
(* Flags and environment.  flags holds the flags given on the command line.*)

Flag(s, name, default) == IF name \in DOMAIN s.flags THEN s.flags[name] ELSE default

(* A flag and its deprecated form exclude each other.                      *)
FlagsConflict(s) ==
    \/ {"leader-elect", "enable-leader-election"} \subseteq DOMAIN s.flags
    \/ {"metrics-bind-address", "metrics-addr"} \subseteq DOMAIN s.flags

(* Mutant: leader election is left as it is without flags.                 *)
NoLeaderElection(s) == FALSE

LeaderElection(s) ==
    Flag(s, "leader-elect", Flag(s, "enable-leader-election", FALSE))

(* OPERATOR_NAME counts only without --leader-election-id.                 *)
LeaderElectionID(s) == Flag(s, "leader-election-id", s.OPERATOR_NAME)

(* The lease; without a namespace it is in the process's own.              *)
Lease(s) == <<LeaderElectionID(s), Flag(s, "leader-election-namespace", "")>>

(* WATCH_NAMESPACE, split at its commas; blanks do not count.              *)
WatchNamespaces(s) ==
    LET names == ToSet(s.WATCH_NAMESPACE) \ {""}
    IN  IF names = {} THEN {Namespace[c] : c \in CRs} ELSE names

-----------------------------------------------------------------------------
(* The watches file                                                        *)

verifyGVK(gvk) == gvk.version # "" /\ gvk.kind # ""

LoadReader(file) ==
    /\ \A i \in DOMAIN file :
          /\ verifyGVK(file[i].gvk)
          /\ file[i].chart # Nil
          /\ file[i].overrideValues # "unparsable"
    /\ \A i, j \in DOMAIN file : file[i].gvk = file[j].gvk => i = j

Selector(w) == IF w.selector = Nil THEN Labels ELSE w.selector

WatchDependentResources(w) ==
    IF w.watchDependentResources = Nil THEN TRUE ELSE w.watchDependentResources

-----------------------------------------------------------------------------
(* Reconcilers and controllers                                             *)

(* The options of reconciler.New as run gives them.                        *)
New(s, w) ==
    [gvk |-> w.gvk, selector |-> Selector(w),
     skipDependentWatches |-> WatchDependentResources(w),
     maxConcurrentReconciles |-> Flag(s, "max-concurrent-reconciles", 2),
     reconcilePeriod |-> Flag(s, "reconcile-period", 60)]

WithOverrideValues(w) == w.overrideValues # "inapplicable"
WithMaxConcurrentReconciles(s, w) == New(s, w).maxConcurrentReconciles >= 1
WithReconcilePeriod(s, w) == New(s, w).reconcilePeriod >= 0

(* The name of a controller, which controller-runtime wants to be unique   *)
(* in a process.                                                           *)
ControllerName(gvk) == ToLower(gvk.kind)

(* Entry w, after those that the controllers ks are for already.           *)
SetupWithManager(ks, w) ==
    /\ \A k \in ToSet(ks) : ControllerName(k.gvk) # ControllerName(w.gvk)
    /\ w.selector # Malformed

(* What a process checks before it makes the first reconciler.             *)
Configured(s) ==
    /\ ~FlagsConflict(s)
    /\ LeaderElection(s) => LeaderElectionID(s) # ""
    /\ LoadReader(s.file)

SetsUp(s, ks, w) ==
    /\ WithOverrideValues(w)
    /\ WithMaxConcurrentReconciles(s, w)
    /\ WithReconcilePeriod(s, w)
    /\ SetupWithManager(ks, w)

-----------------------------------------------------------------------------
(* Who hears of what                                                       *)

(* The controllers of op that a CR concerns; there is one at most.         *)
Controllers(op, c) ==
    {k \in ToSet(controllers[op]) : k.gvk = Gvk[c] /\ Namespace[c] \in WatchNamespaces(setup[op])}

Running == {op \in Operators : phase[op] = "running"}

(* A CR that is, or becomes, labelled so is created, changed or removed.   *)
Selecting(c, label) ==
    {op \in Running : \E k \in Controllers(op, c) : label \in k.selector}

(* The predicate of the selector also stands before the watch on secrets,  *)
(* and a release's secret has none of its CR's labels.                     *)
HearingSecrets(c) ==
    {op \in Running : \E k \in Controllers(op, c) : k.selector = Labels}

(* Any dependent of a kind that is watched; its owner need not be selected.*)
HearingDependents(c) ==
    {op \in Running : Controllers(op, c) # {} /\ Gvk[c] \in watching[op]}

Wake(ops, c) ==
    queue' = [op \in Operators |-> IF op \in ops THEN queue[op] \cup {c} ELSE queue[op]]

-----------------------------------------------------------------------------
Init ==
    /\ setup \in Setups
    /\ phase = [op \in Operators |-> "down"]
    /\ controllers = [op \in Operators |-> <<>>]
    /\ watching = [op \in Operators |-> {}]
    /\ queue = [op \in Operators |-> {}] /\ timers = [op \in Operators |-> {}]
    /\ work = [op \in Operators |-> [c \in CRs |-> Nil]]
    /\ cr = [c \in CRs |-> Nil] /\ rel = [c \in CRs |-> Nil] /\ drift = {}
    /\ contested = {}
    /\ edits = 0 /\ faults = 0

Edit == edits < MaxEdits /\ edits' = edits + 1
Fault == faults < MaxFaults /\ faults' = faults + 1

Working(op, c) == work[op][c] # Nil
Unattended(c) == \A op \in Operators : ~Working(op, c)

(* The workers when c is written: what they have read of it is old then.   *)
Outdated(c) ==
    [op \in Operators |-> [work[op] EXCEPT ![c] =
        IF @ = Nil THEN Nil ELSE [@ EXCEPT !.fresh = FALSE]]]

(* Users.  Each edit makes a spec that was not there before.  A name is not *)
(* used again while somebody works on it or its old release is there.      *)
Create(c) ==
    /\ Edit
    /\ cr[c] = Nil /\ rel[c] = Nil /\ Unattended(c)
    /\ \E label \in Labels :
          /\ cr' = [cr EXCEPT ![c] = [label |-> label, spec |-> 0, deleting |-> FALSE,
                                     finalizer |-> FALSE, status |-> Nil]]
          /\ Wake(Selecting(c, label), c)
    /\ UNCHANGED <<setup, process, timers, work, rel, drift, contested, faults>>

EditSpec(c) ==
    /\ Edit
    /\ cr[c] # Nil /\ ~cr[c].deleting
    /\ cr' = [cr EXCEPT ![c].spec = @ + 1]
    /\ work' = Outdated(c)
    /\ Wake(Selecting(c, cr[c].label), c)
    /\ UNCHANGED <<setup, process, timers, rel, drift, contested, faults>>


(* Only the new labels count.                                              *)
Relabel(c) ==
    /\ Edit
    /\ cr[c] # Nil
    /\ \E label \in Labels \ {cr[c].label} :
          /\ cr' = [cr EXCEPT ![c].label = label]
          /\ Wake(Selecting(c, label), c)
    /\ work' = Outdated(c)
    /\ UNCHANGED <<setup, process, timers, rel, drift, contested, faults>>

Delete(c) ==
    /\ Edit
    /\ cr[c] # Nil /\ ~cr[c].deleting
    /\ cr' = [cr EXCEPT ![c] = IF @.finalizer THEN [@ EXCEPT !.deleting = TRUE] ELSE Nil]
    /\ work' = Outdated(c)
    /\ Wake(Selecting(c, cr[c].label), c)
    /\ UNCHANGED <<setup, process, timers, rel, drift, contested, faults>>

(* What happens to dependents during a reconciliation: DependentWatches.   *)
Drift(c) ==
    /\ Edit
    /\ rel[c] # Nil /\ Unattended(c)
    /\ drift' = drift \cup {c}
    /\ Wake(HearingDependents(c), c)
    /\ UNCHANGED <<setup, process, timers, work, cr, rel, contested, faults>>

-----------------------------------------------------------------------------
(* Processes                                                               *)

Start(op) ==
    /\ phase[op] = "down"
    /\ LET s == setup[op] IN
       phase' = [phase EXCEPT ![op] =
          IF ~Configured(s) THEN "exited"
          ELSE IF Len(s.file) = 0 THEN "standby" ELSE "starting"]
    /\ UNCHANGED <<setup, controllers, watching, queue, timers, work, cluster,
                   contested, edits, faults>>

(* Mutant: the first entry that fails ends the loop only.                  *)
SetUpPrefix(op) ==
    /\ phase[op] = "starting"
    /\ LET s == setup[op]
           n == Len(controllers[op]) + 1
       IN  IF SetsUp(s, controllers[op], s.file[n])
           THEN /\ controllers' = [controllers EXCEPT ![op] = Append(@, New(s, s.file[n]))]
                /\ phase' = [phase EXCEPT ![op] =
                      IF n = Len(s.file) THEN "standby" ELSE "starting"]
           ELSE /\ phase' = [phase EXCEPT ![op] = "standby"]
                /\ UNCHANGED controllers
    /\ UNCHANGED <<setup, watching, queue, timers, work, cluster, contested, edits,
                   faults>>

(* The entries are gone through one by one; at the first that fails the    *)
(* process exits.                                                          *)
SetUp(op) ==
    /\ phase[op] = "starting"
    /\ LET s == setup[op]
           n == Len(controllers[op]) + 1
       IN  IF SetsUp(s, controllers[op], s.file[n])
           THEN /\ controllers' = [controllers EXCEPT ![op] = Append(@, New(s, s.file[n]))]
                /\ phase' = [phase EXCEPT ![op] =
                      IF n = Len(s.file) THEN "standby" ELSE "starting"]
           ELSE /\ phase' = [phase EXCEPT ![op] = "exited"]
                /\ UNCHANGED controllers
    /\ UNCHANGED <<setup, watching, queue, timers, work, cluster, contested, edits,
                   faults>>

(* The controllers run once the lease is free; each informer begins with a *)
(* list, which reports all there is as created.                            *)
Run(op) ==
    /\ phase[op] = "standby"
    /\ LeaderElection(setup[op]) =>
          \A other \in Running :
             LeaderElection(setup[other]) => Lease(setup[other]) # Lease(setup[op])
    /\ phase' = [phase EXCEPT ![op] = "running"]
    /\ queue' = [queue EXCEPT ![op] =
          {c \in CRs : cr[c] # Nil /\ \E k \in Controllers(op, c) :
              cr[c].label \in k.selector \/ (k.selector = Labels /\ rel[c] # Nil)}]
    /\ UNCHANGED <<setup, controllers, watching, timers, work, cluster, contested,
                   edits, faults>>

(* Mutant: the workers of a process outlive its lease.                     *)
LoseLease(op) ==
    /\ phase[op] = "running"
    /\ Fault
    /\ phase' = [phase EXCEPT ![op] = "standby"]
    /\ UNCHANGED <<setup, controllers, watching, queue, timers, work, cluster,
                   contested, edits>>

(* A process dies, or exits as it has lost its lease.                      *)
Die(op) ==
    /\ phase[op] = "running"
    /\ Fault
    /\ phase' = [phase EXCEPT ![op] = "down"]
    /\ controllers' = [controllers EXCEPT ![op] = <<>>]
    /\ watching' = [watching EXCEPT ![op] = {}]
    /\ queue' = [queue EXCEPT ![op] = {}]
    /\ timers' = [timers EXCEPT ![op] = {}]
    /\ work' = [work EXCEPT ![op] = [c \in CRs |-> Nil]]
    /\ UNCHANGED <<setup, cluster, contested, edits>>

-----------------------------------------------------------------------------
(* Workers.  A worker is at a place in Reconcile and has what it has read  *)
(* of the CR: its spec, whether it is being deleted, and its status, which *)
(* is Nil once there is something to change in it; this is fresh as long   *)
(* as it is what is stored.                                                *)

(* The worker begins by reading the CR, unless it has gone.                *)
Take(op, c) ==
    /\ c \in queue[op] /\ ~Working(op, c)
    /\ \A k \in Controllers(op, c) :
          Cardinality({x \in CRs : Gvk[x] = Gvk[c] /\ Working(op, x)})
              < k.maxConcurrentReconciles
    /\ queue' = [queue EXCEPT ![op] = @ \ {c}]
    /\ IF cr[c] = Nil THEN UNCHANGED <<work, contested>>
       ELSE /\ work' = [work EXCEPT ![op][c] =
                  [at |-> CASE cr[c].deleting -> "uninstall"
                            [] ~cr[c].deleting /\ ~cr[c].finalizer -> "addFinalizer"
                            [] OTHER -> "lookup",
                   spec |-> cr[c].spec, deleting |-> cr[c].deleting,
                   status |-> cr[c].status, fresh |-> TRUE]]
            /\ contested' = IF Unattended(c) THEN contested ELSE contested \cup {c}
    /\ UNCHANGED <<setup, process, timers, cluster, edits, faults>>

At(op, c, place) == Working(op, c) /\ work[op][c].at = place

GoTo(op, c, place) == work' = [work EXCEPT ![op][c].at = place]

(* Mutant: an error of a call is lost.                                     *)
GiveUp(op, c) ==
    /\ work' = [work EXCEPT ![op][c] = Nil]
    /\ UNCHANGED timers

(* Reconcile returns an error: the request is tried again after a while.   *)
Retry(op, c) ==
    /\ work' = [work EXCEPT ![op][c] = Nil]
    /\ timers' = [timers EXCEPT ![op] = @ \cup {c}]

(* A write to the CR is refused if the CR was changed or is gone, which is *)
(* an error.                                                               *)
Conflict(op, c) ==
    /\ ~work[op][c].fresh
    /\ Retry(op, c)
    /\ UNCHANGED <<queue, cr>>

(* Before anything is done for a CR, the finalizer is stored.              *)
AddFinalizer(op, c) ==
    /\ At(op, c, "addFinalizer")
    /\ \/ /\ work[op][c].fresh
          /\ cr' = [cr EXCEPT ![c].finalizer = TRUE]
          /\ work' = [Outdated(c) EXCEPT ![op][c] = [work[op][c] EXCEPT !.at = "lookup"]]
          /\ Wake(Selecting(c, cr[c].label), c)
          /\ UNCHANGED timers
       \/ Conflict(op, c)
    /\ UNCHANGED <<setup, process, rel, drift, contested, edits, faults>>

(* The first look at the release is noted for the status.                  *)
LookupRelease(op, c) ==
    /\ At(op, c, "lookup")
    /\ LET w == work[op][c] IN
       work' = [work EXCEPT ![op][c] =
          [w EXCEPT !.status = IF @ = rel[c] THEN @ ELSE Nil, !.at = "serve"]]
    /\ UNCHANGED <<setup, process, queue, timers, cluster, contested, edits, faults>>

(* It installs, upgrades or repairs the release, and watches dependents.   *)
Serve(op, c) ==
    /\ At(op, c, "serve")
    /\ LET spec == work[op][c].spec IN
       /\ rel' = [rel EXCEPT ![c] = spec]
       /\ Wake((IF rel[c] = spec THEN {} ELSE HearingSecrets(c))
               \cup (IF rel[c] = spec /\ c \notin drift THEN {}
                     ELSE HearingDependents(c)), c)
       /\ GoTo(op, c, "served")
    /\ drift' = drift \ {c}
    /\ watching' = [watching EXCEPT ![op] =
          IF \A k \in Controllers(op, c) : k.skipDependentWatches THEN @
          ELSE @ \cup {Gvk[c]}]
    /\ UNCHANGED <<setup, phase, controllers, timers, cr, contested, edits, faults>>

(* Mutant: every reconciliation is followed by another one.                *)
RequeueAlways(op, c) == timers' = [timers EXCEPT ![op] = @ \cup {c}]

(* Mutant: the period is not passed on.                                    *)
RequeueNever(op, c) == UNCHANGED timers

(* RequeueAfter: the reconcile period, where there is one.                 *)
Requeue(op, c) ==
    timers' = [timers EXCEPT ![op] =
        IF \E k \in Controllers(op, c) : k.reconcilePeriod > 0 THEN @ \cup {c} ELSE @]

(* The end of Reconcile, when the deferred Apply has had no error.          *)
Return(op, c) ==
    IF At(op, c, "failed") THEN timers' = [timers EXCEPT ![op] = @ \cup {c}]
                           ELSE Requeue(op, c)

(* The deferred Apply writes the status, if it is to change.  It does not  *)
(* mind if the CR has gone.                                                *)
Apply(op, c) ==
    /\ At(op, c, "served") \/ At(op, c, "failed")
    /\ LET w == work[op][c]
           report == IF w.at = "failed" THEN Failed ELSE w.spec
           needsStatusUpdate == w.status # report
       IN
       \/ /\ ~needsStatusUpdate \/ cr[c] = Nil
          /\ work' = [work EXCEPT ![op][c] = Nil]
          /\ Return(op, c)
          /\ UNCHANGED <<queue, cr>>
       \/ /\ needsStatusUpdate /\ w.fresh
          /\ cr' = [cr EXCEPT ![c].status = report]
          /\ work' = [IF cr' = cr THEN work ELSE Outdated(c) EXCEPT ![op][c] = Nil]
          /\ Return(op, c)
          /\ Wake(IF cr' = cr THEN {} ELSE Selecting(c, cr[c].label), c)
       \/ /\ needsStatusUpdate /\ cr[c] # Nil
          /\ Conflict(op, c)
    /\ UNCHANGED <<setup, process, rel, drift, contested, edits, faults>>

(* It uninstalls the release of a CR that is being deleted.                *)
Uninstall(op, c) ==
    /\ At(op, c, "uninstall")
    /\ rel' = [rel EXCEPT ![c] = Nil]
    /\ drift' = drift \ {c}
    /\ Wake(IF rel[c] = Nil THEN {} ELSE HearingSecrets(c) \cup HearingDependents(c), c)
    /\ GoTo(op, c, "removeFinalizer")
    /\ UNCHANGED <<setup, process, timers, cr, contested, edits, faults>>

(* With the finalizer the CR goes.                                         *)
RemoveFinalizer(op, c) ==
    /\ At(op, c, "removeFinalizer")
    /\ \/ /\ work[op][c].fresh
          /\ cr' = [cr EXCEPT ![c] = Nil]
          /\ work' = [Outdated(c) EXCEPT ![op][c] = Nil]
          /\ Wake(Selecting(c, cr[c].label), c)
          /\ UNCHANGED timers
       \/ Conflict(op, c)
    /\ UNCHANGED <<setup, process, rel, drift, contested, edits, faults>>

(* A call fails.  Where the deferred Apply is in place it reports that.    *)
Fail(op, c) ==
    /\ Working(op, c)
    /\ Fault
    /\ IF work[op][c].at \in {"addFinalizer", "served", "failed"} THEN Retry(op, c)
       ELSE GoTo(op, c, "failed") /\ UNCHANGED timers
    /\ UNCHANGED <<setup, process, queue, cluster, contested, edits>>

TimerFires(op, c) ==
    /\ c \in timers[op]
    /\ timers' = [timers EXCEPT ![op] = @ \ {c}]
    /\ queue' = [queue EXCEPT ![op] = @ \cup {c}]
    /\ UNCHANGED <<setup, process, work, cluster, contested, edits, faults>>

Work(op, c) ==
    \/ AddFinalizer(op, c) \/ LookupRelease(op, c) \/ Serve(op, c) \/ Apply(op, c)
    \/ Uninstall(op, c) \/ RemoveFinalizer(op, c)

Next ==
    \/ \E c \in CRs : Create(c) \/ EditSpec(c) \/ Relabel(c) \/ Delete(c) \/ Drift(c)
    \/ \E op \in Operators : Start(op) \/ SetUp(op) \/ Run(op) \/ Die(op)
    \/ \E op \in Operators, c \in CRs :
          Take(op, c) \/ Work(op, c) \/ Fail(op, c) \/ TimerFires(op, c)

Spec == Init /\ [][Next]_vars

(* Processes that are down are started again, a free lease is taken, and   *)
(* queues are served in order.  Users have no fairness.                    *)
FairSpec ==
    /\ Spec
    /\ \A op \in Operators : WF_vars(Start(op) \/ SetUp(op) \/ Run(op))
    /\ \A op \in Operators, c \in CRs :
          /\ SF_vars(Take(op, c))
          /\ WF_vars(Work(op, c))
          /\ WF_vars(TimerFires(op, c))

-----------------------------------------------------------------------------
(* Properties                                                              *)

Entries(op, c) == {w \in ToSet(setup[op].file) : w.gvk = Gvk[c]}

(* What the flags and the file of op say, however the program reads them.  *)
AsksForLease(op) ==
    \E flag \in {"leader-elect", "enable-leader-election"} : Flag(setup[op], flag, FALSE)

Selects(op, c) ==
    /\ phase[op] = "running" /\ Namespace[c] \in WatchNamespaces(setup[op])
    /\ \E w \in Entries(op, c) : w.selector = Nil \/ cr[c].label \in w.selector

Periodic(op) == Flag(setup[op], "reconcile-period", 60) > 0

Notices(op, c) ==
    Periodic(op) \/ \E w \in Entries(op, c) : w.watchDependentResources = FALSE

Reports == (0..MaxEdits) \cup {Nil, Failed}

CustomResource ==
    [label : Labels, spec : 0..MaxEdits, deleting : BOOLEAN, finalizer : BOOLEAN,
     status : Reports]

Worker ==
    [at : {"addFinalizer", "lookup", "serve", "served", "failed", "uninstall",
           "removeFinalizer"},
     spec : 0..MaxEdits, deleting : BOOLEAN, status : Reports, fresh : BOOLEAN]

ASSUME NilAssumption == Nil \notin Nat \cup CustomResource \cup Worker

Idle(op) ==
    queue[op] = {} /\ timers[op] = {} /\ \A c \in CRs : ~Working(op, c)

CopyOK(op, c) ==
    LET w == work[op][c] IN
    /\ w.at # "failed" => (w.deleting <=> w.at \in {"uninstall", "removeFinalizer"})
    /\ w.fresh => /\ cr[c] # Nil
                  /\ w.spec = cr[c].spec /\ w.deleting = cr[c].deleting

(* A process that does not run has nothing to do; a worker uninstalls what *)
(* it has seen deleted and nothing else; and nothing fresh is of a CR that *)
(* has gone.                                                               *)
TypeOK ==
    /\ setup \in Setups
    /\ phase \in [Operators -> {"down", "starting", "exited", "standby", "running"}]
    /\ watching \in [Operators -> SUBSET {Gvk[c] : c \in CRs}]
    /\ queue \in [Operators -> SUBSET CRs] /\ timers \in [Operators -> SUBSET CRs]
    /\ work \in [Operators -> [CRs -> Worker \cup {Nil}]]
    /\ cr \in [CRs -> CustomResource \cup {Nil}]
    /\ rel \in [CRs -> (0..MaxEdits) \cup {Nil}]
    /\ drift \subseteq {c \in CRs : rel[c] # Nil} /\ contested \subseteq CRs
    /\ edits \in 0..MaxEdits /\ faults \in 0..MaxFaults
    /\ \A op \in Operators :
          /\ watching[op] \subseteq {k.gvk : k \in ToSet(controllers[op])}
          /\ phase[op] # "running" => Idle(op)
    /\ \A op \in Operators, c \in CRs : Working(op, c) => CopyOK(op, c)

(* A process serves the whole of its watches file, with one controller for *)
(* each entry, or nothing: cmd.go makes them one by one and exits if one   *)
(* of them fails.                                                          *)
AllOrNothing ==
    \A op \in Operators : phase[op] \in {"standby", "running"} =>
       /\ Len(controllers[op]) = Len(setup[op].file)
       /\ \A i \in DOMAIN setup[op].file :
             /\ controllers[op][i].gvk = setup[op].file[i].gvk
             /\ \A j \in DOMAIN setup[op].file :
                   ControllerName(controllers[op][i].gvk) = ControllerName(controllers[op][j].gvk)
                     => i = j

(* Two processes that ask for the same lease, each in its own way (new or  *)
(* deprecated flag, flag or environment), never work on one CR at a time.  *)
WorkedByOne ==
    \A op, other \in Operators, c \in CRs :
       /\ op # other
       /\ AsksForLease(op) /\ AsksForLease(other)
       /\ Lease(setup[op]) = Lease(setup[other])
       => ~(Working(op, c) /\ Working(other, c))

(* What a process that selects a CR has still to do for it is never        *)
(* forgotten: the CR is in its queue, waits for a timer or has a worker,   *)
(* whatever failed, died or was refused before.  Without a period this     *)
(* does not hold for a CR that two processes were at work on at a time: it *)
(* is not told if the other one, with an older copy, takes the release     *)
(* back.                                                                   *)
NothingForgotten ==
    \A op \in Operators, c \in CRs :
       /\ cr[c] # Nil /\ Selects(op, c)
       /\ cr[c].deleting \/ rel[c] # cr[c].spec
       /\ Periodic(op) \/ c \notin contested
       => c \in queue[op] \cup timers[op] \/ Working(op, c)


(* Dependents that were changed or removed are repaired, by the period or  *)
(* by the watches, whichever the process that selects the CR has.          *)
DriftIsRepaired ==
    <>[](\A op \in Operators, c \in drift :
            cr[c] # Nil /\ Selects(op, c) => ~Notices(op, c))

(* A shard leaves a CR that it no longer selects alone at last, provided   *)
(* neither the period nor its dependents make it come back to the CR.      *)
HandedOver ==
    <>[](\A op \in Operators, c \in CRs :
            cr[c] # Nil /\ ~Selects(op, c) /\ ~Notices(op, c)
              => c \notin queue[op] \cup timers[op] /\ ~Working(op, c))

(* pkg/reconciler/reconciler.go:268: "By default, dependent watches are    *)
(* enabled", and docs/tutorial.md:180 skips them only where an entry sets  *)
(* watchDependentResources to false: then drift is repaired.               *)
WatchedUnlessSkipped ==
    <>[](\A op \in Operators, c \in drift :
            cr[c] # Nil /\ Selects(op, c)
              => \E w \in Entries(op, c) : w.watchDependentResources = FALSE)
=============================================================================
