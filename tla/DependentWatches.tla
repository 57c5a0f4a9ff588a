-------------------------- MODULE DependentWatches --------------------------
(***************************************************************************)
(* The watches on what a release consists of.  After every reconciliation  *)
(* a post-release hook (internal/hook/hook.go) goes through the manifest   *)
(* and starts a watch for each kind that has none yet; the hook is shared  *)
(* by the workers of all CRs and guarded by a mutex.  An event that passes *)
(* the predicate (internal/predicate/predicates.go) and that the handler   *)
(* of the kind can trace to a CR puts this CR into the work queue.         *)
(*                                                                         *)
(* A watch is in effect some time after it was started.  Deletion of CRs   *)
(* and the status conditions are in module Reconciler.                     *)
(***************************************************************************)
EXTENDS Naturals, Sequences, FiniteSets, SequencesExt

CONSTANTS
    CRs, Kinds, Resources,
    ClusterKinds,       \* the kinds that are cluster-scoped
    Kind, Owner,        \* of a resource: its kind, and the CR whose chart has it
    Namespace,          \* of a CR or resource; Cluster for a cluster-scoped one
    Kept,               \* resources with helm.sh/resource-policy: keep
    Reporting,          \* resources with a status, which other controllers write
    Charts,             \* of a CR: the manifests its specs are rendered to
    Cluster, List, Nil,
    MaxEdits,           \* bound: changes of CRs and resources by users
    MaxFaults,          \* bound: failures and restarts
    MaxWatches          \* bound: watches of a kind that are told apart

(* A manifest is a sequence of documents, each of them a resource or a     *)
(* List of resources.                                                      *)
Items(manifest) == FlattenSeq([i \in 1..Len(manifest) |-> manifest[i].items])
Rendered(manifest) == UNION {ToSet(manifest[i].items) : i \in DOMAIN manifest}

(* Mutant: a List stays one document.                                      *)
KeepLists(manifest) == manifest

(* What the post-renderer makes of a chart's manifest: each resource, those *)
(* of Lists too, becomes a document of its own.                            *)
PostRender(manifest) ==
    LET resources == Items(manifest)
    IN  [i \in DOMAIN resources |-> [list |-> FALSE, items |-> <<resources[i]>>]]

ASSUME WatchAssumption ==
    /\ ClusterKinds \subseteq Kinds /\ List \notin Kinds /\ Nil \notin CRs
    /\ Kind \in [Resources -> Kinds] /\ Owner \in [Resources -> CRs]
    /\ Kept \subseteq Resources /\ Reporting \subseteq Resources
    /\ \A cr \in CRs : \A m \in Charts[cr] :
          Items(m) \in Seq({r \in Resources : Owner[r] = cr})
    /\ MaxEdits \in Nat /\ MaxFaults \in Nat /\ MaxWatches \in Nat \ {0}

VARIABLES
    spec,       \* the manifest that each CR asks for
    rel,        \* the manifest of its release, or Nil
    reported,   \* the manifest in its status
    live,       \* the resources in the cluster, or Nil
    queue,      \* the CRs in the work queue
    pc, todo,   \* the worker of each CR: its step, and what the hook has to visit
    mutex,      \* who holds the hook's mutex, or Nil
    watches,    \* the hook's map of kinds
    started,    \* how often a kind has been watched with a handler
    inEffect,   \* the watches that deliver events
    missed,     \* history: resources changed, since their CR was last served, while
                \* no watch was in effect
    period,     \* is there a reconcile period?
    edits, faults

hook   == <<mutex, watches, started>>
vars   == <<spec, rel, reported, live, queue, pc, todo, hook, inEffect, missed,
            period, edits, faults>>

Handlers == {"ownerRef", "annotation"}

-----------------------------------------------------------------------------
(* Finding the owner                                                       *)

SupportsOwnerReference(cr, r) ==
    \/ Namespace[cr] = Cluster
    \/ Kind[r] \notin ClusterKinds /\ Namespace[cr] = Namespace[r]

(* How the post-renderer makes a resource known as cr's.                   *)
Mark(cr, r) ==
    IF SupportsOwnerReference(cr, r) /\ r \notin Kept THEN "ownerRef"
                                                      ELSE "annotation"

(* Mutant: the hook does not look at the resource policy.                  *)
HandlerOfAll(cr, r) ==
    IF SupportsOwnerReference(cr, r) THEN "ownerRef" ELSE "annotation"

(* The handler that the hook chooses for the kind of r.                    *)
Handler(cr, r) ==
    IF SupportsOwnerReference(cr, r) /\ r \notin Kept THEN "ownerRef"
                                                      ELSE "annotation"

Found(r) == <<Kind[r], Mark(Owner[r], r)>>

-----------------------------------------------------------------------------
(* Events of resources                                                     *)

(* Mutant: changes of the status count.                                    *)
UpdateFuncOfAll(old, new) == old # new

(* Changes of the status do not count.                                     *)
UpdateFunc(old, new) == [old EXCEPT !.status = 0] # [new EXCEPT !.status = 0]

(* Mutant: a deletion does not count.                                      *)
PredicateWithoutDelete(old, new) ==
    old # Nil /\ new # Nil /\ UpdateFunc(old, new)

DependentPredicate(old, new) ==
    /\ old # Nil
    /\ new = Nil \/ UpdateFunc(old, new)

(* The CRs woken when the resources become as in new.                      *)
Woken(new) ==
    {Owner[r] : r \in {r \in Resources :
        /\ new[r] # live[r]
        /\ Found(r) \in inEffect
        /\ DependentPredicate(live[r], new[r])}}

Good == [spec |-> "chart", status |-> 0]

-----------------------------------------------------------------------------
Init ==
    /\ spec \in {s \in [CRs -> UNION {Charts[cr] : cr \in CRs}] :
                    \A cr \in CRs : s[cr] \in Charts[cr]}
    /\ rel = [cr \in CRs |-> Nil] /\ reported = [cr \in CRs |-> Nil]
    /\ live = [r \in Resources |-> Nil]
    /\ queue = CRs
    /\ pc = [cr \in CRs |-> "idle"] /\ todo = [cr \in CRs |-> <<>>]
    /\ mutex = Nil /\ watches = {} /\ inEffect = {}
    /\ started = [w \in Kinds \X Handlers |-> 0]
    /\ missed = {} /\ period \in BOOLEAN
    /\ edits = 0 /\ faults = 0

Edit == edits < MaxEdits /\ edits' = edits + 1
Fault == faults < MaxFaults /\ faults' = faults + 1

GoTo(cr, step) == pc' = [pc EXCEPT ![cr] = step]

(* A user changes a CR; the watch on CRs has no predicate.                 *)
EditSpec(cr) ==
    /\ Edit
    /\ \E m \in Charts[cr] \ {spec[cr]} : spec' = [spec EXCEPT ![cr] = m]
    /\ queue' = queue \cup {cr}
    /\ UNCHANGED <<rel, reported, live, pc, todo, hook, inEffect, missed,
                   period, faults>>

(* A user changes or deletes a resource.                                   *)
Tamper(r) ==
    /\ Edit
    /\ live[r] # Nil
    /\ \E bad \in {Nil, [live[r] EXCEPT !.spec = "other"]} :
          /\ bad # live[r]
          /\ live' = [live EXCEPT ![r] = bad]
    /\ queue' = queue \cup Woken(live')
    /\ missed' = IF Found(r) \in inEffect THEN missed ELSE missed \cup {r}
    /\ UNCHANGED <<spec, rel, reported, pc, todo, hook, inEffect, period,
                   faults>>

(* Some controller writes the status of a resource, as often as it likes.  *)
StatusChanges(r) ==
    /\ r \in Reporting /\ live[r] # Nil
    /\ live' = [live EXCEPT ![r].status = 1 - @]
    /\ queue' = queue \cup Woken(live')
    /\ UNCHANGED <<spec, rel, reported, pc, todo, hook, inEffect, missed,
                   period, edits, faults>>

(* A watch comes into effect; it reports nothing of what is there already. *)
Sync(w) ==
    /\ started[w] > 0 /\ w \notin inEffect
    /\ inEffect' = inEffect \cup {w}
    /\ UNCHANGED <<spec, rel, reported, live, queue, pc, todo, hook, missed,
                   period, edits, faults>>

-----------------------------------------------------------------------------
(* The worker of a CR                                                      *)

Take(cr) ==
    /\ pc[cr] = "idle" /\ cr \in queue
    /\ queue' = queue \ {cr}
    /\ GoTo(cr, "release")
    /\ UNCHANGED <<spec, rel, reported, live, todo, hook, inEffect, missed,
                   period, edits, faults>>

(* Install, upgrade or reconcile: the resources of the manifest become as  *)
(* they should be, those that it has no longer go unless they are kept.    *)
Release(cr) ==
    /\ pc[cr] = "release"
    /\ LET old == IF rel[cr] = Nil THEN {} ELSE Rendered(rel[cr])
           new == Rendered(spec[cr])
           repaired(r) == IF live[r] = Nil THEN Good
                          ELSE [live[r] EXCEPT !.spec = "chart"]
       IN  live' = [r \in Resources |->
                       CASE r \in new -> repaired(r)
                         [] r \in (old \ new) \ Kept -> Nil
                         [] OTHER -> live[r]]
    /\ rel' = [rel EXCEPT ![cr] = PostRender(spec[cr])]
    /\ missed' = {r \in missed : Owner[r] # cr}
    /\ queue' = queue \cup Woken(live')
    /\ GoTo(cr, "lock")
    /\ UNCHANGED <<spec, reported, todo, hook, inEffect, period, edits,
                   faults>>

(* It fails, and is tried again.                                           *)
ReleaseFails(cr) ==
    /\ pc[cr] = "release"
    /\ Fault
    /\ queue' = queue \cup {cr}
    /\ GoTo(cr, "idle")
    /\ UNCHANGED <<spec, rel, reported, live, todo, hook, inEffect, missed,
                   period, edits>>

(* SplitManifests returns a Go map, which is gone through in any order.    *)
Orders(manifest) ==
    LET docs == DOMAIN manifest
    IN  {[i \in docs |-> manifest[p[i]]] : p \in Surjection(docs, docs)}

(* Mutant: the mutex is not waited for.                                    *)
LockAnyway(cr) ==
    /\ pc[cr] = "lock"
    /\ mutex' = cr
    /\ \E docs \in Orders(rel[cr]) : todo' = [todo EXCEPT ![cr] = docs]
    /\ GoTo(cr, "visit")
    /\ UNCHANGED <<spec, rel, reported, live, queue, watches, started,
                   inEffect, missed, period, edits, faults>>

Lock(cr) ==
    /\ pc[cr] = "lock"
    /\ mutex = Nil
    /\ mutex' = cr
    /\ \E docs \in Orders(rel[cr]) : todo' = [todo EXCEPT ![cr] = docs]
    /\ GoTo(cr, "visit")
    /\ UNCHANGED <<spec, rel, reported, live, queue, watches, started,
                   inEffect, missed, period, edits, faults>>

(* The first resource that is still to be visited, and the rest.           *)
Next1(docs) == Head(Head(docs).items)
Rest(docs) ==
    LET items == Tail(Head(docs).items)
    IN  IF items = <<>> THEN Tail(docs)
        ELSE <<[list |-> Head(docs).list, items |-> items]>> \o Tail(docs)

(* Is the kind of the next resource watched already?                       *)
Visit(cr) ==
    /\ pc[cr] = "visit" /\ todo[cr] # <<>>
    /\ IF Kind[Next1(todo[cr])] \in watches
       THEN todo' = [todo EXCEPT ![cr] = Rest(@)] /\ UNCHANGED pc
       ELSE GoTo(cr, "watch") /\ UNCHANGED todo
    /\ UNCHANGED <<spec, rel, reported, live, queue, hook, inEffect, missed,
                   period, edits, faults>>

(* It is not: a watch is started, and the kind of the document recorded.   *)
Watch(cr) ==
    /\ pc[cr] = "watch"
    /\ LET doc == Head(todo[cr])
           r == Next1(todo[cr])
           w == <<Kind[r], Handler(cr, r)>>
       IN  /\ started' = [started EXCEPT ![w] = IF @ < MaxWatches THEN @ + 1 ELSE @]
           /\ watches' = watches \cup {IF doc.list THEN List ELSE Kind[r]}
    /\ todo' = [todo EXCEPT ![cr] = Rest(@)]
    /\ GoTo(cr, "visit")
    /\ UNCHANGED <<spec, rel, reported, live, queue, mutex, inEffect, missed,
                   period, edits, faults>>

(* Mutant: the mutex is kept when a watch fails.                           *)
WatchFailsLocked(cr) ==
    /\ pc[cr] = "watch"
    /\ Fault
    /\ todo' = [todo EXCEPT ![cr] = <<>>]
    /\ GoTo(cr, "report")
    /\ UNCHANGED <<spec, rel, reported, live, queue, hook, inEffect, missed,
                   period, edits>>

(* Its failure ends the hook, but is only logged.                          *)
WatchFails(cr) ==
    /\ pc[cr] = "watch"
    /\ Fault
    /\ mutex' = Nil
    /\ todo' = [todo EXCEPT ![cr] = <<>>]
    /\ GoTo(cr, "report")
    /\ UNCHANGED <<spec, rel, reported, live, queue, watches, started,
                   inEffect, missed, period, edits>>

Unlock(cr) ==
    /\ pc[cr] = "visit" /\ todo[cr] = <<>>
    /\ mutex' = Nil
    /\ GoTo(cr, "report")
    /\ UNCHANGED <<spec, rel, reported, live, queue, todo, watches, started,
                   inEffect, missed, period, edits, faults>>

(* The status is written if it changes, which is an event of the CR; if    *)
(* that fails the CR is tried again.                                       *)
Report(cr) ==
    /\ pc[cr] = "report"
    /\ \/ /\ reported' = [reported EXCEPT ![cr] = rel[cr]]
          /\ queue' = IF reported[cr] = rel[cr] THEN queue ELSE queue \cup {cr}
          /\ UNCHANGED faults
       \/ /\ reported[cr] # rel[cr]
          /\ Fault
          /\ queue' = queue \cup {cr}
          /\ UNCHANGED reported
    /\ GoTo(cr, "idle")
    /\ UNCHANGED <<spec, rel, live, todo, hook, inEffect, missed, period,
                   edits>>

(* Mutant: the result of a reconciliation does not ask for the next one.   *)
ElapseNever(cr) == FALSE

(* With a reconcile period a CR that was served comes up again.  A timer   *)
(* left from before the last pass may fire earlier, to the same end.       *)
Elapse(cr) ==
    /\ period
    /\ pc[cr] = "idle" /\ cr \notin queue
    /\ queue' = queue \cup {cr}
    /\ UNCHANGED <<spec, rel, reported, live, pc, todo, hook, inEffect, missed,
                   period, edits, faults>>

(* A new process has no watches and finds every CR.                        *)
Restart ==
    /\ Fault
    /\ queue' = CRs
    /\ pc' = [cr \in CRs |-> "idle"] /\ todo' = [cr \in CRs |-> <<>>]
    /\ mutex' = Nil /\ watches' = {} /\ inEffect' = {}
    /\ started' = [w \in Kinds \X Handlers |-> 0]
    /\ UNCHANGED <<spec, rel, reported, live, missed, period, edits>>

Reconcile(cr) ==
    \/ Take(cr) \/ Release(cr) \/ ReleaseFails(cr) \/ Lock(cr) \/ Visit(cr)
    \/ Watch(cr) \/ WatchFails(cr) \/ Unlock(cr) \/ Report(cr)

Next ==
    \/ \E cr \in CRs : EditSpec(cr) \/ Reconcile(cr) \/ Elapse(cr)
    \/ \E r \in Resources : Tamper(r) \/ StatusChanges(r)
    \/ \E w \in Kinds \X Handlers : Sync(w)
    \/ Restart

Spec == Init /\ [][Next]_vars

(* Workers go on and get the mutex in turn; watches come into effect and   *)
(* timers fire.                                                            *)
FairSpec ==
    /\ Spec
    /\ \A cr \in CRs :
          WF_vars(Reconcile(cr)) /\ SF_vars(Lock(cr)) /\ WF_vars(Elapse(cr))
    /\ \A w \in Kinds \X Handlers : WF_vars(Sync(w))

-----------------------------------------------------------------------------
TypeOK ==
    /\ \A cr \in CRs :
          /\ spec[cr] \in Charts[cr]
          /\ rel[cr] = Nil \/ \E m \in Charts[cr] : rel[cr] = PostRender(m)
    /\ \A r \in Resources :
          live[r] = Nil \/ live[r] \in [spec : {"chart", "other"}, status : 0..1]
    /\ queue \subseteq CRs
    /\ watches \subseteq Kinds \cup {List}
    /\ \A w \in inEffect : started[w] > 0
    /\ \A cr \in CRs : mutex = cr <=> pc[cr] \in {"visit", "watch"}

(* However the workers of several CRs meet in the hook, a kind is watched  *)
(* once: each further watch would be another event handler for good.       *)
WatchedOnce ==
    \A k \in Kinds : started[<<k, "ownerRef">>] + started[<<k, "annotation">>] <= 1

Covered(cr, resources) ==
    \A r \in resources : started[<<Kind[r], Mark(cr, r)>>] > 0

HookEnds(cr) == pc[cr] = "visit" /\ pc'[cr] = "report"

(* A hook that ends without an error leaves every resource of the release  *)
(* with a watch whose handler finds the mark the post-renderer gave it.    *)
HookCovers ==
    [][\A cr \in CRs : HookEnds(cr) => Covered(cr, Rendered(rel[cr]))]_vars

(* hook_test.go: kept resources are watched with the annotation handler.   *)
KeptAreCovered ==
    [][\A cr \in CRs : HookEnds(cr) => Covered(cr, Rendered(rel[cr]) \cap Kept)]_vars

Managed(r) == rel[Owner[r]] # Nil /\ r \in Rendered(rel[Owner[r]])
AsInChart(r) == live[r] # Nil /\ live[r].spec = "chart"

(* What is changed or deleted of a release is put right at last: if the    *)
(* watch on it is in effect by its event, and if not, as a watch reports   *)
(* nothing of what was there before it, by the reconcile period.           *)
DriftIsRepaired ==
    <>[](\A r \in Resources : (period \/ r \notin missed) /\ Managed(r) => AsInChart(r))

(* Without a period the operator comes to rest: neither its own writes nor *)
(* the controllers that write statuses keep it busy for ever.              *)
ComesToRest ==
    ~period => <>[](queue = {} /\ \A cr \in CRs : pc[cr] = "idle")
=============================================================================
