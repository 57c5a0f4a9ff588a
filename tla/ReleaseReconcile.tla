-------------------------- MODULE ReleaseReconcile --------------------------
(***************************************************************************)
(* Realigning the objects of a release with its manifest                   *)
(* (pkg/client/actionclient.go, Reconcile and createPatch), while users    *)
(* change, remove and re-create the objects between any two of its         *)
(* requests.  Custom resources are patched with a JSON patch, objects of   *)
(* built-in types with a strategic merge patch.                            *)
(*                                                                         *)
(* An object is seen as a map of fields: what patches do to lists is the   *)
(* business of the libraries that compute them.                            *)
(***************************************************************************)
EXTENDS Naturals

CONSTANTS
    N,              \* the number of objects in the manifest, in its order
    Typed,          \* those of built-in types
    Fields, Values, \* of objects
    Absent,         \* what a field is that the object, or the chart, lacks
    Null,           \* what the chart may say of a field, and no object keeps
    Expected,       \* the object that the manifest gives at each place
    Immutable,      \* the fields that the API server lets nobody change
    Gone,           \* what an object is that does not exist
    Nil,
    MaxEdits,       \* bound: what users do
    MaxFaults       \* bound: failing requests

Objects   == [Fields -> Values \cup {Absent}]
Places    == 1..N

ASSUME ReleaseAssumption ==
    /\ N \in Nat /\ Typed \subseteq Places
    /\ Expected \in [Places -> [Fields -> Values \cup {Absent, Null}]]
    /\ Immutable \subseteq Places \X Fields
    /\ Null \notin Values \cup {Absent} /\ Absent \notin Values
    /\ Gone \notin Objects /\ Nil \notin Objects \cup {Gone}
    /\ MaxEdits \in Nat /\ MaxFaults \in Nat

VARIABLES
    objects,        \* as the API server has them
    at,             \* the place that is being visited; 0 between visits
    seen,           \* the object that Get returned there, Gone, or Nil
    due,            \* a request is in the controller's queue, or to be retried
    edits, faults

vars == <<objects, at, seen, due, edits, faults>>

-----------------------------------------------------------------------------
(* Patches, as the set of the fields they set to what the chart says       *)

Stored(value) == IF value = Null THEN Absent ELSE value

(* Mutant: what the chart does not have is removed.                        *)
KeepRemoves(i, existing) == {f \in Fields : existing[f] # Expected[i][f]}

(* Without "remove", and without "add" of null.                            *)
createJSONMergePatch(i, existing) ==
    {f \in Fields : /\ existing[f] # Expected[i][f]
                    /\ Expected[i][f] # Absent
                    /\ existing[f] = Absent => Expected[i][f] # Null}

createPatch(i, existing) ==
    IF i \in Typed
    THEN {f \in Fields : Expected[i][f] \notin {Absent, existing[f]}}
    ELSE createJSONMergePatch(i, existing)

Patched(i, object, patch) ==
    [f \in Fields |-> IF f \in patch THEN Stored(Expected[i][f]) ELSE object[f]]

(* A JSON patch replaces only what is still there.                         *)
Applies(i, object, patch) ==
    i \in Typed \/ \A f \in patch : object[f] = Absent => seen[f] = Absent

Changed(object, new) == {f \in Fields : object[f] # new[f]}

Accepted(i, new) ==
    \A f \in Changed(objects[i], new) : <<i, f>> \notin Immutable

-----------------------------------------------------------------------------
Init ==
    /\ objects = [i \in Places |-> [f \in Fields |-> Stored(Expected[i][f])]]
    /\ at = 0 /\ seen = Nil /\ due = FALSE
    /\ edits = 0 /\ faults = 0

Edit == edits < MaxEdits /\ edits' = edits + 1
Fault == faults < MaxFaults /\ faults' = faults + 1

(* Users and other controllers.  The watch on dependents reports updates   *)
(* and deletions, and no creations (pkg/internal/predicate/predicates.go). *)
Change(i) ==
    /\ Edit
    /\ objects[i] # Gone
    /\ \E f \in Fields, value \in Values \cup {Absent} :
          /\ <<i, f>> \notin Immutable /\ objects[i][f] # value
          /\ objects' = [objects EXCEPT ![i][f] = value]
    /\ due' = TRUE
    /\ UNCHANGED <<at, seen, faults>>

Remove(i) ==
    /\ Edit
    /\ objects[i] # Gone
    /\ objects' = [objects EXCEPT ![i] = Gone]
    /\ due' = TRUE
    /\ UNCHANGED <<at, seen, faults>>

ReCreate(i) ==
    /\ Edit
    /\ objects[i] = Gone
    /\ \E object \in Objects : objects' = [objects EXCEPT ![i] = object]
    /\ UNCHANGED <<at, seen, due, faults>>

-----------------------------------------------------------------------------
(* The visit of a reconciliation                                           *)

(* Mutant: an error at one object does not keep the visit from going on,   *)
(* and is forgotten.                                                       *)
ErrorForgotten ==
    /\ at' = IF at = N THEN 0 ELSE at + 1
    /\ seen' = Nil
    /\ UNCHANGED due

(* The first error ends the visit, and the request is retried.             *)
Error == at' = 0 /\ seen' = Nil /\ due' = TRUE

(* Mutant: the visit does not end with the last object.                    *)
PastTheEnd == at' = at + 1 /\ seen' = Nil

Proceed == at' = (IF at = N THEN 0 ELSE at + 1) /\ seen' = Nil

Start ==
    /\ due /\ at = 0
    /\ due' = FALSE
    /\ at' = IF N = 0 THEN 0 ELSE 1
    /\ UNCHANGED <<objects, seen, edits, faults>>

Get ==
    /\ at # 0 /\ seen = Nil
    /\ seen' = objects[at]
    /\ UNCHANGED <<objects, at, due, edits, faults>>

(* Mutant: an object that is there already needs nothing.                  *)
ExistsIsDone ==
    /\ at # 0 /\ seen = Gone
    /\ objects' = [objects EXCEPT ![at] =
          IF @ = Gone THEN [f \in Fields |-> Stored(Expected[at][f])] ELSE @]
    /\ Proceed
    /\ UNCHANGED <<due, edits, faults>>

Create ==
    /\ at # 0 /\ seen = Gone
    /\ IF objects[at] = Gone
       THEN /\ objects' = [objects EXCEPT ![at] =
                  [f \in Fields |-> Stored(Expected[at][f])]]
            /\ Proceed
            /\ UNCHANGED due
       ELSE UNCHANGED objects /\ Error
    /\ UNCHANGED <<edits, faults>>

(* An update, our own as well, is reported if it changes anything.         *)
Patch ==
    /\ at # 0 /\ seen \notin {Nil, Gone}
    /\ LET patch == createPatch(at, seen)
           new   == Patched(at, objects[at], patch)
       IN  IF patch = {}
           THEN Proceed /\ UNCHANGED <<objects, due>>
           ELSE IF objects[at] # Gone /\ Applies(at, objects[at], patch) /\ Accepted(at, new)
           THEN /\ objects' = [objects EXCEPT ![at] = new]
                /\ due' = (due \/ new # objects[at])
                /\ Proceed
           ELSE UNCHANGED objects /\ Error
    /\ UNCHANGED <<edits, faults>>

(* A request fails; or the process dies, and the next one, which lists all *)
(* custom resources, reconciles this one.                                  *)
Fail ==
    /\ at # 0
    /\ Fault
    /\ Error
    /\ UNCHANGED <<objects, edits>>

Visit == Start \/ Get \/ Create \/ Patch

Next ==
    \/ \E i \in Places : Change(i) \/ Remove(i) \/ ReCreate(i)
    \/ Start \/ Get \/ Create \/ Patch \/ Fail

Spec == Init /\ [][Next]_vars

(* The queue is served and the API server answers; users have no fairness. *)
FairSpec == Spec /\ WF_vars(Visit)

-----------------------------------------------------------------------------
(* Properties                                                              *)

Aligned(i) ==
    /\ objects[i] # Gone
    /\ \A f \in Fields :
          Expected[i][f] # Absent => objects[i][f] = Stored(Expected[i][f])

(* The API server refuses every patch that could align the object.         *)
Stuck(i) ==
    /\ objects[i] # Gone
    /\ \E f \in Fields : /\ <<i, f>> \in Immutable /\ Expected[i][f] # Absent
                         /\ objects[i][f] # Stored(Expected[i][f])

TypeOK ==
    /\ objects \in [Places -> Objects \cup {Gone}]
    /\ at \in 0..N
    /\ seen \in Objects \cup {Gone, Nil}
    /\ at = 0 => seen = Nil
    /\ due \in BOOLEAN
    /\ edits \in 0..MaxEdits /\ faults \in 0..MaxFaults

(* No request is left over only if every object is as the chart says: no   *)
(* change is missed, whenever it comes, though creations are not reported  *)
(* and the visit acts on what it read before.                              *)
AtRestAligned == at = 0 /\ ~due => \A i \in Places : Aligned(i)

(* Why it holds.  Before and during a visit, what was visited is aligned,  *)
(* and what was read is still so, unless a request is due.                 *)
VisitedAligned ==
    due \/ \A i \in Places : at = 0 \/ i < at => Aligned(i)

SeenIsCurrent ==
    due \/ seen \in {Nil, Gone} \/ objects[at] = seen

IInv == TypeOK /\ VisitedAligned /\ SeenIsCurrent

(* A visit never takes a field from an object, nor gives it another value, *)
(* unless the chart says so: fields of users and of the API server stay.   *)
OnlyTowardsTheChart ==
    [][edits' = edits => \A i \in Places : objects[i] # Gone =>
          /\ objects'[i] # Gone
          /\ \A f \in Changed(objects[i], objects'[i]) :
                /\ Expected[i][f] # Absent
                /\ objects'[i][f] = Stored(Expected[i][f])]_vars

(* Once users are quiet, all objects before the first one that cannot be   *)
(* patched are aligned; if there is none, visits end and none is due.  The *)
(* objects after it are not reached.                                       *)
Realigned ==
    <>[](/\ \A i \in Places : (\A j \in 1..i : ~Stuck(j)) => Aligned(i)
         /\ (\A i \in Places : ~Stuck(i)) => at = 0 /\ ~due)
=============================================================================
