---------------------- MODULE ReleaseReconcile_proofs ----------------------
(***************************************************************************)
(* Theorems about module ReleaseReconcile, for every manifest, every set   *)
(* of immutable fields and any number of edits and faults.                 *)
(***************************************************************************)
EXTENDS ReleaseReconcile, TLAPS

-----------------------------------------------------------------------------
(* Lemmas about patches                                                    *)

(* What objects keep of a field that the chart mentions.                   *)
LEMMA StoredType ==
    ASSUME NEW i \in Places, NEW f \in Fields
    PROVE  Stored(Expected[i][f]) \in Values \cup {Absent}
BY ReleaseAssumption DEF Stored

(* What the chart makes of an object is an object.                         *)
LEMMA PatchedType ==
    ASSUME NEW i \in Places, NEW object \in Objects, NEW patch
    PROVE  Patched(i, object, patch) \in Objects
<1>1. ASSUME NEW f \in Fields
      PROVE  (IF f \in patch THEN Stored(Expected[i][f]) ELSE object[f])
                \in Values \cup {Absent}
  BY <1>1, StoredType DEF Objects
<1> QED
  BY <1>1 DEF Patched, Objects

LEMMA CreatedType ==
    ASSUME NEW i \in Places
    PROVE  [f \in Fields |-> Stored(Expected[i][f])] \in Objects
BY StoredType DEF Objects

LEMMA Bounds == N \in Nat /\ MaxEdits \in Nat /\ MaxFaults \in Nat
BY ReleaseAssumption

LEMMA NoObject == Gone \notin Objects /\ Nil \notin Objects /\ Nil # Gone
BY ReleaseAssumption

(* A patch holds only fields that the chart has.                           *)
LEMMA PatchIsManaged ==
    ASSUME NEW i \in Places, NEW existing,
           NEW f \in createPatch(i, existing)
    PROVE  f \in Fields /\ Expected[i][f] # Absent
<1>1. CASE i \in Typed
  BY <1>1 DEF createPatch
<1>2. CASE i \notin Typed
  BY <1>2 DEF createPatch, createJSONMergePatch
<1> QED
  BY <1>1, <1>2

(* Applied to the object it was made for, a patch aligns it.               *)
LEMMA PatchAligns ==
    ASSUME NEW i \in Places, NEW existing \in Objects, NEW f \in Fields,
           Expected[i][f] # Absent
    PROVE  Patched(i, existing, createPatch(i, existing))[f] = Stored(Expected[i][f])
<1>1. CASE f \in createPatch(i, existing)
  BY <1>1 DEF Patched
<1>2. CASE f \notin createPatch(i, existing)
  <2>1. existing[f] # Null
    BY ReleaseAssumption DEF Objects
  <2>2. existing[f] = Stored(Expected[i][f])
    <3>1. CASE i \in Typed
      BY <1>2, <2>1, <3>1 DEF createPatch, Stored
    <3>2. CASE i \notin Typed
      BY <1>2, <2>1, <3>2 DEF createPatch, createJSONMergePatch, Stored
    <3> QED
      BY <3>1, <3>2
  <2> QED
    BY <1>2, <2>2 DEF Patched
<1> QED
  BY <1>1, <1>2

-----------------------------------------------------------------------------
(* The inductive invariant                                                 *)

LEMMA InitIInv == Init => IInv
<1> SUFFICES ASSUME Init PROVE IInv
  OBVIOUS
<1>1. TypeOK
  <2>1. objects \in [Places -> Objects \cup {Gone}]
    BY CreatedType DEF Init
  <2>2. at \in 0..N /\ edits \in 0..MaxEdits /\ faults \in 0..MaxFaults
    BY Bounds DEF Init
  <2>3. seen \in Objects \cup {Gone, Nil} /\ due \in BOOLEAN
    BY Zenon DEF Init
  <2>4. at = 0 => seen = Nil
    BY DEF Init
  <2> QED
    BY <2>1, <2>2, <2>3, <2>4 DEF TypeOK
<1>2. \A i \in Places : Aligned(i)
  BY CreatedType, NoObject DEF Init, Aligned
<1> QED
  BY <1>1, <1>2 DEF Init, IInv, VisitedAligned, SeenIsCurrent

(* After a step that leaves a request due, only types matter.              *)
LEMMA DueSuffices ==
    ASSUME TypeOK', due'
    PROVE  IInv'
BY DEF IInv, VisitedAligned, SeenIsCurrent

(* A step that changes nothing but the object at one place.                *)
LEMMA ObjectType ==
    ASSUME TypeOK, NEW i \in Places, NEW object \in Objects \cup {Gone}
    PROVE  [objects EXCEPT ![i] = object] \in [Places -> Objects \cup {Gone}]
BY DEF TypeOK

LEMMA ChangeIInv ==
    ASSUME IInv, NEW i \in Places, Change(i)
    PROVE  IInv'
<1>1. PICK f \in Fields, value \in Values \cup {Absent} :
          objects' = [objects EXCEPT ![i][f] = value]
  BY DEF Change
<1>2. objects[i] \in Objects
  BY DEF Change, IInv, TypeOK
<1>3. [objects[i] EXCEPT ![f] = value] \in Objects
  BY <1>2 DEF Objects
<1>4. objects' \in [Places -> Objects \cup {Gone}]
  BY <1>1, <1>3 DEF IInv, TypeOK
<1>5. TypeOK'
  BY <1>4, ReleaseAssumption DEF Change, Edit, IInv, TypeOK
<1> QED
  BY <1>5, DueSuffices DEF Change

LEMMA RemoveIInv ==
    ASSUME IInv, NEW i \in Places, Remove(i)
    PROVE  IInv'
<1>1. objects' \in [Places -> Objects \cup {Gone}]
  BY ObjectType DEF Remove, IInv
<1>2. TypeOK'
  BY <1>1, ReleaseAssumption DEF Remove, Edit, IInv, TypeOK
<1> QED
  BY <1>2, DueSuffices DEF Remove

(* An object that is gone, and was visited, is not aligned: one is due.    *)
LEMMA ReCreateIInv ==
    ASSUME IInv, NEW i \in Places, ReCreate(i)
    PROVE  IInv'
<1>1. PICK object \in Objects : objects' = [objects EXCEPT ![i] = object]
  BY DEF ReCreate
<1>2. objects' \in [Places -> Objects \cup {Gone}]
  BY <1>1, ObjectType DEF IInv
<1>3. TypeOK'
  BY <1>2, ReleaseAssumption DEF ReCreate, Edit, IInv, TypeOK
<1>4. VisitedAligned'
  <2> SUFFICES ASSUME ~due, NEW j \in Places, at = 0 \/ j < at
               PROVE  Aligned(j)'
    BY DEF ReCreate, VisitedAligned
  <2>1. Aligned(j)
    BY DEF IInv, VisitedAligned
  <2>2. j # i
    BY <2>1 DEF Aligned, ReCreate
  <2>3. objects'[j] = objects[j]
    BY <1>1, <2>2 DEF IInv, TypeOK
  <2> QED
    BY <2>1, <2>3 DEF Aligned
<1>5. SeenIsCurrent'
  <2> SUFFICES ASSUME ~due, seen \notin {Nil, Gone}
               PROVE  objects'[at] = seen
    BY DEF ReCreate, SeenIsCurrent
  <2>1. objects[at] = seen
    BY DEF IInv, SeenIsCurrent
  <2>2. at \in Places
    BY ReleaseAssumption DEF IInv, TypeOK, Places
  <2>3. at # i
    BY <2>1 DEF ReCreate
  <2> QED
    BY <1>1, <2>1, <2>2, <2>3 DEF IInv, TypeOK
<1> QED
  BY <1>3, <1>4, <1>5 DEF IInv

-----------------------------------------------------------------------------
(* The steps of a visit                                                    *)

LEMMA AtIsPlace ==
    ASSUME TypeOK, at # 0
    PROVE  /\ at \in Places
           /\ (IF at = N THEN 0 ELSE at + 1) \in 0..N
BY ReleaseAssumption DEF TypeOK, Places

(* Going on to the next place is right where this one has been aligned.    *)
LEMMA ProceedIInv ==
    ASSUME IInv, at # 0, Proceed, TypeOK', due => due',
           \A j \in Places : j # at => objects'[j] = objects[j],
           \A j \in Places : j = at => due' \/ Aligned(j)'
    PROVE  IInv'
<1>1. VisitedAligned'
  <2> SUFFICES ASSUME ~due', NEW j \in Places, at' = 0 \/ j < at'
               PROVE  Aligned(j)'
    BY DEF VisitedAligned
  <2>1. CASE j = at
    BY <2>1
  <2>2. CASE j # at
    <3>1. j < at
      BY <2>2, AtIsPlace, ReleaseAssumption DEF Proceed, IInv, Places
    <3>2. Aligned(j)
      BY <3>1 DEF IInv, VisitedAligned
    <3> QED
      BY <2>2, <3>2 DEF Aligned
  <2> QED
    BY <2>1, <2>2
<1>2. SeenIsCurrent'
  BY DEF Proceed, SeenIsCurrent
<1> QED
  BY <1>1, <1>2 DEF IInv

LEMMA ErrorIInv ==
    ASSUME IInv, Error, UNCHANGED <<objects, edits>>, faults' \in 0..MaxFaults
    PROVE  IInv'
<1>1. TypeOK'
  BY ReleaseAssumption DEF Error, IInv, TypeOK
<1> QED
  BY <1>1, DueSuffices DEF Error

LEMMA StartIInv ==
    ASSUME IInv, Start
    PROVE  IInv'
<1>1. TypeOK'
  <2>1. at' \in 0..N
    BY Bounds DEF Start
  <2>2. due' \in BOOLEAN
    BY Zenon DEF Start
  <2> QED
    BY <2>1, <2>2 DEF Start, IInv, TypeOK
<1>2. VisitedAligned'
  <2> SUFFICES ASSUME NEW j \in Places, at' = 0 \/ j < at'
               PROVE  FALSE
    BY DEF VisitedAligned
  <2> QED
    BY ReleaseAssumption DEF Start, Places
<1>3. SeenIsCurrent'
  BY DEF Start, SeenIsCurrent, IInv, TypeOK
<1> QED
  BY <1>1, <1>2, <1>3 DEF IInv

LEMMA GetIInv ==
    ASSUME IInv, Get
    PROVE  IInv'
<1>1. at \in Places
  BY AtIsPlace DEF Get, IInv
<1>2. TypeOK'
  BY <1>1 DEF Get, IInv, TypeOK
<1>3. VisitedAligned'
  BY DEF Get, IInv, VisitedAligned, Aligned
<1>4. SeenIsCurrent'
  BY DEF Get, SeenIsCurrent
<1> QED
  BY <1>2, <1>3, <1>4 DEF IInv

LEMMA CreateIInv ==
    ASSUME IInv, Create
    PROVE  IInv'
<1> DEFINE new == [f \in Fields |-> Stored(Expected[at][f])]
<1>1. at \in Places /\ (IF at = N THEN 0 ELSE at + 1) \in 0..N
  BY AtIsPlace DEF Create, IInv
<1>2. CASE objects[at] = Gone
  <2>1. objects' = [objects EXCEPT ![at] = new] /\ Proceed /\ UNCHANGED <<due, edits, faults>>
    BY <1>2 DEF Create
  <2>2. new \in Objects
    BY <1>1, CreatedType
  <2>3. objects' \in [Places -> Objects \cup {Gone}] /\ objects'[at] = new
    BY <1>1, <2>1, <2>2 DEF IInv, TypeOK
  <2>4. TypeOK'
    BY <1>1, <2>1, <2>3 DEF Proceed, IInv, TypeOK
  <2>5. ASSUME NEW j \in Places, j = at
        PROVE  Aligned(j)'
    BY <2>2, <2>3, <2>5, NoObject DEF Aligned
  <2>6. \A j \in Places : j # at => objects'[j] = objects[j]
    BY <2>1 DEF IInv, TypeOK
  <2> QED
    BY <2>1, <2>4, <2>5, <2>6, ProceedIInv DEF Create
<1>3. CASE objects[at] # Gone
  BY <1>3, ErrorIInv DEF Create, IInv, TypeOK
<1> QED
  BY <1>2, <1>3

LEMMA PatchIInv ==
    ASSUME IInv, Patch
    PROVE  IInv'
<1> DEFINE patch == createPatch(at, seen)
           new   == Patched(at, objects[at], patch)
<1>1. at \in Places /\ (IF at = N THEN 0 ELSE at + 1) \in 0..N
  BY AtIsPlace DEF Patch, IInv
<1>2. seen \in Objects /\ (due \/ objects[at] = seen)
  BY DEF Patch, IInv, TypeOK, SeenIsCurrent
<1>3. CASE patch = {}
  <2>1. Proceed /\ UNCHANGED <<objects, due, edits, faults>>
    BY <1>3 DEF Patch
  <2>2. TypeOK'
    BY <1>1, <2>1 DEF Proceed, IInv, TypeOK
  <2>3. ASSUME ~due
        PROVE  Aligned(at)
    <3>1. objects[at] = seen /\ objects[at] # Gone
      BY <1>2, <2>3, NoObject
    <3>2. \A f \in Fields : Patched(at, seen, {})[f] = seen[f]
      BY DEF Patched
    <3> QED
      BY <1>1, <1>2, <1>3, <3>1, <3>2, PatchAligns DEF Aligned
  <2>4. \A j \in Places : j = at => due' \/ Aligned(j)'
    BY <2>1, <2>3 DEF Aligned
  <2> QED
    BY <2>1, <2>2, <2>4, ProceedIInv DEF Patch
<1>4. CASE /\ patch # {}
           /\ objects[at] # Gone /\ Applies(at, objects[at], patch) /\ Accepted(at, new)
  <2>1. /\ objects' = [objects EXCEPT ![at] = new] /\ due' = (due \/ new # objects[at])
        /\ Proceed /\ UNCHANGED <<edits, faults>>
    BY <1>4 DEF Patch
  <2>2. new \in Objects
    BY <1>1, <1>4, PatchedType DEF IInv, TypeOK
  <2>3. objects' \in [Places -> Objects \cup {Gone}] /\ objects'[at] = new
    BY <1>1, <2>1, <2>2 DEF IInv, TypeOK
  <2>4. TypeOK'
    BY <1>1, <2>1, <2>3 DEF Proceed, IInv, TypeOK
  <2>5. ASSUME NEW j \in Places, j = at, ~due'
        PROVE  Aligned(j)'
    <3>1. objects[at] = seen
      BY <1>2, <2>1, <2>5
    <3>2. \A f \in Fields : Expected[at][f] # Absent => new[f] = Stored(Expected[at][f])
      BY <1>1, <1>2, <3>1, PatchAligns
    <3> HIDE DEF new
    <3> QED
      BY <2>2, <2>3, <2>5, <3>2, NoObject DEF Aligned
  <2>6. \A j \in Places : j # at => objects'[j] = objects[j]
    BY <2>1 DEF IInv, TypeOK
  <2> QED
    BY <2>1, <2>4, <2>5, <2>6, ProceedIInv DEF Patch
<1>5. CASE /\ patch # {}
           /\ ~(objects[at] # Gone /\ Applies(at, objects[at], patch) /\ Accepted(at, new))
  BY <1>5, ErrorIInv DEF Patch, IInv, TypeOK
<1> QED
  BY <1>3, <1>4, <1>5

LEMMA FailIInv ==
    ASSUME IInv, Fail
    PROVE  IInv'
BY ErrorIInv, ReleaseAssumption DEF Fail, Fault, IInv, TypeOK

LEMMA NextIInv == IInv /\ [Next]_vars => IInv'
<1> SUFFICES ASSUME IInv, [Next]_vars
             PROVE  IInv'
  OBVIOUS
<1>1. CASE \E i \in Places : Change(i) \/ Remove(i) \/ ReCreate(i)
  BY <1>1, ChangeIInv, RemoveIInv, ReCreateIInv
<1>2. CASE Start
  BY <1>2, StartIInv
<1>3. CASE Get
  BY <1>3, GetIInv
<1>4. CASE Create
  BY <1>4, CreateIInv
<1>5. CASE Patch
  BY <1>5, PatchIInv
<1>6. CASE Fail
  BY <1>6, FailIInv
<1>7. CASE UNCHANGED vars
  BY <1>7 DEF vars, IInv, TypeOK, VisitedAligned, SeenIsCurrent, Aligned
<1> QED
  BY <1>1, <1>2, <1>3, <1>4, <1>5, <1>6, <1>7 DEF Next

LEMMA Invariance == Spec => []IInv
<1> QED
  BY InitIInv, NextIInv, PTL DEF Spec

-----------------------------------------------------------------------------
(* Theorems                                                                *)

(* Every state of a release that is being realigned is well typed.         *)
THEOREM TypeCorrect == Spec => []TypeOK
<1>1. IInv => TypeOK
  BY DEF IInv
<1> QED
  BY <1>1, Invariance, PTL

(* When no visit runs and none is due, every object of the release is as   *)
(* the chart says (actionclient.go, Reconcile): whoever changed, removed   *)
(* or re-created which of them, between which of its requests.             *)
THEOREM NoChangeMissed == Spec => []AtRestAligned
<1>1. IInv => AtRestAligned
  BY DEF IInv, VisitedAligned, AtRestAligned
<1> QED
  BY <1>1, Invariance, PTL

(* One step of a visit takes nothing from an object and gives its fields   *)
(* no values but the chart's.                                              *)
LEMMA VisitIsTowardsTheChart ==
    ASSUME TypeOK, [Next]_vars, edits' = edits,
           NEW i \in Places, objects[i] # Gone
    PROVE  /\ objects'[i] # Gone
           /\ \A f \in Changed(objects[i], objects'[i]) :
                 /\ Expected[i][f] # Absent
                 /\ objects'[i][f] = Stored(Expected[i][f])
<1>1. CASE objects'[i] = objects[i]
  BY <1>1 DEF Changed
<1>2. CASE objects'[i] # objects[i]
  <2>1. ~\E j \in Places : Change(j) \/ Remove(j) \/ ReCreate(j)
    BY DEF Change, Remove, ReCreate, Edit, TypeOK
  <2>2. Create \/ Patch
    BY <1>2, <2>1 DEF Next, vars, Start, Get, Fail
  <2>3. CASE Create
    BY <1>2, <2>3, AtIsPlace DEF Create, TypeOK
  <2>4. CASE Patch
    <3> DEFINE patch == createPatch(at, seen)
               new   == Patched(at, objects[at], patch)
    <3>1. objects' = [objects EXCEPT ![at] = new]
      BY <1>2, <2>4 DEF Patch
    <3>2. i = at /\ objects'[i] = new
      BY <1>2, <3>1 DEF TypeOK
    <3>3. new \in Objects
      BY <3>2, PatchedType DEF TypeOK
    <3>4. ASSUME NEW f \in Fields, objects[i][f] # new[f]
          PROVE  f \in patch /\ new[f] = Stored(Expected[i][f])
      BY <3>2, <3>4 DEF Patched
    <3> HIDE DEF new
    <3> QED
      BY <3>2, <3>3, <3>4, PatchIsManaged, NoObject DEF Changed
  <2> QED
    BY <2>2, <2>3, <2>4
<1> QED
  BY <1>1, <1>2

(* Whatever a visit has read before it patches, fields that the chart does *)
(* not have are left to those who set them (actionclient.go, createPatch). *)
THEOREM OthersFieldsSurvive == Spec => OnlyTowardsTheChart
<1>1. TypeOK /\ [Next]_vars =>
        [edits' = edits => \A i \in Places : objects[i] # Gone =>
            /\ objects'[i] # Gone
            /\ \A f \in Changed(objects[i], objects'[i]) :
                  /\ Expected[i][f] # Absent
                  /\ objects'[i][f] = Stored(Expected[i][f])]_vars
  BY VisitIsTowardsTheChart
<1> QED
  BY <1>1, TypeCorrect, PTL DEF Spec, OnlyTowardsTheChart
=============================================================================
