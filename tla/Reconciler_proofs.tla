------------------------- MODULE Reconciler_proofs -------------------------
(***************************************************************************)
(* Theorems about module Reconciler, for every value of its constants: it  *)
(* is well typed; a release never outlives its CR; an established one goes *)
(* only with its CR; users' writes survive; and the operator never goes to *)
(* sleep over unfinished work.                                             *)
(***************************************************************************)
EXTENDS Reconciler, TLAPS

-----------------------------------------------------------------------------
(* Pending changes stay well typed, whatever is added to them.             *)

LEMMA ReasonTypes ==
    /\ "" \in Reasons /\ "InstallOrUpgradeSuccessful" \in Reasons
    /\ "UninstallSuccessful" \in Reasons
    /\ "PauseReconcileAnnotationTrue" \in Reasons
    /\ "ErrorGettingClient" \in Reasons /\ "ErrorGettingValues" \in Reasons
    /\ "ErrorGettingReleaseState" \in Reasons /\ "InstallError" \in Reasons
    /\ "UpgradeError" \in Reasons /\ "UninstallError" \in Reasons
    /\ "ReconcileError" \in Reasons
BY DEF Reasons

LEMMA ConditionsAreValues ==
    ASSUME NEW r \in Reasons
    PROVE  True(r) \in Values /\ False(r) \in Values /\ Unknown \in Values
BY ReasonTypes DEF Values, Condition, True, False, Unknown

LEMMA EnsureType ==
    ASSUME NEW w \in Updates, NEW f \in Fields, NEW v \in Values
    PROVE  Ensure(w, f, v) \in Updates
BY SMT DEF Updates, Ensure

LEMMA EnsureUnknownType ==
    ASSUME NEW w \in Updates, NEW types
    PROVE  EnsureUnknown(w, types) \in Updates
<1>1. Unknown \in Values
  BY ConditionsAreValues DEF Reasons
<1> QED
  BY <1>1, SMT DEF Updates, EnsureUnknown

LEMMA NoUpdatesType == NoUpdates \in Updates
BY SMT DEF NoUpdates, Updates, Values

LEMMA FieldTypes ==
    /\ ConditionTypes \subseteq Fields
    /\ "Initialized" \in Fields /\ "Deployed" \in Fields
    /\ "ReleaseFailed" \in Fields /\ "Irreconcilable" \in Fields
    /\ "Paused" \in Fields /\ "deployedRelease" \in Fields
BY DEF Fields, ConditionTypes

LEMMA DeployedType ==
    ASSUME NEW w \in Updates, NEW r \in Release
    PROVE  Deployed(w, r) \in Updates
<1>1. Ensure(w, "Deployed", True("InstallOrUpgradeSuccessful")) \in Updates
  BY EnsureType, ConditionsAreValues, ReasonTypes, FieldTypes
<1>2. r.manifest \in Values
  BY DEF Release, Values
<1> QED
  BY <1>1, <1>2, EnsureType, FieldTypes DEF Deployed, EnsureDeployedRelease

LEMMA SucceededType ==
    ASSUME NEW w \in Updates, NEW r \in Release
    PROVE  Succeeded(w, r) \in Updates
<1>1. Deployed(w, r) \in Updates
  BY DeployedType
<1>2. Ensure(Deployed(w, r), "ReleaseFailed", False("")) \in Updates
  BY <1>1, EnsureType, ConditionsAreValues, ReasonTypes, FieldTypes
<1> QED
  BY <1>2, EnsureType, ConditionsAreValues, ReasonTypes, FieldTypes DEF Succeeded

LEMMA ActionFailedType ==
    ASSUME NEW w \in Updates, NEW r \in Reasons
    PROVE  ActionFailed(w, r) \in Updates
<1>1. Ensure(w, "Irreconcilable", True("ReconcileError")) \in Updates
  BY EnsureType, ConditionsAreValues, ReasonTypes, FieldTypes
<1> QED
  BY <1>1, EnsureType, ConditionsAreValues, FieldTypes DEF ActionFailed

(* The status that Apply writes.                                           *)
LEMMA AppliedType ==
    ASSUME NEW w \in Updates, NEW st \in Status
    PROVE  Applied(w, st) \in Status
BY SMT DEF Applied, Updates, Status

-----------------------------------------------------------------------------
(* Type correctness, action by action.                                     *)

LEMMA EmptyStatusType == EmptyStatus \in Status
BY DEF EmptyStatus, Status, Values

LEMMA StoreType ==
    ASSUME TypeOK, NEW v \in CustomResource, Store(v)
    PROVE  /\ cr' \in CustomResource \cup {Nil}
           /\ backlog' \in Seq(CustomResource \cup {Nil})
<1>1. Persisted(v) \in CustomResource \cup {Nil}
  BY DEF Persisted
<1> QED
  BY <1>1 DEF Store, TypeOK

LEMMA UpdatedType ==
    ASSUME NEW v \in CustomResource, NEW o \in CustomResource, cr = v
    PROVE  Updated(o) \in CustomResource /\ StatusUpdated(o) \in CustomResource
BY DEF Updated, StatusUpdated, CustomResource

LEMMA ReturnType ==
    ASSUME TypeOK, NEW res, Return(res)
    PROVE  /\ pc' \in Steps /\ obj' \in CustomResource \cup {Nil}
           /\ fresh' \in BOOLEAN /\ u' \in Updates /\ un' \in Updates
           /\ result' \in {"none", "done", "requeue", "error"}
           /\ delayed' \subseteq {"retry", "period"} /\ dirty' \in BOOLEAN
BY NoUpdatesType DEF TypeOK, Return, Requeue, Steps

LEMMA FaultType ==
    ASSUME TypeOK, NEW kind, Fault(kind)
    PROVE  faults' \in Nat
BY DEF TypeOK, Fault

LEMMA UserStepType ==
    ASSUME TypeOK, UserStep, born' \in Nat, drift' \in BOOLEAN,
           cr' \in CustomResource \cup {Nil},
           backlog' \in Seq(CustomResource \cup {Nil})
    PROVE  TypeOK'
<1>1. /\ cache' = cache /\ dirty' = dirty /\ delayed' = delayed /\ pc' = pc
      /\ obj' = obj /\ u' = u /\ un' = un /\ result' = result /\ rel' = rel
      /\ faults' = faults /\ edits' = edits + 1 /\ fresh' = FALSE
  BY DEF UserStep, queue
<1>2. edits' \in Nat
  BY <1>1 DEF TypeOK
<1>3. fresh' \in BOOLEAN /\ dirty' \in BOOLEAN
  BY <1>1 DEF TypeOK
<1> QED
  BY <1>1, <1>2, <1>3 DEF TypeOK

LEMMA UsersType == TypeOK /\ Users => TypeOK'
<1> SUFFICES ASSUME TypeOK, Users PROVE TypeOK'
  OBVIOUS
<1>1. CASE CreateCR
  <2>1. PICK spec \in Manifests, fs \in SUBSET {"other"} :
           Store([uid |-> born + 1, deleting |-> FALSE, paused |-> FALSE,
                  finalizers |-> fs, spec |-> spec, status |-> EmptyStatus])
    BY <1>1 DEF CreateCR
  <2>2. [uid |-> born + 1, deleting |-> FALSE, paused |-> FALSE,
         finalizers |-> fs, spec |-> spec, status |-> EmptyStatus]
           \in CustomResource
    BY EmptyStatusType DEF CustomResource, TypeOK, uninstallFinalizer
  <2>3. cr' \in CustomResource \cup {Nil}
        /\ backlog' \in Seq(CustomResource \cup {Nil})
    BY <2>1, <2>2, StoreType
  <2>9. UserStep /\ born' \in Nat /\ drift' \in BOOLEAN
    BY <1>1 DEF CreateCR, TypeOK
  <2> QED
    BY <2>3, <2>9, UserStepType
<1>2. CASE EditSpec
  <2>1. PICK spec \in Manifests : Store([cr EXCEPT !.spec = spec])
    BY <1>2 DEF EditSpec
  <2>2. [cr EXCEPT !.spec = spec] \in CustomResource
    BY <1>2 DEF EditSpec, TypeOK, CustomResource
  <2>3. cr' \in CustomResource \cup {Nil}
        /\ backlog' \in Seq(CustomResource \cup {Nil})
    BY <2>1, <2>2, StoreType
  <2>9. UserStep /\ born' \in Nat /\ drift' \in BOOLEAN
    BY <1>2 DEF EditSpec, TypeOK
  <2> QED
    BY <2>3, <2>9, UserStepType
<1>3. CASE TogglePause
  <2>1. [cr EXCEPT !.paused = ~cr.paused] \in CustomResource
    BY <1>3 DEF TogglePause, TypeOK, CustomResource
  <2>2. cr' \in CustomResource \cup {Nil}
        /\ backlog' \in Seq(CustomResource \cup {Nil})
    BY <1>3, <2>1, StoreType DEF TogglePause
  <2>9. UserStep /\ born' \in Nat /\ drift' \in BOOLEAN
    BY <1>3 DEF TogglePause, TypeOK
  <2> QED
    BY <2>2, <2>9, UserStepType
<1>4. CASE DeleteCR
  <2>1. [cr EXCEPT !.deleting = TRUE] \in CustomResource
    BY <1>4 DEF DeleteCR, TypeOK, CustomResource
  <2>2. cr' \in CustomResource \cup {Nil}
        /\ backlog' \in Seq(CustomResource \cup {Nil})
    BY <1>4, <2>1, StoreType DEF DeleteCR
  <2>9. UserStep /\ born' \in Nat /\ drift' \in BOOLEAN
    BY <1>4 DEF DeleteCR, TypeOK
  <2> QED
    BY <2>2, <2>9, UserStepType
<1>5. CASE ReleaseOtherFinalizer
  <2>1. [cr EXCEPT !.finalizers = cr.finalizers \ {"other"}] \in CustomResource
    BY <1>5 DEF ReleaseOtherFinalizer, TypeOK, CustomResource
  <2>2. cr' \in CustomResource \cup {Nil}
        /\ backlog' \in Seq(CustomResource \cup {Nil})
    BY <1>5, <2>1, StoreType DEF ReleaseOtherFinalizer
  <2>9. UserStep /\ born' \in Nat /\ drift' \in BOOLEAN
    BY <1>5 DEF ReleaseOtherFinalizer, TypeOK
  <2> QED
    BY <2>2, <2>9, UserStepType
<1>6. CASE Drift
  BY <1>6 DEF Drift, TypeOK, api, queue, worker
<1> QED
  BY <1>1, <1>2, <1>3, <1>4, <1>5, <1>6 DEF Users

LEMMA InformerType == TypeOK /\ (Deliver \/ TimerFires) => TypeOK'
<1>1. ASSUME TypeOK, Deliver PROVE TypeOK'
  <2>1. /\ Head(backlog) \in CustomResource \cup {Nil}
        /\ Tail(backlog) \in Seq(CustomResource \cup {Nil})
    BY <1>1 DEF TypeOK, Deliver
  <2> QED
    BY <1>1, <2>1 DEF TypeOK, Deliver, worker, helm, budget
<1>2. ASSUME TypeOK, TimerFires PROVE TypeOK'
  BY <1>2 DEF TypeOK, TimerFires, api, worker, helm, budget
<1> QED
  BY <1>1, <1>2

-----------------------------------------------------------------------------
(* What a write to the API server preserves.                               *)

Known(x) == x = cache \/ \E i \in 1..Len(backlog) : x = backlog[i]

LEMMA StoredIsNewest ==
    ASSUME IInv
    PROVE  /\ Known(cr)
           /\ \A x : Known(x) => Credible(x) /\ Follows(x, cr)
           /\ \A x : OldCopy(x) => Follows(x, cr)
<1>1. backlog \in Seq(CustomResource \cup {Nil}) /\ Len(backlog) \in Nat
  BY DEF IInv, TypeOK
<1>2. CASE backlog = <<>>
  <2>1. cr = cache /\ Len(backlog) = 0
    BY <1>2 DEF IInv, VersionsInOrder
  <2> QED
    BY <1>1, <2>1 DEF IInv, VersionsInOrder, Known, Follows, OldCopy
<1>3. CASE backlog # <<>>
  <2>1. Len(backlog) \in 1..Len(backlog) /\ cr = backlog[Len(backlog)]
    BY <1>1, <1>3 DEF IInv, VersionsInOrder
  <2>2. Known(cr)
    BY <2>1 DEF Known
  <2>3. ASSUME NEW x, Known(x) PROVE Credible(x) /\ Follows(x, cr)
    <3>1. CASE x = cache
      BY <2>1, <3>1 DEF IInv, VersionsInOrder
    <3>2. ASSUME NEW i \in 1..Len(backlog), x = backlog[i]
          PROVE  Credible(x) /\ Follows(x, cr)
      <4>1. i < Len(backlog) \/ i = Len(backlog)
        BY <1>1, <3>2
      <4>2. Credible(x)
        BY <3>2 DEF IInv, VersionsInOrder
      <4>3. i < Len(backlog) => Follows(x, cr)
        BY <2>1, <3>2 DEF IInv, VersionsInOrder
      <4>4. i = Len(backlog) => Follows(x, cr)
        BY <2>1, <3>2 DEF Follows
      <4> QED
        BY <4>1, <4>2, <4>3, <4>4
    <3> QED
      BY <2>3, <3>1, <3>2 DEF Known
  <2>4. ASSUME NEW x, OldCopy(x) PROVE Follows(x, cr)
    BY <2>1, <2>4 DEF OldCopy
  <2> QED
    BY <2>2, <2>3, <2>4
<1> QED
  BY <1>2, <1>3

(* The new version is the last one, and all the others are what they were. *)
LEMMA AppendFacts ==
    ASSUME IInv, NEW v \in CustomResource, Store(v)
    PROVE  /\ cr' = Persisted(v)
           /\ Persisted(v) \in {v, Nil}
           /\ Len(backlog') = Len(backlog) + 1 /\ Len(backlog) \in Nat
           /\ backlog' # <<>>
           /\ backlog'[Len(backlog) + 1] = Persisted(v)
           /\ \A i \in 1..Len(backlog) : backlog'[i] = backlog[i]
<1>1. /\ backlog \in Seq(CustomResource \cup {Nil})
      /\ Persisted(v) \in CustomResource \cup {Nil}
      /\ Persisted(v) \in {v, Nil}
  BY DEF IInv, TypeOK, Persisted
<1>2. cr' = Persisted(v) /\ backlog' = Append(backlog, Persisted(v))
  BY DEF Store
<1> DEFINE w == Persisted(v)
<1> HIDE DEF w
<1>3. /\ Len(Append(backlog, w)) = Len(backlog) + 1 /\ Len(backlog) \in Nat
      /\ Append(backlog, w) # <<>>
      /\ Append(backlog, w)[Len(backlog) + 1] = w
      /\ \A i \in 1..Len(backlog) : Append(backlog, w)[i] = backlog[i]
  BY <1>1 DEF w
<1> QED
  BY <1>1, <1>2, <1>3 DEF w

LEMMA StoreKeepsOrder ==
    ASSUME IInv, NEW v \in CustomResource, Store(v), cache' = cache,
           \A x : Known(x) => Follows(x, v),
           \A x : Known(x) => Credible(x)',
           v.uid <= born'
    PROVE  VersionsInOrder'
<1> DEFINE w == Persisted(v)
           n == Len(backlog) + 1
<1>1. /\ cr' = w /\ w \in {v, Nil} /\ n \in Nat
      /\ Len(backlog') = n /\ backlog' # <<>> /\ backlog'[n] = w
      /\ \A i \in 1..Len(backlog) : backlog'[i] = backlog[i]
      /\ \A i \in 1..n : i \in 1..Len(backlog) \/ i = n
  <2>1. Len(backlog) \in Nat
    BY AppendFacts
  <2> QED
    BY <2>1, AppendFacts
<1>2. \A x : Known(x) => Follows(x, w)
  BY <1>1 DEF Follows
<1>3. Credible(w)'
  BY <1>1 DEF Credible, Guards
<1>4. \A i \in 1..n : Known(backlog'[i]) \/ (i = n /\ backlog'[i] = w)
  BY <1>1 DEF Known
<1>5. \A i \in 1..n : \A x : x = backlog'[i] =>
         Credible(x)' /\ Follows(cache, x)
  <2> SUFFICES ASSUME NEW i \in 1..n, NEW x, x = backlog'[i]
               PROVE  Credible(x)' /\ Follows(cache, x)
    OBVIOUS
  <2>1. CASE i = n
    BY <1>1, <1>2, <1>3, <2>1 DEF Known, Credible, Guards
  <2>2. CASE i \in 1..Len(backlog)
    <3>1. Known(x) /\ x = backlog[i]
      BY <1>1, <2>2 DEF Known
    <3>2. Follows(cache, x)
      BY <2>2, <3>1 DEF IInv, VersionsInOrder
    <3> QED
      BY <3>1, <3>2
  <2> QED
    BY <1>1, <2>1, <2>2
<1>6. \A i, j \in 1..n : i < j => Follows(backlog'[i], backlog'[j])
  <2> SUFFICES ASSUME NEW i \in 1..n, NEW j \in 1..n, i < j
               PROVE  Follows(backlog'[i], backlog'[j])
    OBVIOUS
  <2>1. i \in 1..Len(backlog) /\ backlog'[i] = backlog[i] /\ Known(backlog[i])
    BY <1>1 DEF Known
  <2>2. CASE j = n
    BY <1>1, <1>2, <2>1, <2>2
  <2>3. CASE j \in 1..Len(backlog)
    BY <1>1, <2>1, <2>3 DEF IInv, VersionsInOrder
  <2> QED
    BY <1>1, <2>2, <2>3
<1>7. Credible(cache)'
  BY DEF Known
<1>8. cr' = backlog'[Len(backlog')]
  BY <1>1
<1>9. cr' # Nil => Persisted(cr') = cr'
  BY <1>1 DEF Persisted
<1> QED
  BY <1>1, <1>5, <1>6, <1>7, <1>8, <1>9 DEF VersionsInOrder, Credible, Guards

LEMMA StoreKeepsOld ==
    ASSUME IInv, NEW v \in CustomResource, Store(v), cache' = cache,
           born' \in Nat, born <= born',
           NEW o \in CustomResource, OldCopy(o), Follows(o, v)
    PROVE  OldCopy(o)'
<1>1. /\ Persisted(v) \in {v, Nil} /\ Len(backlog) \in Nat
      /\ Len(backlog') = Len(backlog) + 1
      /\ backlog'[Len(backlog) + 1] = Persisted(v)
      /\ \A i \in 1..Len(backlog) : backlog'[i] = backlog[i]
  BY AppendFacts
<1>2. Follows(o, Persisted(v))
  BY <1>1 DEF Follows
<1>3. \A i \in 1..Len(backlog') : Follows(o, backlog'[i])
  <2> SUFFICES ASSUME NEW i \in 1..Len(backlog')
               PROVE  Follows(o, backlog'[i])
    OBVIOUS
  <2>1. i \in 1..Len(backlog) \/ i = Len(backlog) + 1
    BY <1>1
  <2> QED
    BY <1>1, <1>2, <2>1 DEF OldCopy
<1>4. o.uid <= born'
  BY DEF OldCopy, IInv, TypeOK, CustomResource
<1> QED
  BY <1>3, <1>4 DEF OldCopy

(* A write that leaves the uid, a deletion and the uninstall finalizer.     *)
LEMMA StoreKeepsGuards ==
    ASSUME IInv, NEW v \in CustomResource, Store(v), cache' = cache,
           born' = born, cr # Nil, v.uid = cr.uid, cr.deleting => v.deleting,
           uninstallFinalizer \in cr.finalizers
              => uninstallFinalizer \in v.finalizers
    PROVE  /\ VersionsInOrder'
           /\ \A x : Guards(x) => Guards(x)'
           /\ rel' = rel => ReleaseIsOwned'
           /\ \A o \in CustomResource : OldCopy(o) => OldCopy(o)'
<1>1. Nil \notin CustomResource /\ v # Nil /\ born \in Nat
  BY AbsentAssumption DEF IInv, TypeOK
<1>2. cr' = Persisted(v)
  BY AppendFacts
<1>3. ASSUME NEW x, Guards(x) PROVE Guards(x)'
  <2>1. Persisted(v) = v
    BY <1>3 DEF Guards, Persisted
  <2> QED
    BY <1>1, <1>2, <1>3, <2>1 DEF Guards
<1>4. \A x : Follows(x, cr) => Follows(x, v)
  BY <1>1 DEF Follows
<1>5. \A x : Known(x) => Credible(x)'
  BY <1>3, StoredIsNewest DEF Credible
<1>6. v.uid <= born'
  BY StoredIsNewest DEF Credible
<1>7. VersionsInOrder'
  BY <1>4, <1>5, <1>6, StoredIsNewest, StoreKeepsOrder
<1>8. rel' = rel => ReleaseIsOwned'
  <2>1. CASE rel = Nil
    BY <2>1 DEF ReleaseIsOwned
  <2>2. CASE rel # Nil
    <3>1. /\ cr.uid = rel.owner /\ uninstallFinalizer \in cr.finalizers
      BY <2>2 DEF IInv, ReleaseIsOwned
    <3>2. Persisted(v) = v
      BY <3>1 DEF Persisted
    <3> QED
      BY <1>1, <1>2, <3>1, <3>2 DEF ReleaseIsOwned
  <2> QED
    BY <2>1, <2>2
<1>9. ASSUME NEW o \in CustomResource, OldCopy(o) PROVE OldCopy(o)'
  BY <1>1, <1>4, <1>9, StoredIsNewest, StoreKeepsOld
<1> QED
  BY <1>3, <1>7, <1>8, <1>9

(* Steps of the worker that touch neither the API server nor its copy.     *)
LEMMA LocalStep ==
    ASSUME IInv, UNCHANGED <<api, cache, queue, obj, fresh, edits>>,
           pc' \in Steps, u' \in Updates, un' \in Updates,
           result' \in {"none", "done", "requeue", "error"},
           rel' \in Release \cup {Nil}, drift' \in BOOLEAN, faults' \in Nat,
           WorkerInStep', ReleaseIsOwned'
    PROVE  IInv'
<1>1. /\ cr' = cr /\ born' = born /\ backlog' = backlog /\ cache' = cache
      /\ dirty' = dirty /\ delayed' = delayed /\ obj' = obj /\ fresh' = fresh
      /\ edits' = edits
  BY DEF api, queue
<1>2. TypeOK'
  BY <1>1 DEF IInv, TypeOK
<1>3. VersionsInOrder'
  BY <1>1 DEF IInv, VersionsInOrder, Credible, Guards
<1>4. CopyIsOld'
  BY <1>1 DEF IInv, CopyIsOld, OldCopy
<1> QED
  BY <1>2, <1>3, <1>4 DEF IInv

(* ... of which these go on to the deferred Apply.                         *)
LEMMA LeaveStep ==
    ASSUME IInv, UNCHANGED <<api, cache, queue, obj, fresh, edits>>,
           NEW w \in Updates, NEW res \in {"done", "requeue", "error"},
           Leave(w, res), pc # "idle",
           rel' \in Release \cup {Nil}, drift' \in BOOLEAN, faults' \in Nat,
           ReleaseIsOwned'
    PROVE  IInv'
<1>1. /\ pc' = "apply" /\ u' = w /\ un' = un /\ result' = res /\ obj' = obj
  BY DEF Leave
<1>2. pc' \in Steps /\ u' \in Updates /\ un' \in Updates
      /\ result' \in {"none", "done", "requeue", "error"}
  BY <1>1 DEF IInv, TypeOK, Steps
<1>3. WorkerInStep'
  BY <1>1 DEF IInv, WorkerInStep, Acting
<1> QED
  BY <1>2, <1>3, LocalStep

LEMMA SameRelease ==
    ASSUME IInv, UNCHANGED api
    PROVE  /\ rel' = rel => ReleaseIsOwned'
           /\ rel' = Nil => ReleaseIsOwned'
           /\ rel # Nil /\ rel'.owner = rel.owner => ReleaseIsOwned'
           /\ pc # "idle" /\ Acting /\ rel'.owner = obj.uid => ReleaseIsOwned'
BY DEF IInv, api, ReleaseIsOwned, WorkerInStep, Guards

-----------------------------------------------------------------------------
(* The users, the informer and the queue.                                  *)

(* A user's write that keeps what guards the release.                      *)
LEMMA UserWrite ==
    ASSUME IInv, TypeOK', UserStep, born' = born,
           NEW v \in CustomResource, Store(v), cr # Nil, v.uid = cr.uid,
           cr.deleting => v.deleting,
           uninstallFinalizer \in cr.finalizers
              => uninstallFinalizer \in v.finalizers
    PROVE  IInv'
<1>1. /\ cache' = cache /\ pc' = pc /\ obj' = obj /\ rel' = rel
      /\ result' = result /\ fresh' = FALSE
  BY DEF UserStep
<1>2. /\ VersionsInOrder' /\ ReleaseIsOwned'
      /\ \A x : Guards(x) => Guards(x)'
      /\ \A o \in CustomResource : OldCopy(o) => OldCopy(o)'
  BY <1>1, StoreKeepsGuards
<1>3. CopyIsOld'
  <2>1. obj # Nil => obj \in CustomResource /\ OldCopy(obj)
    BY DEF IInv, TypeOK, CopyIsOld
  <2>2. obj # Nil => OldCopy(obj)'
    BY <1>1, <1>2, <2>1 DEF OldCopy
  <2> QED
    BY <1>1, <2>2 DEF CopyIsOld
<1>4. WorkerInStep'
  <2>1. Acting' => Acting /\ Guards(obj)
    BY <1>1 DEF Acting, IInv, WorkerInStep
  <2>2. Guards(obj) => Guards(obj)'
    BY <1>1, <1>2 DEF Guards
  <2> QED
    BY <1>1, <2>1, <2>2 DEF IInv, WorkerInStep
<1> QED
  BY <1>2, <1>3, <1>4 DEF IInv

LEMMA CreateStep == IInv /\ CreateCR => IInv'
<1> SUFFICES ASSUME IInv, CreateCR PROVE IInv'
  OBVIOUS
<1>1. PICK spec \in Manifests, fs \in SUBSET {"other"} :
         Store([uid |-> born + 1, deleting |-> FALSE, paused |-> FALSE,
                finalizers |-> fs, spec |-> spec, status |-> EmptyStatus])
  BY DEF CreateCR
<1> DEFINE v == [uid |-> born + 1, deleting |-> FALSE, paused |-> FALSE,
                 finalizers |-> fs, spec |-> spec, status |-> EmptyStatus]
<1>2. v \in CustomResource /\ v.uid = born + 1 /\ ~v.deleting
      /\ uninstallFinalizer \notin v.finalizers
  BY EmptyStatusType DEF CustomResource, IInv, TypeOK, uninstallFinalizer
<1>3. /\ cache' = cache /\ pc' = pc /\ obj' = obj /\ rel' = rel /\ cr = Nil
      /\ result' = result /\ fresh' = FALSE /\ born' = born + 1 /\ born \in Nat
  BY DEF CreateCR, UserStep, IInv, TypeOK
<1> HIDE DEF v
<1>4. Store(v)
  BY <1>1 DEF v
<1>5. \A x : Known(x) => Follows(x, v)
  <2> SUFFICES ASSUME NEW x, Known(x) PROVE Follows(x, v)
    OBVIOUS
  <2>1. Credible(x) /\ x \in CustomResource \cup {Nil}
    BY StoredIsNewest DEF Known, IInv, TypeOK
  <2>2. x # Nil => x.uid \in Nat /\ x.uid <= born
    BY <2>1 DEF Credible, CustomResource
  <2> QED
    BY <1>2, <1>3, <2>2 DEF Follows
<1>6. \A x : Known(x) => Credible(x)'
  <2> SUFFICES ASSUME NEW x, Known(x) PROVE Credible(x)'
    OBVIOUS
  <2>1. Credible(x) /\ x \in CustomResource \cup {Nil}
    BY StoredIsNewest DEF Known, IInv, TypeOK
  <2>2. x # Nil => x.uid \in Nat /\ x.uid <= born'
    BY <1>3, <2>1 DEF Credible, CustomResource
  <2> QED
    BY <1>3, <2>1, <2>2 DEF Credible, Guards
<1>7. v.uid <= born'
  BY <1>2, <1>3
<1>8. VersionsInOrder'
  BY <1>2, <1>3, <1>4, <1>5, <1>6, <1>7, StoreKeepsOrder
<1>9. CopyIsOld'
  <2>1. obj # Nil => obj \in CustomResource /\ OldCopy(obj) /\ obj.uid \in Nat
    BY DEF IInv, TypeOK, CopyIsOld, CustomResource
  <2>2. obj # Nil => Follows(obj, v)
    BY <1>2, <1>3, <2>1 DEF Follows, OldCopy
  <2>3. born' \in Nat /\ born <= born'
    BY <1>3
  <2>4. obj # Nil => OldCopy(obj)'
    BY <1>2, <1>3, <1>4, <2>1, <2>2, <2>3, StoreKeepsOld DEF OldCopy
  <2> QED
    BY <1>3, <2>4 DEF CopyIsOld
<1>10. WorkerInStep' /\ ReleaseIsOwned'
  BY <1>3 DEF IInv, WorkerInStep, ReleaseIsOwned, Acting, Guards
<1>11. TypeOK'
  BY UsersType DEF IInv, Users
<1> QED
  BY <1>8, <1>9, <1>10, <1>11 DEF IInv

LEMMA UsersStep == IInv /\ Users => IInv'
<1> SUFFICES ASSUME IInv, Users PROVE IInv'
  OBVIOUS
<1>1. TypeOK' /\ (cr # Nil => cr \in CustomResource)
  BY UsersType DEF IInv, TypeOK
<1>2. CASE EditSpec
  <2>1. PICK spec \in Manifests : Store([cr EXCEPT !.spec = spec])
    BY <1>2 DEF EditSpec
  <2> DEFINE v == [cr EXCEPT !.spec = spec]
  <2>2. /\ cr # Nil /\ v \in CustomResource /\ v.uid = cr.uid
        /\ v.deleting = cr.deleting /\ v.finalizers = cr.finalizers
    BY <1>1, <1>2 DEF EditSpec, CustomResource
  <2>3. UserStep /\ born' = born /\ Store(v)
    BY <1>2, <2>1 DEF EditSpec
  <2> QED
    BY <1>1, <2>2, <2>3, UserWrite
<1>3. CASE TogglePause
  <2> DEFINE v == [cr EXCEPT !.paused = ~cr.paused]
  <2>1. /\ cr # Nil /\ v \in CustomResource /\ v.uid = cr.uid
        /\ v.deleting = cr.deleting /\ v.finalizers = cr.finalizers
    BY <1>1, <1>3 DEF TogglePause, CustomResource
  <2>2. UserStep /\ born' = born /\ Store(v)
    BY <1>3 DEF TogglePause
  <2> QED
    BY <1>1, <2>1, <2>2, UserWrite
<1>4. CASE DeleteCR
  <2> DEFINE v == [cr EXCEPT !.deleting = TRUE]
  <2>1. /\ cr # Nil /\ v \in CustomResource /\ v.uid = cr.uid
        /\ v.deleting /\ v.finalizers = cr.finalizers
    BY <1>1, <1>4 DEF DeleteCR, CustomResource
  <2>2. UserStep /\ born' = born /\ Store(v)
    BY <1>4 DEF DeleteCR
  <2> QED
    BY <1>1, <2>1, <2>2, UserWrite
<1>5. CASE ReleaseOtherFinalizer
  <2> DEFINE v == [cr EXCEPT !.finalizers = cr.finalizers \ {"other"}]
  <2>1. /\ cr # Nil /\ v \in CustomResource /\ v.uid = cr.uid
        /\ v.deleting = cr.deleting
        /\ uninstallFinalizer \in cr.finalizers
              => uninstallFinalizer \in v.finalizers
    BY <1>1, <1>5 DEF ReleaseOtherFinalizer, CustomResource, uninstallFinalizer
  <2>2. UserStep /\ born' = born /\ Store(v)
    BY <1>5 DEF ReleaseOtherFinalizer
  <2> QED
    BY <1>1, <2>1, <2>2, UserWrite
<1>6. CASE Drift
  BY <1>1, <1>6 DEF Drift, IInv, api, worker, VersionsInOrder, Credible, Guards,
     CopyIsOld, OldCopy, WorkerInStep, Acting, ReleaseIsOwned
<1> QED
  BY <1>2, <1>3, <1>4, <1>5, <1>6, CreateStep DEF Users

LEMMA DeliverStep == IInv /\ Deliver => IInv'
<1> SUFFICES ASSUME IInv, Deliver PROVE IInv'
  OBVIOUS
<1>1. /\ cache' = Head(backlog) /\ backlog' = Tail(backlog) /\ backlog # <<>>
      /\ cr' = cr /\ born' = born /\ pc' = pc /\ obj' = obj /\ fresh' = fresh
      /\ result' = result /\ rel' = rel
  BY DEF Deliver, worker, helm
<1>2. /\ backlog \in Seq(CustomResource \cup {Nil}) /\ TypeOK'
  BY InformerType DEF IInv, TypeOK
<1>3. /\ cache' = backlog[1] /\ Len(backlog) \in Nat /\ Len(backlog) > 0
      /\ Len(backlog') = Len(backlog) - 1
      /\ \A i \in 1..Len(backlog') : backlog'[i] = backlog[i + 1]
      /\ backlog' # <<>> => Len(backlog') > 0
      /\ backlog' = <<>> => Len(backlog) = 1
  <2>1. Len(backlog) \in Nat /\ Len(backlog) > 0 /\ Head(backlog) = backlog[1]
    BY <1>1, <1>2
  <2>2. /\ Len(Tail(backlog)) = Len(backlog) - 1
        /\ Tail(backlog) \in Seq(CustomResource \cup {Nil})
    BY <1>1, <1>2
  <2>3. \A i \in 1..Len(backlog) - 1 : Tail(backlog)[i] = backlog[i + 1]
    BY <1>1, <1>2
  <2>4. backlog' # <<>> => Len(backlog') > 0
    BY <1>1, <2>2
  <2>5. backlog' = <<>> => Len(backlog') = 0
    BY <1>1, <2>2
  <2> QED
    BY <1>1, <2>1, <2>2, <2>3, <2>4, <2>5
<1>4. \A i \in 1..Len(backlog') : i + 1 \in 1..Len(backlog)
  BY <1>3
<1>5. 1 \in 1..Len(backlog)
  BY <1>3
<1>6. VersionsInOrder'
  <2>1. cr' = IF backlog' = <<>> THEN cache' ELSE backlog'[Len(backlog')]
    <3>1. cr = backlog[Len(backlog)]
      BY <1>1 DEF IInv, VersionsInOrder
    <3>2. backlog' # <<>> => Len(backlog') \in 1..Len(backlog')
                             /\ Len(backlog') + 1 = Len(backlog)
      BY <1>3
    <3> QED
      BY <1>1, <1>3, <3>1, <3>2
  <2>2. \A x : Credible(x) => Credible(x)'
    BY <1>1 DEF Credible, Guards
  <2>3. Credible(cache)'
    BY <1>1, <1>3, <1>5 DEF IInv, VersionsInOrder, Credible, Guards
  <2>4. ASSUME NEW i \in 1..Len(backlog')
        PROVE  /\ \A x : x = backlog'[i] => Credible(x)'
               /\ Follows(cache', backlog'[i])
    <3>1. i + 1 \in 1..Len(backlog) /\ backlog'[i] = backlog[i + 1] /\ 1 < i + 1
      BY <1>3, <1>4, <2>4
    <3>2. Credible(backlog[i + 1]) /\ Follows(backlog[1], backlog[i + 1])
      BY <1>5, <3>1 DEF IInv, VersionsInOrder
    <3> QED
      BY <1>3, <2>2, <3>1, <3>2
  <2>5. ASSUME NEW i \in 1..Len(backlog'), NEW j \in 1..Len(backlog'), i < j
        PROVE  Follows(backlog'[i], backlog'[j])
    <3>1. /\ i + 1 \in 1..Len(backlog) /\ j + 1 \in 1..Len(backlog) /\ i + 1 < j + 1
          /\ backlog'[i] = backlog[i + 1] /\ backlog'[j] = backlog[j + 1]
      BY <1>3, <1>4, <2>5
    <3> QED
      BY <3>1 DEF IInv, VersionsInOrder
  <2>6. cr' # Nil => Persisted(cr') = cr'
    BY <1>1 DEF IInv, VersionsInOrder
  <2> QED
    BY <2>1, <2>3, <2>4, <2>5, <2>6 DEF VersionsInOrder, Credible, Guards
<1>7. CopyIsOld'
  <2>1. obj # Nil => OldCopy(obj)'
    BY <1>1, <1>3, <1>4, <1>5 DEF IInv, CopyIsOld, OldCopy
  <2> QED
    BY <1>1, <2>1 DEF IInv, CopyIsOld, OldCopy
<1>8. WorkerInStep' /\ ReleaseIsOwned'
  BY <1>1 DEF IInv, WorkerInStep, ReleaseIsOwned, Acting, Guards
<1> QED
  BY <1>2, <1>6, <1>7, <1>8 DEF IInv

LEMMA TimerStep == IInv /\ TimerFires => IInv'
<1> SUFFICES ASSUME IInv, TimerFires PROVE IInv'
  OBVIOUS
<1>1. /\ cr' = cr /\ born' = born /\ backlog' = backlog /\ cache' = cache
      /\ pc' = pc /\ obj' = obj /\ fresh' = fresh /\ result' = result
      /\ rel' = rel
  BY DEF TimerFires, api, worker, helm
<1>2. TypeOK'
  BY InformerType DEF IInv
<1> QED
  BY <1>1, <1>2 DEF IInv, VersionsInOrder, Credible, Guards, CopyIsOld,
     OldCopy, WorkerInStep, Acting, ReleaseIsOwned

-----------------------------------------------------------------------------
(* The worker.                                                             *)

(* obj is taken from the cache.                                            *)
LEMMA CachedCopy ==
    ASSUME IInv, cache # Nil
    PROVE  /\ OldCopy(cache)
           /\ backlog = <<>> => cr = cache
BY DEF IInv, VersionsInOrder, OldCopy, Credible, Follows

(* After Return the worker has no copy, and only its queue has changed.    *)
LEMMA ReturnStep ==
    ASSUME IInv, NEW res, Return(res), cache' = cache, rel' = rel,
           drift' \in BOOLEAN, edits' = edits, faults' \in Nat, born' \in Nat,
           cr' \in CustomResource \cup {Nil},
           backlog' \in Seq(CustomResource \cup {Nil}),
           VersionsInOrder', ReleaseIsOwned'
    PROVE  IInv'
<1>1. TypeOK'
  BY ReturnType DEF IInv, TypeOK
<1>2. CopyIsOld' /\ WorkerInStep'
  BY DEF Return, CopyIsOld, WorkerInStep, Acting
<1> QED
  BY <1>1, <1>2 DEF IInv

LEMMA StartStep == IInv /\ StartReconcile => IInv'
<1> SUFFICES ASSUME IInv, StartReconcile PROVE IInv'
  OBVIOUS
<1>1. /\ pc = "idle" /\ dirty' = FALSE /\ cr' = cr /\ born' = born
      /\ backlog' = backlog /\ cache' = cache /\ rel' = rel /\ drift' = drift
      /\ edits' = edits /\ un' = un /\ result' = result /\ u' = u
  BY DEF StartReconcile, api, helm
<1>2. VersionsInOrder' /\ ReleaseIsOwned'
  BY <1>1 DEF IInv, VersionsInOrder, Credible, Guards, ReleaseIsOwned
<1>3. dirty' \in BOOLEAN
  BY <1>1
<1>4. CASE UNCHANGED <<pc, obj, fresh>> /\ faults' \in Nat
           /\ delayed' \subseteq {"retry", "period"}
  <2>1. TypeOK'
    BY <1>1, <1>3, <1>4 DEF IInv, TypeOK
  <2> QED
    BY <1>1, <1>2, <1>4, <2>1 DEF IInv, CopyIsOld, OldCopy, WorkerInStep, Acting
<1>5. CASE /\ cache # Nil /\ obj' = cache /\ fresh' = (backlog = <<>>)
           /\ pc' = IF NeedsFinalizer(cache) THEN "addFinalizer" ELSE "lookup"
           /\ UNCHANGED <<delayed, u, faults>>
  <2>1. fresh' \in BOOLEAN /\ pc' \in Steps
    BY <1>5 DEF Steps
  <2>2. TypeOK'
    BY <1>1, <1>3, <1>5, <2>1 DEF IInv, TypeOK
  <2>3. CopyIsOld'
    BY <1>1, <1>5, CachedCopy DEF CopyIsOld, OldCopy
  <2>4. pc' = "lookup" /\ ~obj'.deleting => Guards(obj')
    BY <1>5 DEF NeedsFinalizer, IInv, VersionsInOrder, Credible
  <2>5. WorkerInStep'
    BY <1>1, <1>5, <2>4 DEF WorkerInStep, Acting, Guards, NeedsFinalizer
  <2> QED
    BY <1>2, <2>2, <2>3, <2>5 DEF IInv
<1>6. \/ UNCHANGED <<pc, obj, fresh>> /\ faults' \in Nat
         /\ delayed' \subseteq {"retry", "period"}
      \/ /\ cache # Nil /\ obj' = cache /\ fresh' = (backlog = <<>>)
         /\ pc' = IF NeedsFinalizer(cache) THEN "addFinalizer" ELSE "lookup"
         /\ UNCHANGED <<delayed, u, faults>>
  BY FaultType DEF StartReconcile, IInv, TypeOK
<1> QED
  BY <1>4, <1>5, <1>6

(* The worker's current copy: the stored version, up to its status.        *)
LEMMA FreshCopy ==
    ASSUME IInv, Writable
    PROVE  /\ obj \in CustomResource /\ cr \in CustomResource /\ obj # Nil
           /\ obj.uid = cr.uid /\ obj.deleting = cr.deleting /\ OldCopy(obj)
BY DEF IInv, TypeOK, Writable, CopyIsOld

(* A copy of the same incarnation, no newer in its deletion.               *)
LEMMA SameAge ==
    ASSUME NEW v \in CustomResource, NEW w \in CustomResource,
           v.uid = w.uid, v.deleting = w.deleting
    PROVE  OldCopy(v) <=> OldCopy(w)
<1>1. v # Nil /\ w # Nil
  BY AbsentAssumption
<1> QED
  BY <1>1 DEF OldCopy, Follows

LEMMA AddFinalizerStep == IInv /\ AddFinalizer => IInv'
<1> SUFFICES ASSUME IInv, AddFinalizer PROVE IInv'
  OBVIOUS
<1> DEFINE o == [obj EXCEPT !.finalizers = @ \cup {uninstallFinalizer}]
<1>1. /\ pc = "addFinalizer" /\ born' = born /\ cache' = cache /\ rel' = rel
      /\ drift' = drift /\ edits' = edits
      /\ obj \in CustomResource /\ ~obj.deleting /\ obj # Nil
  BY DEF AddFinalizer, helm, IInv, TypeOK, WorkerInStep
<1>2. /\ o \in CustomResource /\ uninstallFinalizer \in o.finalizers
  BY <1>1 DEF CustomResource, uninstallFinalizer
<1>3. drift' \in BOOLEAN /\ born' \in Nat
  BY <1>1 DEF IInv, TypeOK
<1>4. ASSUME Writable, Store(Updated(o))
      PROVE  /\ VersionsInOrder' /\ ReleaseIsOwned'
             /\ cr' \in CustomResource \cup {Nil}
             /\ backlog' \in Seq(CustomResource \cup {Nil})
             /\ Updated(o) \in CustomResource
             /\ Updated(o).uid = cr.uid /\ Updated(o).deleting = cr.deleting
             /\ cr' = Updated(o)
             /\ uninstallFinalizer \in Updated(o).finalizers
             /\ \A c \in CustomResource : OldCopy(c) => OldCopy(c)'
  <2>1. /\ cr \in CustomResource /\ cr # Nil /\ ~cr.deleting
    BY <1>1, <1>4, FreshCopy DEF Writable
  <2>2. /\ Updated(o) \in CustomResource /\ Updated(o).uid = cr.uid
        /\ Updated(o).deleting = cr.deleting
        /\ Updated(o).finalizers = o.finalizers
    BY <1>2, <2>1, UpdatedType DEF Updated, CustomResource
  <2>3. cr' = Persisted(Updated(o)) /\ Persisted(Updated(o)) = Updated(o)
    BY <1>4, <2>1, <2>2 DEF Store, Persisted
  <2>4. /\ cr' \in CustomResource \cup {Nil}
        /\ backlog' \in Seq(CustomResource \cup {Nil})
    BY <1>4, <2>2, StoreType DEF IInv
  <2> QED
    BY <1>1, <1>2, <1>4, <2>1, <2>2, <2>3, <2>4, StoreKeepsGuards
<1>5. CASE /\ Writable /\ Store(Updated(o))
           /\ obj' = Updated(o) /\ fresh' = TRUE
           /\ GoTo("lookup") /\ UNCHANGED <<queue, faults>>
  <2>1. /\ pc' = "lookup" /\ u' = u /\ un' = un /\ result' = result
        /\ dirty' = dirty /\ delayed' = delayed /\ faults' = faults
        /\ obj' = Updated(o) /\ fresh' = TRUE
    BY <1>5 DEF GoTo, queue
  <2>2. fresh' \in BOOLEAN /\ pc' \in Steps
    BY <2>1 DEF Steps
  <2>3. TypeOK'
    BY <1>1, <1>3, <1>4, <1>5, <2>1, <2>2 DEF IInv, TypeOK
  <2>4. OldCopy(Updated(o))
    BY <1>4, <1>5, FreshCopy, SameAge
  <2>5. obj' # Nil /\ OldCopy(obj)'
    BY <1>4, <1>5, <2>1, <2>4, AbsentAssumption DEF OldCopy
  <2>6. CopyIsOld'
    BY <1>4, <1>5, <2>1, <2>5 DEF CopyIsOld
  <2>7. WorkerInStep'
    BY <1>1, <1>4, <1>5, <2>1, <2>5, FreshCopy
    DEF WorkerInStep, Acting, Guards
  <2> QED
    BY <1>4, <1>5, <2>3, <2>6, <2>7 DEF IInv
<1>6. CASE Return("error") /\ UNCHANGED <<cr, backlog>> /\ faults' \in Nat
  <2>1. VersionsInOrder' /\ ReleaseIsOwned'
    BY <1>1, <1>6
    DEF IInv, VersionsInOrder, Credible, Guards, ReleaseIsOwned
  <2>2. cr' \in CustomResource \cup {Nil}
        /\ backlog' \in Seq(CustomResource \cup {Nil})
    BY <1>6 DEF IInv, TypeOK
  <2> QED
    BY <1>1, <1>3, <1>6, <2>1, <2>2, ReturnStep
<1>7. CASE Writable /\ Store(Updated(o)) /\ Return("error") /\ faults' \in Nat
  BY <1>1, <1>3, <1>4, <1>7, ReturnStep
<1>8. \/ /\ Writable /\ Store(Updated(o))
         /\ obj' = Updated(o) /\ fresh' = TRUE
         /\ GoTo("lookup") /\ UNCHANGED <<queue, faults>>
      \/ Return("error") /\ UNCHANGED <<cr, backlog>> /\ faults' \in Nat
      \/ Writable /\ Store(Updated(o)) /\ Return("error") /\ faults' \in Nat
  <2>1. (\E k : Fault(k)) => faults' \in Nat
    BY FaultType DEF IInv
  <2>2. faults \in Nat
    BY DEF IInv, TypeOK
  <2> QED
    BY <2>1, <2>2 DEF AddFinalizer
<1> QED
  BY <1>5, <1>6, <1>7, <1>8

LEMMA LookupSteps ==
    IInv /\ (Pause \/ ActionClientFails \/ LookupRelease) => IInv'
<1> SUFFICES ASSUME IInv, Pause \/ ActionClientFails \/ LookupRelease
             PROVE  IInv'
  OBVIOUS
<1>1. /\ pc = "lookup" /\ rel' = rel /\ drift' = drift /\ un' = un
      /\ UNCHANGED <<api, cache, queue, obj, fresh, edits>>
  BY DEF Pause, ActionClientFails, LookupRelease, Leave, helm, budget
<1>2. /\ rel' \in Release \cup {Nil} /\ drift' \in BOOLEAN /\ faults' \in Nat
  <2>1. (\E k : Fault(k)) \/ faults' = faults
    BY DEF Pause, ActionClientFails, LookupRelease, budget
  <2> QED
    BY <1>1, <2>1, FaultType DEF IInv, TypeOK
<1>3. ReleaseIsOwned'
  BY <1>1, SameRelease
<1>4. u \in Updates /\ Nil \in Values /\ rel \in Release \cup {Nil}
  BY DEF IInv, TypeOK, Values
<1>5. Unpaused \in Updates
  BY <1>4, EnsureType, ConditionsAreValues, ReasonTypes, FieldTypes DEF Unpaused
<1>6. CASE Pause
  <2>1. Ensure(u, "Paused", True("PauseReconcileAnnotationTrue")) \in Updates
    BY <1>4, EnsureType, ConditionsAreValues, ReasonTypes, FieldTypes
  <2>2. EnsureDeployedRelease(
          EnsureUnknown(
            Ensure(u, "Paused", True("PauseReconcileAnnotationTrue")),
            ConditionTypes \ {"Paused"}), Nil) \in Updates
    BY <1>4, <2>1, EnsureUnknownType, EnsureType, FieldTypes
    DEF EnsureDeployedRelease
  <2> QED
    BY <1>1, <1>2, <1>3, <1>6, <2>2, LeaveStep DEF Pause
<1>7. CASE ActionClientFails
  <2>1. Ensure(Unpaused, "Irreconcilable", True("ErrorGettingClient")) \in Updates
    BY <1>5, EnsureType, ConditionsAreValues, ReasonTypes, FieldTypes
  <2>2. EnsureDeployedRelease(
          EnsureUnknown(
            Ensure(Unpaused, "Irreconcilable", True("ErrorGettingClient")),
            {"Deployed", "Initialized", "ReleaseFailed"}), Nil) \in Updates
    BY <1>4, <2>1, EnsureUnknownType, EnsureType, FieldTypes
    DEF EnsureDeployedRelease
  <2> QED
    BY <1>1, <1>2, <1>3, <1>7, <2>2, LeaveStep DEF ActionClientFails
<1>8. CASE LookupRelease
  <2>1. u' \in Updates
    <3>1. Ensure(Unpaused, "Deployed", False("")) \in Updates
      BY <1>5, EnsureType, ConditionsAreValues, ReasonTypes, FieldTypes
    <3>2. rel # Nil => Deployed(Unpaused, rel) \in Updates
      BY <1>4, <1>5, DeployedType
    <3>3. PICK w \in Updates : u' = Ensure(w, "Initialized", True(""))
      BY <1>5, <1>8, <3>1, <3>2 DEF LookupRelease
    <3> QED
      BY <3>3, EnsureType, ConditionsAreValues, ReasonTypes, FieldTypes
  <2>2. /\ result' = result /\ obj' = obj /\ obj # Nil
        /\ pc' \in {"releaseState", "uninstall", "waitForDeletion"}
        /\ pc' = "releaseState" => ~obj.deleting
        /\ pc' = "uninstall" => obj.deleting
    BY <1>8 DEF LookupRelease, IInv, WorkerInStep
  <2>3. pc' \in Steps
    BY <2>2 DEF Steps
  <2>4. WorkerInStep'
    <3>1. pc' = "releaseState" => Guards(obj)
      BY <1>1, <2>2 DEF IInv, WorkerInStep, Acting
    <3>2. cr' = cr
      BY <1>1 DEF api
    <3> QED
      BY <2>2, <3>1, <3>2 DEF WorkerInStep, Acting, Guards
  <2>5. un' \in Updates /\ result' \in {"none", "done", "requeue", "error"}
    BY <1>1, <2>2 DEF IInv, TypeOK
  <2> QED
    BY <1>1, <1>2, <1>3, <2>1, <2>3, <2>4, <2>5, LocalStep
<1> QED
  BY <1>6, <1>7, <1>8

LEMMA ReleaseStateSteps ==
    IInv /\ (GetValuesFails \/ ReleaseStateFails \/ GetReleaseState) => IInv'
<1> SUFFICES ASSUME IInv, GetValuesFails \/ ReleaseStateFails \/ GetReleaseState
             PROVE  IInv'
  OBVIOUS
<1>1. /\ pc = "releaseState" /\ rel' = rel /\ drift' = drift /\ un' = un
      /\ UNCHANGED <<api, cache, queue, obj, fresh, edits>>
  BY DEF GetValuesFails, ReleaseStateFails, GetReleaseState, Leave, helm, budget
<1>2. /\ rel' \in Release \cup {Nil} /\ drift' \in BOOLEAN /\ faults' \in Nat
  <2>1. (\E k : Fault(k)) \/ faults' = faults
    BY DEF GetValuesFails, ReleaseStateFails, GetReleaseState, budget
  <2> QED
    BY <1>1, <2>1, FaultType DEF IInv, TypeOK
<1>3. ReleaseIsOwned'
  BY <1>1, SameRelease
<1>4. u \in Updates /\ Nil \in Values
  BY DEF IInv, TypeOK, Values
<1>5. CASE GetValuesFails
  <2>1. EnsureUnknown(
          Ensure(u, "Irreconcilable", True("ErrorGettingValues")),
          {"ReleaseFailed"}) \in Updates
    BY <1>4, EnsureUnknownType, EnsureType, ConditionsAreValues, ReasonTypes,
       FieldTypes
  <2> QED
    BY <1>1, <1>2, <1>3, <1>5, <2>1, LeaveStep DEF GetValuesFails
<1>6. CASE ReleaseStateFails
  <2>1. EnsureUnknown(
          Ensure(u, "Irreconcilable", True("ErrorGettingReleaseState")),
          {"ReleaseFailed", "Deployed"}) \in Updates
    BY <1>4, EnsureUnknownType, EnsureType, ConditionsAreValues, ReasonTypes,
       FieldTypes
  <2>2. EnsureDeployedRelease(
          EnsureUnknown(
            Ensure(u, "Irreconcilable", True("ErrorGettingReleaseState")),
            {"ReleaseFailed", "Deployed"}), Nil) \in Updates
    BY <1>4, <2>1, EnsureType, FieldTypes DEF EnsureDeployedRelease
  <2> QED
    BY <1>1, <1>2, <1>3, <1>6, <2>2, LeaveStep DEF ReleaseStateFails
<1>7. CASE GetReleaseState
  <2>1. u' \in Updates
    BY <1>4, <1>7, EnsureType, ConditionsAreValues, ReasonTypes, FieldTypes
    DEF GetReleaseState
  <2>2. /\ result' = result /\ obj' = obj /\ obj # Nil /\ ~obj.deleting
        /\ Guards(obj) /\ cr' = cr
        /\ pc' \in {"install", "upgrade", "reconcile"}
        /\ pc' \in {"upgrade", "reconcile"} => rel # Nil
    BY <1>1, <1>7 DEF GetReleaseState, IInv, WorkerInStep, Acting, api
  <2>3. pc' \in Steps
    BY <2>2 DEF Steps
  <2>4. WorkerInStep'
    BY <1>1, <2>2 DEF WorkerInStep, Acting, Guards
  <2>5. un' \in Updates /\ result' \in {"none", "done", "requeue", "error"}
    BY <1>1, <2>2 DEF IInv, TypeOK
  <2> QED
    BY <1>1, <1>2, <1>3, <2>1, <2>3, <2>4, <2>5, LocalStep
<1> QED
  BY <1>5, <1>6, <1>7

(* The revisions that an installation or an upgrade records.               *)
LEMMA RevisionType ==
    ASSUME IInv, pc # "idle", NEW st \in {"deployed", "failed", "pending"},
           NEW m \in Manifests \cup {Nil}
    PROVE  /\ Revision(st, m) \in Release /\ Revision(st, m) # Nil
           /\ Revision(st, m).owner = obj.uid
           /\ Revision(st, m).previous = m
<1>1. obj \in CustomResource
  BY DEF IInv, TypeOK, WorkerInStep
<1>2. Revision(st, m) \in Release
  BY <1>1 DEF Revision, Release, CustomResource
<1> QED
  BY <1>2, AbsentAssumption DEF Revision

LEMMA InstallStep == IInv /\ Install => IInv'
<1> SUFFICES ASSUME IInv, Install PROVE IInv'
  OBVIOUS
<1>1. /\ pc = "install" /\ pc # "idle" /\ Acting /\ obj # Nil
      /\ UNCHANGED <<api, cache, queue, obj, fresh, edits>>
      /\ ~obj.deleting /\ Guards(obj) /\ cr' = cr /\ obj' = obj
  BY DEF Install, IInv, WorkerInStep, Acting, api
<1>2. /\ u \in Updates /\ un \in Updates /\ drift \in BOOLEAN
      /\ rel \in Release \cup {Nil}
      /\ result \in {"none", "done", "requeue", "error"}
      /\ FALSE \in BOOLEAN
  BY DEF IInv, TypeOK
<1>3. faults' \in Nat
  <2>1. (\E k : Fault(k)) \/ faults' = faults
    BY DEF Install
  <2> QED
    BY <2>1, FaultType DEF IInv, TypeOK
<1>4. ActionFailed(u, "InstallError") \in Updates
  BY <1>2, ActionFailedType, ReasonTypes
<1>5. CASE rel' = Revision("deployed", Nil) /\ drift' = FALSE
           /\ Leave(Succeeded(u, rel'), "requeue")
  <2>1. rel' \in Release /\ rel'.owner = obj.uid
    BY <1>1, <1>5, RevisionType
  <2>2. Succeeded(u, rel') \in Updates
    BY <1>2, <2>1, SucceededType
  <2>3. ReleaseIsOwned'
    BY <1>1, <2>1, SameRelease
  <2>4. drift' \in BOOLEAN
    BY <1>5
  <2> DEFINE w == Succeeded(u, rel')
  <2> QED
    BY <1>1, <1>3, <1>5, <2>1, <2>2, <2>3, <2>4, LeaveStep
<1>6. CASE Leave(ActionFailed(u, "InstallError"), "error") /\ UNCHANGED helm
  <2>1. rel' = rel /\ drift' = drift
    BY <1>6 DEF helm
  <2>2. ReleaseIsOwned'
    BY <1>1, <2>1, SameRelease
  <2> QED
    BY <1>1, <1>2, <1>3, <1>4, <1>6, <2>1, <2>2, LeaveStep
<1>7. CASE rel' = Revision("failed", Nil) /\ UNCHANGED drift
  <2>1. rel' \in Release /\ rel' # Nil /\ rel'.owner = obj.uid
    BY <1>1, <1>7, RevisionType
  <2>2. ReleaseIsOwned' /\ drift' \in BOOLEAN
    BY <1>1, <1>2, <1>7, <2>1, SameRelease
  <2>3. CASE GoTo("cleanup")
    <3>1. pc' = "cleanup" /\ u' = u /\ un' = un /\ result' = result
      BY <2>3 DEF GoTo
    <3>2. WorkerInStep'
      BY <1>1, <2>1, <3>1 DEF WorkerInStep, Acting, Guards
    <3>3. pc' \in Steps
      BY <3>1 DEF Steps
    <3> QED
      BY <1>1, <1>2, <1>3, <2>1, <2>2, <3>1, <3>2, <3>3, LocalStep
  <2>4. CASE Leave(ActionFailed(u, "InstallError"), "error")
    BY <1>1, <1>3, <1>4, <2>1, <2>2, <2>4, LeaveStep
  <2>5. GoTo("cleanup") \/ Leave(ActionFailed(u, "InstallError"), "error")
        \/ (rel' = Revision("deployed", Nil) /\ drift' = FALSE
            /\ Leave(Succeeded(u, rel'), "requeue"))
        \/ (Leave(ActionFailed(u, "InstallError"), "error") /\ UNCHANGED helm)
    BY DEF Install
  <2> QED
    BY <1>5, <1>6, <2>3, <2>4, <2>5
<1> QED
  BY <1>5, <1>6, <1>7 DEF Install

LEMMA UpgradeStep == IInv /\ Upgrade => IInv'
<1> SUFFICES ASSUME IInv, Upgrade PROVE IInv'
  OBVIOUS
<1>1. /\ pc = "upgrade" /\ pc # "idle" /\ Acting /\ obj # Nil
      /\ UNCHANGED <<api, cache, queue, obj, fresh, edits>>
      /\ ~obj.deleting /\ Guards(obj) /\ cr' = cr /\ obj' = obj
  BY DEF Upgrade, IInv, WorkerInStep, Acting, api
<1>2. /\ u \in Updates /\ un \in Updates /\ drift \in BOOLEAN
      /\ rel \in Release /\ rel.manifest \in Manifests
      /\ result \in {"none", "done", "requeue", "error"}
  BY <1>1 DEF IInv, TypeOK, WorkerInStep, Release
<1>3. faults' \in Nat
  <2>1. (\E k : Fault(k)) \/ faults' = faults
    BY DEF Upgrade
  <2> QED
    BY <2>1, FaultType DEF IInv, TypeOK
<1>4. ActionFailed(u, "UpgradeError") \in Updates
  BY <1>2, ActionFailedType, ReasonTypes
<1>5. CASE /\ \/ Leave(u, "error")
              \/ Leave(ActionFailed(u, "UpgradeError"), "error")
           /\ UNCHANGED helm
  <2>1. rel' = rel /\ drift' = drift
    BY <1>5 DEF helm
  <2>2. ReleaseIsOwned'
    BY <1>1, <2>1, SameRelease
  <2> QED
    BY <1>1, <1>2, <1>3, <1>4, <1>5, <2>1, <2>2, LeaveStep
<1>6. CASE rel' = Revision("deployed", Nil) /\ drift' = FALSE
           /\ Leave(Succeeded(u, rel'), "requeue")
  <2>1. rel' \in Release /\ rel'.owner = obj.uid
    BY <1>1, <1>6, RevisionType
  <2>2. Succeeded(u, rel') \in Updates
    BY <1>2, <2>1, SucceededType
  <2>3. ReleaseIsOwned' /\ drift' \in BOOLEAN
    BY <1>1, <1>6, <2>1, SameRelease
  <2> QED
    BY <1>1, <1>3, <1>6, <2>1, <2>2, <2>3, LeaveStep
<1>7. CASE /\ rel' = Revision("failed", Nil) /\ UNCHANGED drift
           /\ Leave(ActionFailed(u, "UpgradeError"), "error")
  <2>1. rel' \in Release /\ rel'.owner = obj.uid
    BY <1>1, <1>7, RevisionType
  <2>2. ReleaseIsOwned' /\ drift' \in BOOLEAN
    BY <1>1, <1>2, <1>7, <2>1, SameRelease
  <2> QED
    BY <1>1, <1>3, <1>4, <1>7, <2>1, <2>2, LeaveStep
<1>8. CASE rel' = Revision("failed", rel.manifest) /\ GoTo("rollback")
           /\ UNCHANGED drift
  <2>1. /\ rel' \in Release /\ rel'.owner = obj.uid /\ rel' # Nil
        /\ rel'.previous = rel.manifest /\ rel'.previous # Nil
    BY <1>1, <1>2, <1>8, RevisionType, NilAssumption
  <2>2. ReleaseIsOwned' /\ drift' \in BOOLEAN
    BY <1>1, <1>2, <1>8, <2>1, SameRelease
  <2>3. pc' = "rollback" /\ u' = u /\ un' = un /\ result' = result
    BY <1>8 DEF GoTo
  <2>4. WorkerInStep'
    BY <1>1, <2>1, <2>3 DEF WorkerInStep, Acting, Guards
  <2>5. pc' \in Steps
    BY <2>3 DEF Steps
  <2> QED
    BY <1>1, <1>2, <1>3, <2>1, <2>2, <2>3, <2>4, <2>5, LocalStep
<1> QED
  BY <1>5, <1>6, <1>7, <1>8 DEF Upgrade

LEMMA RepairSteps ==
    IInv /\ (CleanUpInstall \/ RollBackUpgrade \/ ReconcileRelease) => IInv'
<1> SUFFICES ASSUME IInv, CleanUpInstall \/ RollBackUpgrade \/ ReconcileRelease
             PROVE  IInv'
  OBVIOUS
<1>1. /\ pc \in {"cleanup", "rollback", "reconcile"} /\ pc # "idle"
      /\ UNCHANGED <<api, cache, queue, obj, fresh, edits>>
      /\ pc = "rollback" => rel.previous # Nil
  BY DEF CleanUpInstall, RollBackUpgrade, ReconcileRelease, IInv, WorkerInStep
<1>2. /\ u \in Updates /\ rel \in Release /\ rel # Nil
      /\ pc = "rollback" => rel.previous \in Manifests
  BY <1>1 DEF IInv, TypeOK, WorkerInStep, Release
<1>3. faults' \in Nat
  <2>1. (\E k : Fault(k)) \/ faults' = faults
    BY DEF CleanUpInstall, RollBackUpgrade, ReconcileRelease
  <2> QED
    BY <2>1, FaultType DEF IInv, TypeOK
<1>4. drift' \in BOOLEAN
  <2>1. drift' = FALSE \/ drift' = drift
    BY DEF CleanUpInstall, RollBackUpgrade, ReconcileRelease
  <2> QED
    BY <2>1 DEF IInv, TypeOK
<1>5. ActionFailed(u, "InstallError") \in Updates
      /\ ActionFailed(u, "UpgradeError") \in Updates
  BY <1>2, ActionFailedType, ReasonTypes
<1>6. CASE CleanUpInstall
  <2>1. /\ Leave(ActionFailed(u, "InstallError"), "error")
        /\ \/ rel' = Nil
           \/ \E st \in {rel.status, "uninstalling"} :
                 rel' = [rel EXCEPT !.status = st]
    BY <1>6 DEF CleanUpInstall
  <2>2. rel' \in Release \cup {Nil} /\ (rel' = Nil \/ rel'.owner = rel.owner)
    BY <1>2, <2>1 DEF Release
  <2>3. ReleaseIsOwned'
    BY <1>1, <1>2, <2>2, SameRelease
  <2> QED
    BY <1>1, <1>3, <1>4, <1>5, <2>1, <2>2, <2>3, LeaveStep
<1>7. CASE RollBackUpgrade
  <2>1. /\ Leave(ActionFailed(u, "UpgradeError"), "error") /\ pc = "rollback"
        /\ \/ rel' = [rel EXCEPT !.status = "deployed",
                                 !.manifest = rel.previous, !.previous = Nil]
           \/ \E m \in {rel.manifest, rel.previous} :
                 rel' = [rel EXCEPT !.manifest = m, !.previous = Nil]
    BY <1>7 DEF RollBackUpgrade
  <2>2. rel' \in Release \cup {Nil} /\ rel'.owner = rel.owner
    BY <1>2, <2>1 DEF Release
  <2>3. ReleaseIsOwned'
    BY <1>1, <1>2, <2>2, SameRelease
  <2> QED
    BY <1>1, <1>3, <1>4, <1>5, <2>1, <2>2, <2>3, LeaveStep
<1>8. CASE ReconcileRelease
  <2> DEFINE n == Ensure(u, "ReleaseFailed", False(""))
  <2>1. n \in Updates
    BY <1>2, EnsureType, ConditionsAreValues, ReasonTypes, FieldTypes
  <2>2. Succeeded(n, rel) \in Updates
        /\ Ensure(n, "Irreconcilable", True("ReconcileError")) \in Updates
    BY <1>2, <2>1, SucceededType, EnsureType, ConditionsAreValues, ReasonTypes,
       FieldTypes
  <2>3. rel' = rel /\ ReleaseIsOwned'
    BY <1>1, <1>8, SameRelease DEF ReconcileRelease
  <2>4. \/ Leave(Succeeded(n, rel), "requeue")
        \/ Leave(Ensure(n, "Irreconcilable", True("ReconcileError")), "error")
    BY <1>8 DEF ReconcileRelease
  <2> HIDE DEF n
  <2> QED
    BY <1>1, <1>2, <1>3, <1>4, <2>2, <2>3, <2>4, LeaveStep
<1> QED
  BY <1>6, <1>7, <1>8

LEMMA UninstallStep == IInv /\ Uninstall => IInv'
<1> SUFFICES ASSUME IInv, Uninstall PROVE IInv'
  OBVIOUS
<1>1. /\ pc = "uninstall" /\ pc' = "applyUninstall" /\ u' = u
      /\ UNCHANGED <<api, cache, queue, obj, fresh, edits>>
      /\ obj # Nil /\ obj.deleting /\ obj' = obj
  BY DEF Uninstall, IInv, WorkerInStep
<1>2. /\ u' \in Updates /\ un \in Updates /\ rel \in Release \cup {Nil}
      /\ pc' \in Steps /\ Nil \in Values
  BY <1>1 DEF IInv, TypeOK, Steps, Values
<1>3. faults' \in Nat /\ drift' \in BOOLEAN
  <2>1. (\E k : Fault(k)) \/ faults' = faults
    BY DEF Uninstall
  <2>2. drift' = FALSE \/ drift' = drift
    BY DEF Uninstall
  <2> QED
    BY <2>1, <2>2, FaultType DEF IInv, TypeOK
<1>4. un' \in Updates
  <2>1. ActionFailed(un, "UninstallError") \in Updates
    BY <1>2, ActionFailedType, ReasonTypes
  <2>2. Ensure(un, "ReleaseFailed", False("")) \in Updates
    BY <1>2, EnsureType, ConditionsAreValues, ReasonTypes, FieldTypes
  <2>3. Ensure(Ensure(un, "ReleaseFailed", False("")),
               "Deployed", False("UninstallSuccessful")) \in Updates
    BY <2>2, EnsureType, ConditionsAreValues, ReasonTypes, FieldTypes
  <2>4. EnsureDeployedRelease(
          Ensure(Ensure(un, "ReleaseFailed", False("")),
                 "Deployed", False("UninstallSuccessful")), Nil) \in Updates
    BY <1>2, <2>3, EnsureType, FieldTypes DEF EnsureDeployedRelease
  <2> QED
    BY <2>1, <2>4 DEF Uninstall
<1>5. /\ rel' = Nil /\ result' = "done"
      \/ /\ result' = "error" /\ rel # Nil
         /\ \/ rel' = Nil
            \/ \E st \in {rel.status, "uninstalling"} :
                  rel' = [rel EXCEPT !.status = st]
  BY DEF Uninstall
<1>6. /\ rel' \in Release \cup {Nil}
      /\ rel' = Nil \/ (rel # Nil /\ rel'.owner = rel.owner)
      /\ result' \in {"none", "done", "requeue", "error"}
      /\ rel' = Nil \/ result' = "error"
  BY <1>2, <1>5 DEF Release
<1>7. ReleaseIsOwned'
  BY <1>1, <1>6, SameRelease
<1>8. WorkerInStep'
  BY <1>1, <1>6 DEF WorkerInStep, Acting
<1> QED
  BY <1>1, <1>2, <1>3, <1>4, <1>6, <1>7, <1>8, LocalStep

(* Writing the status of a current copy.                                   *)
LEMMA StatusWrite ==
    ASSUME IInv, Writable, NEW o \in CustomResource, StoreStatus(o),
           cache' = cache, born' = born, rel' = rel
    PROVE  /\ VersionsInOrder' /\ ReleaseIsOwned'
           /\ cr' \in CustomResource /\ cr' # Nil
           /\ backlog' \in Seq(CustomResource \cup {Nil})
           /\ StatusUpdated(o) \in CustomResource /\ cr' = StatusUpdated(o)
           /\ cr'.uid = cr.uid /\ cr'.deleting = cr.deleting
           /\ \A c \in CustomResource : OldCopy(c) => OldCopy(c)'
<1> DEFINE v == StatusUpdated(o)
<1>1. cr \in CustomResource /\ cr # Nil /\ Persisted(cr) = cr
  BY FreshCopy DEF Writable, IInv, VersionsInOrder
<1>2. /\ v \in CustomResource /\ v.uid = cr.uid /\ v.deleting = cr.deleting
      /\ v.finalizers = cr.finalizers
  BY <1>1, UpdatedType DEF StatusUpdated, CustomResource
<1>3. Persisted(v) = v /\ v # Nil
  BY <1>1, <1>2, AbsentAssumption DEF Persisted
<1> HIDE DEF v
<1>4. CASE Store(v)
  <2>1. cr' = v
    BY <1>3, <1>4 DEF Store
  <2>2. backlog' \in Seq(CustomResource \cup {Nil})
    BY <1>2, <1>4, StoreType DEF IInv
  <2>3. /\ VersionsInOrder' /\ ReleaseIsOwned'
        /\ \A c \in CustomResource : OldCopy(c) => OldCopy(c)'
    BY <1>1, <1>2, <1>4, StoreKeepsGuards
  <2> QED
    BY <1>2, <1>3, <2>1, <2>2, <2>3 DEF v
<1>5. CASE v = cr /\ UNCHANGED <<cr, backlog>>
  <2>1. cr' = cr /\ backlog' = backlog
    BY <1>5
  <2>2. VersionsInOrder' /\ ReleaseIsOwned'
    BY <2>1 DEF IInv, VersionsInOrder, Credible, Guards, ReleaseIsOwned
  <2>3. \A c \in CustomResource : OldCopy(c) => OldCopy(c)'
    BY <2>1 DEF OldCopy
  <2> QED
    BY <1>1, <1>2, <1>5, <2>1, <2>2, <2>3 DEF IInv, TypeOK, v
<1> QED
  BY <1>4, <1>5 DEF StoreStatus, v

(* Nothing is stored.                                                      *)
LEMMA NothingStored ==
    ASSUME IInv, UNCHANGED <<cr, born, backlog, cache, rel>>
    PROVE  /\ VersionsInOrder' /\ ReleaseIsOwned'
           /\ cr' \in CustomResource \cup {Nil}
           /\ backlog' \in Seq(CustomResource \cup {Nil})
           /\ \A c \in CustomResource : OldCopy(c) => OldCopy(c)'
<1>1. /\ cr' = cr /\ born' = born /\ backlog' = backlog /\ cache' = cache
      /\ rel' = rel
  OBVIOUS
<1> QED
  BY <1>1 DEF IInv, TypeOK, VersionsInOrder, Credible, Guards, OldCopy,
     ReleaseIsOwned

LEMMA ApplyStep == IInv /\ Apply => IInv'
<1> SUFFICES ASSUME IInv, Apply PROVE IInv'
  OBVIOUS
<1> DEFINE o == [obj EXCEPT !.status = Applied(u, obj.status)]
<1>1. /\ pc = "apply" /\ born' = born /\ cache' = cache /\ rel' = rel
      /\ drift' = drift /\ edits' = edits
      /\ obj \in CustomResource /\ u \in Updates
  BY DEF Apply, helm, IInv, TypeOK, WorkerInStep
<1>2. o \in CustomResource
  <2>1. Applied(u, obj.status) \in Status
    BY <1>1, AppliedType DEF CustomResource
  <2> QED
    BY <1>1, <2>1 DEF CustomResource
<1>3. drift' \in BOOLEAN /\ born' \in Nat /\ faults' \in Nat
  <2>1. (\E k : Fault(k)) \/ faults' = faults
    BY DEF Apply
  <2> QED
    BY <1>1, <2>1, FaultType DEF IInv, TypeOK
<1>4. PICK res : Return(res)
  BY DEF Apply
<1>5. (Writable /\ StoreStatus(o)) \/ UNCHANGED <<cr, backlog>>
  BY DEF Apply, StoreStatus
<1>6. CASE Writable /\ StoreStatus(o)
  BY <1>1, <1>2, <1>3, <1>4, <1>6, StatusWrite, ReturnStep
<1>7. CASE UNCHANGED <<cr, backlog>>
  BY <1>1, <1>3, <1>4, <1>7, NothingStored, ReturnStep
<1> QED
  BY <1>5, <1>6, <1>7

LEMMA WaitStep == IInv /\ WaitForDeletion => IInv'
<1> SUFFICES ASSUME IInv, WaitForDeletion PROVE IInv'
  OBVIOUS
<1>1. /\ cr' = cr /\ born' = born /\ backlog' = backlog /\ cache' = cache
      /\ rel' = rel /\ drift' = drift /\ edits' = edits /\ faults' = faults
  BY DEF WaitForDeletion, api, helm, budget
<1>2. /\ VersionsInOrder' /\ ReleaseIsOwned'
      /\ cr' \in CustomResource \cup {Nil}
      /\ backlog' \in Seq(CustomResource \cup {Nil})
  BY <1>1, NothingStored
<1>3. drift' \in BOOLEAN /\ born' \in Nat /\ faults' \in Nat
  BY <1>1 DEF IInv, TypeOK
<1>4. CASE Return("done")
  BY <1>1, <1>2, <1>3, <1>4, ReturnStep
<1>5. CASE /\ cache # Nil /\ obj' = cache /\ fresh' = (backlog = <<>>)
           /\ Leave(u, "error") /\ UNCHANGED queue
  <2>1. /\ pc' = "apply" /\ u' = u /\ un' = un /\ result' = "error"
        /\ dirty' = dirty /\ delayed' = delayed
    BY <1>5 DEF Leave, queue
  <2>2. fresh' \in BOOLEAN /\ pc' \in Steps
    BY <1>5, <2>1 DEF Steps
  <2>3. TypeOK'
    BY <1>1, <1>5, <2>1, <2>2 DEF IInv, TypeOK
  <2>4. CopyIsOld'
    BY <1>1, <1>5, CachedCopy DEF CopyIsOld, OldCopy
  <2>5. WorkerInStep'
    BY <1>5, <2>1 DEF WorkerInStep, Acting
  <2> QED
    BY <1>2, <2>3, <2>4, <2>5 DEF IInv
<1> QED
  BY <1>4, <1>5 DEF WaitForDeletion

LEMMA ApplyUninstallStep == IInv /\ ApplyUninstall => IInv'
<1> SUFFICES ASSUME IInv, ApplyUninstall PROVE IInv'
  OBVIOUS
<1> DEFINE o == [obj EXCEPT !.status = Applied(un, obj.status)]
           next == IF result = "error" THEN "apply" ELSE "removeFinalizer"
<1>1. /\ pc = "applyUninstall" /\ born' = born /\ cache' = cache /\ rel' = rel
      /\ drift' = drift /\ edits' = edits /\ u' = u
      /\ dirty' = dirty /\ delayed' = delayed
      /\ obj \in CustomResource /\ obj # Nil /\ obj.deleting
      /\ u \in Updates /\ un \in Updates /\ OldCopy(obj)
      /\ rel = Nil \/ result = "error"
  BY DEF ApplyUninstall, helm, queue, IInv, TypeOK, WorkerInStep, CopyIsOld
<1>2. /\ o \in CustomResource /\ o.uid = obj.uid /\ o.deleting = obj.deleting
      /\ o # Nil
  <2>1. Applied(un, obj.status) \in Status
    BY <1>1, AppliedType DEF CustomResource
  <2> QED
    BY <1>1, <2>1, AbsentAssumption DEF CustomResource
<1>3. /\ drift' \in BOOLEAN /\ born' \in Nat /\ faults' \in Nat
      /\ dirty' \in BOOLEAN
  <2>1. (\E k : Fault(k)) \/ faults' = faults
    BY DEF ApplyUninstall
  <2> QED
    BY <1>1, <2>1, FaultType DEF IInv, TypeOK
<1>4. /\ un' \in Updates
      /\ pc' = "apply" \/ (pc' = next /\ result' = result)
      /\ result' \in {result, "error"}
  BY <1>1, NoUpdatesType DEF ApplyUninstall
<1>5. pc' \in Steps /\ result' \in {"none", "done", "requeue", "error"}
  BY <1>4 DEF Steps, IInv, TypeOK
<1>6. ASSUME obj' \in CustomResource, obj' # Nil, obj'.deleting
      PROVE  WorkerInStep'
  BY <1>1, <1>4, <1>6 DEF WorkerInStep, Acting
<1> HIDE DEF o, next
<1>7. CASE /\ UNCHANGED <<cr, backlog, fresh>> /\ obj' \in {obj, o}
  <2>1. /\ VersionsInOrder' /\ ReleaseIsOwned'
        /\ cr' \in CustomResource \cup {Nil}
        /\ backlog' \in Seq(CustomResource \cup {Nil})
        /\ \A c \in CustomResource : OldCopy(c) => OldCopy(c)'
    BY <1>1, <1>7, NothingStored
  <2>2. obj' \in CustomResource /\ obj' # Nil /\ obj'.deleting
        /\ obj'.uid = obj.uid /\ obj'.deleting = obj.deleting
    BY <1>1, <1>2, <1>7
  <2>3. OldCopy(obj')
    BY <1>1, <2>2, SameAge
  <2>4. OldCopy(obj)'
    BY <2>1, <2>2, <2>3 DEF OldCopy
  <2>5. fresh' \in BOOLEAN
    BY <1>7 DEF IInv, TypeOK
  <2>6. CopyIsOld'
    BY <1>7, <2>2, <2>4 DEF IInv, CopyIsOld
  <2>7. TypeOK'
    BY <1>1, <1>3, <1>4, <1>5, <2>1, <2>2, <2>5 DEF IInv, TypeOK
  <2> QED
    BY <1>6, <2>1, <2>2, <2>6, <2>7 DEF IInv
<1>8. CASE /\ Writable /\ StoreStatus(o) /\ fresh' \in {TRUE, FALSE}
           /\ obj' \in {StatusUpdated(o), o}
  <2>1. /\ VersionsInOrder' /\ ReleaseIsOwned'
        /\ cr' \in CustomResource /\ cr' # Nil
        /\ backlog' \in Seq(CustomResource \cup {Nil})
        /\ StatusUpdated(o) \in CustomResource /\ cr' = StatusUpdated(o)
        /\ cr'.uid = cr.uid /\ cr'.deleting = cr.deleting
        /\ \A c \in CustomResource : OldCopy(c) => OldCopy(c)'
    BY <1>1, <1>2, <1>8, StatusWrite
  <2>2. obj.uid = cr.uid /\ obj.deleting = cr.deleting
    BY <1>8, FreshCopy
  <2>3. /\ obj' \in CustomResource /\ obj' # Nil /\ obj'.deleting
        /\ obj'.uid = obj.uid /\ obj'.deleting = obj.deleting
        /\ obj'.uid = cr'.uid /\ obj'.deleting = cr'.deleting
    BY <1>1, <1>2, <1>8, <2>1, <2>2
  <2>4. OldCopy(obj')
    BY <1>1, <2>3, SameAge
  <2>5. OldCopy(obj)'
    BY <2>1, <2>3, <2>4 DEF OldCopy
  <2>6. CopyIsOld'
    BY <2>1, <2>3, <2>5 DEF CopyIsOld
  <2>7. fresh' \in BOOLEAN
    BY <1>8
  <2>8. TypeOK'
    BY <1>1, <1>3, <1>4, <1>5, <2>1, <2>3, <2>7 DEF IInv, TypeOK
  <2> QED
    BY <1>6, <2>1, <2>3, <2>6, <2>8 DEF IInv
<1>9. \/ UNCHANGED <<cr, backlog, fresh>> /\ obj' \in {obj, o}
      \/ /\ Writable /\ StoreStatus(o) /\ fresh' \in {TRUE, FALSE}
         /\ obj' \in {StatusUpdated(o), o}
  BY DEF ApplyUninstall, StoreStatus, o
<1> QED
  BY <1>7, <1>8, <1>9

(* The write that gives the CR free.                                       *)
LEMMA FinalizerRemoved ==
    ASSUME IInv, pc = "removeFinalizer", Writable, cache' = cache, born' = born,
           rel' = rel,
           NEW o \in CustomResource, Store(Updated(o))
    PROVE  /\ VersionsInOrder' /\ ReleaseIsOwned'
           /\ cr' \in {Updated(o), Nil}
           /\ backlog' \in Seq(CustomResource \cup {Nil})
           /\ Updated(o) \in CustomResource
           /\ Updated(o).uid = obj.uid /\ Updated(o).deleting = obj.deleting
           /\ \A c \in CustomResource : OldCopy(c) => OldCopy(c)'
<1>1. /\ cr \in CustomResource /\ cr # Nil /\ obj # Nil /\ obj \in CustomResource
      /\ obj.uid = cr.uid /\ obj.deleting /\ cr.deleting /\ rel = Nil
      /\ born \in Nat
  BY FreshCopy DEF Writable, IInv, WorkerInStep, TypeOK
<1> DEFINE v == Updated(o)
<1>2. /\ v \in CustomResource /\ v.uid = cr.uid /\ v.deleting
  BY <1>1, UpdatedType DEF Updated, CustomResource
<1>3. v # Nil
  BY <1>2, AbsentAssumption
<1> HIDE DEF v
<1>4. Store(v)
  BY DEF v
<1>5. cr' = Persisted(v) /\ Persisted(v) \in {v, Nil}
  BY <1>2, <1>4, AppendFacts
<1>6. \A x : Follows(x, v)
  BY <1>2 DEF Follows
<1>7. \A x : Known(x) => Credible(x)'
  <2> SUFFICES ASSUME NEW x, Known(x) PROVE Credible(x)'
    OBVIOUS
  <2>1. Credible(x)
    BY StoredIsNewest
  <2>2. Follows(obj, x)
    BY <1>1 DEF Known, IInv, CopyIsOld, OldCopy
  <2>3. x # Nil /\ ~x.deleting => x.uid # cr.uid
    BY <1>1, <2>2 DEF Follows
  <2>4. x # Nil => ~(~x.deleting /\ uninstallFinalizer \in x.finalizers)
    BY <2>1, <2>3 DEF Credible, Guards
  <2> QED
    BY <2>1, <2>4 DEF Credible
<1>8. v.uid <= born'
  BY <1>1, <1>2, StoredIsNewest DEF Credible
<1>9. VersionsInOrder'
  BY <1>2, <1>4, <1>6, <1>7, <1>8, StoreKeepsOrder
<1>10. ReleaseIsOwned'
  BY <1>1 DEF ReleaseIsOwned
<1>11. \A c \in CustomResource : OldCopy(c) => OldCopy(c)'
  BY <1>1, <1>2, <1>4, <1>6, StoreKeepsOld
<1>12. backlog' \in Seq(CustomResource \cup {Nil})
  BY <1>2, <1>4, StoreType DEF IInv
<1>13. v.uid = obj.uid /\ v.deleting = obj.deleting
  <2>1. v.deleting = cr.deleting
    BY <1>1, UpdatedType DEF Updated, CustomResource, v
  <2> QED
    BY <1>1, <1>2, <2>1, FreshCopy
<1> QED
  BY <1>2, <1>5, <1>9, <1>10, <1>11, <1>12, <1>13 DEF v

LEMMA RemoveFinalizerStep == IInv /\ RemoveFinalizer => IInv'
<1> SUFFICES ASSUME IInv, RemoveFinalizer PROVE IInv'
  OBVIOUS
<1> DEFINE o == [obj EXCEPT !.finalizers = @ \ {uninstallFinalizer}]
<1>1. /\ pc = "removeFinalizer" /\ born' = born /\ cache' = cache /\ rel' = rel
      /\ drift' = drift /\ edits' = edits /\ u' = u /\ un' = un
      /\ dirty' = dirty /\ delayed' = delayed
      /\ obj \in CustomResource /\ obj # Nil /\ obj.deleting /\ OldCopy(obj)
  BY DEF RemoveFinalizer, helm, queue, IInv, TypeOK, WorkerInStep, CopyIsOld
<1>2. /\ o \in CustomResource /\ o.uid = obj.uid /\ o.deleting = obj.deleting
      /\ o # Nil
  BY <1>1, AbsentAssumption DEF CustomResource
<1>3. /\ drift' \in BOOLEAN /\ born' \in Nat /\ faults' \in Nat
      /\ dirty' \in BOOLEAN
  <2>1. (\E k : Fault(k)) \/ faults' = faults
    BY DEF RemoveFinalizer
  <2> QED
    BY <1>1, <2>1, FaultType DEF IInv, TypeOK
<1>4. /\ pc' \in {"apply", "waitForDeletion"} /\ pc' \in Steps
      /\ result' \in {"none", "done", "requeue", "error"}
  BY DEF RemoveFinalizer, Steps, IInv, TypeOK
<1>5. obj' # Nil => WorkerInStep'
  BY <1>4 DEF WorkerInStep, Acting
<1> HIDE DEF o
<1>6. CASE UNCHANGED <<cr, backlog, fresh>> /\ obj' = o
  <2>1. /\ VersionsInOrder' /\ ReleaseIsOwned'
        /\ cr' \in CustomResource \cup {Nil}
        /\ backlog' \in Seq(CustomResource \cup {Nil})
        /\ \A c \in CustomResource : OldCopy(c) => OldCopy(c)'
    BY <1>1, <1>6, NothingStored
  <2>2. OldCopy(o)
    BY <1>1, <1>2, SameAge
  <2>3. OldCopy(obj)'
    BY <1>2, <1>6, <2>1, <2>2 DEF OldCopy
  <2>4. fresh' \in BOOLEAN
    BY <1>6 DEF IInv, TypeOK
  <2>5. CopyIsOld'
    BY <1>2, <1>6, <2>3 DEF IInv, CopyIsOld
  <2>6. TypeOK'
    BY <1>1, <1>2, <1>3, <1>4, <1>6, <2>1, <2>4 DEF IInv, TypeOK
  <2> QED
    BY <1>2, <1>5, <1>6, <2>1, <2>5, <2>6 DEF IInv
<1>7. CASE /\ Writable /\ Store(Updated(o)) /\ obj' \in {Updated(o), o}
           /\ fresh' = FALSE \/ (fresh' = (cr' # Nil) /\ obj' = Updated(o))
  <2>1. /\ VersionsInOrder' /\ ReleaseIsOwned'
        /\ cr' \in {Updated(o), Nil}
        /\ backlog' \in Seq(CustomResource \cup {Nil})
        /\ Updated(o) \in CustomResource
        /\ Updated(o).uid = obj.uid /\ Updated(o).deleting = obj.deleting
        /\ \A c \in CustomResource : OldCopy(c) => OldCopy(c)'
    BY <1>1, <1>2, <1>7, FinalizerRemoved
  <2>2. /\ obj' \in CustomResource /\ obj' # Nil /\ obj'.uid = obj.uid
        /\ obj'.deleting = obj.deleting
    BY <1>2, <1>7, <2>1, AbsentAssumption
  <2>3. OldCopy(obj')
    BY <1>1, <2>2, SameAge
  <2>4. OldCopy(obj)'
    BY <2>1, <2>2, <2>3 DEF OldCopy
  <2>5. fresh' \in BOOLEAN
    BY <1>7
  <2>6. fresh' => cr' # Nil /\ obj'.uid = cr'.uid /\ obj'.deleting = cr'.deleting
    BY <1>7, <2>1, <2>2
  <2>7. CopyIsOld'
    BY <2>2, <2>4, <2>6 DEF CopyIsOld
  <2>8. TypeOK'
    BY <1>1, <1>3, <1>4, <2>1, <2>2, <2>5 DEF IInv, TypeOK
  <2> QED
    BY <1>5, <2>1, <2>2, <2>7, <2>8 DEF IInv
<1>8. \/ UNCHANGED <<cr, backlog, fresh>> /\ obj' = o
      \/ /\ Writable /\ Store(Updated(o)) /\ obj' \in {Updated(o), o}
         /\ fresh' = FALSE \/ (fresh' = (cr' # Nil) /\ obj' = Updated(o))
  BY DEF RemoveFinalizer, o
<1> QED
  BY <1>6, <1>7, <1>8

-----------------------------------------------------------------------------
(* A crash, and the whole next-state relation.                             *)

(* What an interrupted Helm call leaves is still the release of the CR it  *)
(* was working for.                                                        *)
LEMMA InterruptedRelease ==
    ASSUME IInv, NEW r \in Interrupted
    PROVE  /\ r \in Release \cup {Nil}
           /\ \/ r = Nil
              \/ rel # Nil /\ r.owner = rel.owner
              \/ pc # "idle" /\ Acting /\ r.owner = obj.uid
<1>1. rel \in Release \cup {Nil}
  BY DEF IInv, TypeOK
<1>2. CASE pc \in {"install", "upgrade"}
  <2>1. pc # "idle" /\ Acting /\ r \in {rel, Revision("pending", Nil)}
    BY <1>2 DEF Interrupted, Acting
  <2>2. /\ Revision("pending", Nil) \in Release
        /\ Revision("pending", Nil).owner = obj.uid
    BY <2>1, RevisionType
  <2> QED
    BY <1>1, <2>1, <2>2
<1>3. CASE pc = "rollback"
  <2>1. rel # Nil /\ rel.previous # Nil
    BY <1>3 DEF IInv, WorkerInStep
  <2>2. r \in {[rel EXCEPT !.previous = Nil],
               [rel EXCEPT !.status = "pending", !.manifest = rel.previous,
                           !.previous = Nil]}
    BY <1>3 DEF Interrupted
  <2> QED
    BY <1>1, <2>1, <2>2 DEF Release
<1>4. CASE pc \in {"cleanup", "uninstall"} /\ rel # Nil
  <2>1. r \in {rel, [rel EXCEPT !.status = "uninstalling"]}
    BY <1>4 DEF Interrupted
  <2> QED
    BY <1>1, <1>4, <2>1 DEF Release
<1>5. CASE pc \notin {"install", "upgrade", "rollback"}
           /\ ~(pc \in {"cleanup", "uninstall"} /\ rel # Nil)
  <2>1. r = rel
    BY <1>5 DEF Interrupted
  <2> QED
    BY <1>1, <2>1
<1> QED
  BY <1>2, <1>3, <1>4, <1>5

LEMMA RestartStep == IInv /\ Restart => IInv'
<1> SUFFICES ASSUME IInv, Restart PROVE IInv'
  OBVIOUS
<1>1. /\ cr' = cr /\ born' = born /\ cache' = cr /\ backlog' = <<>>
      /\ delayed' = {} /\ pc' = "idle" /\ obj' = Nil /\ fresh' = FALSE
      /\ u' = NoUpdates /\ un' = NoUpdates /\ result' = "none"
      /\ drift' = drift /\ edits' = edits /\ dirty' = (cr # Nil)
      /\ rel' \in Interrupted /\ Fault("crash")
  BY DEF Restart
<1>2. rel' \in Release \cup {Nil}
  BY <1>1, InterruptedRelease
<1>3. dirty' \in BOOLEAN /\ fresh' \in BOOLEAN /\ faults' \in Nat /\ pc' \in Steps
  BY <1>1, FaultType DEF IInv, Steps
<1>4. TypeOK'
  BY <1>1, <1>2, <1>3, NoUpdatesType DEF IInv, TypeOK
<1>5. VersionsInOrder'
  <2>1. Credible(cr)' /\ (cr # Nil => Persisted(cr) = cr)
    BY <1>1, StoredIsNewest DEF Credible, Guards, IInv, VersionsInOrder
  <2>2. Credible(cache)'
    BY <1>1, <2>1 DEF Credible, Guards
  <2> QED
    BY <1>1, <2>1, <2>2 DEF VersionsInOrder
<1>6. CopyIsOld' /\ WorkerInStep'
  BY <1>1 DEF CopyIsOld, WorkerInStep, Acting
<1>7. ReleaseIsOwned'
  <2>1. \/ rel' = Nil
        \/ rel # Nil /\ rel'.owner = rel.owner
        \/ pc # "idle" /\ Acting /\ rel'.owner = obj.uid
    BY <1>1, InterruptedRelease
  <2> QED
    BY <1>1, <2>1 DEF IInv, ReleaseIsOwned, WorkerInStep, Guards
<1> QED
  BY <1>4, <1>5, <1>6, <1>7 DEF IInv

LEMMA InitInv == Init => IInv
<1> SUFFICES ASSUME Init PROVE IInv
  OBVIOUS
<1>1. TypeOK
  <2>1. <<>> \in Seq(CustomResource \cup {Nil}) /\ FALSE \in BOOLEAN
    OBVIOUS
  <2>2. dirty \in BOOLEAN /\ fresh \in BOOLEAN /\ drift \in BOOLEAN
    BY DEF Init
  <2> QED
    BY <2>1, <2>2, NoUpdatesType DEF Init, TypeOK, Steps
<1>2. VersionsInOrder
  BY DEF Init, VersionsInOrder, Credible
<1>3. CopyIsOld /\ WorkerInStep /\ ReleaseIsOwned
  BY DEF Init, CopyIsOld, WorkerInStep, Acting, ReleaseIsOwned
<1> QED
  BY <1>1, <1>2, <1>3 DEF IInv

LEMMA StutterStep == IInv /\ UNCHANGED vars => IInv'
<1> SUFFICES ASSUME IInv, UNCHANGED vars PROVE IInv'
  OBVIOUS
<1>1. /\ UNCHANGED <<api, cache, queue, obj, fresh, edits>>
      /\ cr' = cr /\ pc' = pc /\ u' = u /\ un' = un /\ result' = result
      /\ rel' = rel /\ drift' = drift /\ faults' = faults /\ obj' = obj
  BY DEF vars, api, queue, worker, helm, budget
<1>2. WorkerInStep' /\ ReleaseIsOwned'
  BY <1>1 DEF IInv, WorkerInStep, Acting, Guards, ReleaseIsOwned
<1>3. /\ pc' \in Steps /\ u' \in Updates /\ un' \in Updates
      /\ result' \in {"none", "done", "requeue", "error"}
      /\ rel' \in Release \cup {Nil} /\ drift' \in BOOLEAN /\ faults' \in Nat
  BY <1>1 DEF IInv, TypeOK
<1> QED
  BY <1>1, <1>2, <1>3, LocalStep

LEMMA NextStep == IInv /\ [Next]_vars => IInv'
<1> SUFFICES ASSUME IInv, [Next]_vars PROVE IInv'
  OBVIOUS
<1>1. CASE Users
  BY <1>1, UsersStep
<1>2. CASE Deliver
  BY <1>2, DeliverStep
<1>3. CASE TimerFires
  BY <1>3, TimerStep
<1>4. CASE Reconcile
  BY <1>4, StartStep, AddFinalizerStep, LookupSteps, ReleaseStateSteps,
     InstallStep, UpgradeStep, RepairSteps, UninstallStep, ApplyUninstallStep,
     RemoveFinalizerStep, WaitStep, ApplyStep DEF Reconcile
<1>5. CASE Restart
  BY <1>5, RestartStep
<1>6. CASE UNCHANGED vars
  BY <1>6, StutterStep
<1> QED
  BY <1>1, <1>2, <1>3, <1>4, <1>5, <1>6 DEF Next

(* The invariant of every behaviour: what the cache, the watch and the     *)
(* worker hold are versions of the CR in the order they were stored, and   *)
(* the worker is at no step its copy does not justify.                     *)
THEOREM Invariance == Spec => []IInv
BY InitInv, NextStep, PTL DEF Spec

(* The state of the operator and of its surroundings is well typed.        *)
THEOREM TypeCorrect == Spec => []TypeOK
<1>1. IInv => TypeOK
  BY DEF IInv
<1> QED
  BY <1>1, Invariance, PTL

(* A release never outlives its CR: as long as Helm has one, the CR        *)
(* incarnation it was made for is stored and carries the uninstall         *)
(* finalizer (reconciler.go:598-608 and :767-801), whatever is stale,      *)
(* fails, is lost or crashes.                                              *)
THEOREM NoOrphanedRelease == Spec => []ReleaseIsOwned
<1>1. IInv => ReleaseIsOwned
  BY DEF IInv
<1> QED
  BY <1>1, Invariance, PTL

-----------------------------------------------------------------------------
(* The invariant of the action properties                                  *)

(* What the worker, the cache or the watch holds.                          *)
Copy(v) == v = obj \/ v = cache \/ \E i \in 1..Len(backlog) : v = backlog[i]

NotAfter(v, w) == v # Nil /\ w # Nil => v.uid <= w.uid

(* Copies are of incarnations in the order in which these were created.    *)
UidsInOrder ==
    /\ NotAfter(obj, cache)
    /\ \A i \in 1..Len(backlog) :
          /\ NotAfter(obj, backlog[i]) /\ NotAfter(cache, backlog[i])
          /\ \A j \in 1..Len(backlog) : i < j => NotAfter(backlog[i], backlog[j])

(* While there is a release, every copy is of its owner.                   *)
OneIncarnation == rel # Nil => \A v : Copy(v) /\ v # Nil => v.uid = rel.owner

(* What the worker has learnt of the release is still so.                  *)
ReleaseInStep ==
    /\ pc = "install" => rel = Nil
    /\ pc = "cleanup" => rel.status = "failed" /\ rel.previous = Nil
    /\ pc = "upgrade" => rel.status \in {"deployed", "failed"}
    /\ pc = "rollback" => rel.status = "failed"

(* Two versions have in common what users and other controllers write.     *)
SameWishes(v, w) ==
    /\ v.spec = w.spec /\ v.paused = w.paused
    /\ v.finalizers \ {uninstallFinalizer} = w.finalizers \ {uninstallFinalizer}

(* A copy with the stored resourceVersion is a copy of what is stored.     *)
FreshIsCurrent == fresh => SameWishes(obj, cr)

SInv == /\ IInv /\ UidsInOrder /\ OneIncarnation /\ ReleaseInStep
        /\ FreshIsCurrent

-----------------------------------------------------------------------------
(* What a step does to the copies of the CR                                *)

SameApi == UNCHANGED <<cr, born, backlog, cache>>

(* The stored incarnation gets a new version.                              *)
Rewritten ==
    /\ cr # Nil /\ born' = born /\ cache' = cache
    /\ \E v \in CustomResource : v.uid = cr.uid /\ Store(v)

(* The worker drops its copy, takes the cache's, or keeps incarnation and  *)
(* values of what it has, or what is stored of the same incarnation.       *)
ObjFollows ==
    \/ obj' = Nil \/ obj' = obj \/ obj' = cache
    \/ /\ obj # Nil /\ obj' # Nil /\ obj'.uid = obj.uid
       /\ \/ obj'.spec = obj.spec
          \/ cr # Nil /\ obj.uid = cr.uid /\ obj'.spec = cr.spec

LEMMA UserEffects ==
    ASSUME IInv, EditSpec \/ TogglePause \/ DeleteCR \/ ReleaseOtherFinalizer
    PROVE  Rewritten /\ obj' = obj /\ rel' = rel /\ pc' = pc
<1>1. cr \in CustomResource /\ cr # Nil
  BY DEF IInv, TypeOK, EditSpec, TogglePause, DeleteCR, ReleaseOtherFinalizer
<1>2. obj' = obj /\ rel' = rel /\ pc' = pc /\ cache' = cache /\ born' = born
  BY DEF EditSpec, TogglePause, DeleteCR, ReleaseOtherFinalizer, UserStep
<1>3. CASE EditSpec
  <2>1. PICK spec \in Manifests : Store([cr EXCEPT !.spec = spec])
    BY <1>3 DEF EditSpec
  <2>2. [cr EXCEPT !.spec = spec] \in CustomResource
        /\ [cr EXCEPT !.spec = spec].uid = cr.uid
    BY <1>1 DEF CustomResource
  <2> QED
    BY <1>1, <1>2, <2>1, <2>2 DEF Rewritten
<1>4. CASE TogglePause
  <2>1. [cr EXCEPT !.paused = ~cr.paused] \in CustomResource
        /\ [cr EXCEPT !.paused = ~cr.paused].uid = cr.uid
    BY <1>1 DEF CustomResource
  <2> QED
    BY <1>1, <1>2, <1>4, <2>1 DEF Rewritten, TogglePause
<1>5. CASE DeleteCR
  <2>1. [cr EXCEPT !.deleting = TRUE] \in CustomResource
        /\ [cr EXCEPT !.deleting = TRUE].uid = cr.uid
    BY <1>1 DEF CustomResource
  <2> QED
    BY <1>1, <1>2, <1>5, <2>1 DEF Rewritten, DeleteCR
<1>6. CASE ReleaseOtherFinalizer
  <2>1. [cr EXCEPT !.finalizers = cr.finalizers \ {"other"}] \in CustomResource
        /\ [cr EXCEPT !.finalizers = cr.finalizers \ {"other"}].uid = cr.uid
    BY <1>1 DEF CustomResource
  <2> QED
    BY <1>1, <1>2, <1>6, <2>1 DEF Rewritten, ReleaseOtherFinalizer
<1> QED
  BY <1>3, <1>4, <1>5, <1>6

LEMMA UpdatedRewrites ==
    ASSUME IInv, Writable, NEW o \in CustomResource, born' = born, cache' = cache
    PROVE  /\ Store(Updated(o)) => Rewritten
           /\ Store(StatusUpdated(o)) => Rewritten
           /\ StoreStatus(o) => Rewritten \/ UNCHANGED <<cr, backlog>>
           /\ Updated(o).uid = cr.uid /\ Updated(o).spec = o.spec
           /\ StatusUpdated(o).uid = cr.uid /\ StatusUpdated(o).spec = cr.spec
<1>1. cr \in CustomResource /\ cr # Nil
  BY DEF IInv, TypeOK, Writable
<1>2. /\ Updated(o) \in CustomResource /\ StatusUpdated(o) \in CustomResource
      /\ Updated(o).uid = cr.uid /\ StatusUpdated(o).uid = cr.uid
      /\ Updated(o).spec = o.spec /\ StatusUpdated(o).spec = cr.spec
  BY <1>1 DEF Updated, StatusUpdated, CustomResource
<1> QED
  BY <1>1, <1>2 DEF Rewritten, StoreStatus

LEMMA WorkerEffects ==
    ASSUME IInv, Reconcile
    PROVE  (SameApi \/ Rewritten) /\ ObjFollows
<1>1. CASE StartReconcile
  BY <1>1 DEF StartReconcile, SameApi, ObjFollows, api
<1>2. CASE AddFinalizer
  <2> DEFINE o == [obj EXCEPT !.finalizers = @ \cup {uninstallFinalizer}]
  <2>1. obj \in CustomResource /\ obj # Nil /\ born' = born /\ cache' = cache
    BY <1>2 DEF AddFinalizer, IInv, TypeOK, WorkerInStep
  <2>2. o \in CustomResource /\ o.uid = obj.uid /\ o.spec = obj.spec
    BY <2>1 DEF CustomResource, uninstallFinalizer
  <2>3. CASE Writable /\ Store(Updated(o)) /\ obj' = Updated(o)
    <3>1. obj.uid = cr.uid
      BY <2>3, FreshCopy
    <3>2. Updated(o) \in CustomResource
      BY <2>2, <2>3, UpdatedType DEF IInv, TypeOK, Writable
    <3> QED
      BY <2>1, <2>2, <2>3, <3>1, <3>2, UpdatedRewrites, AbsentAssumption DEF ObjFollows
  <2>4. CASE Return("error") /\ UNCHANGED <<cr, backlog>>
    BY <2>1, <2>4 DEF Return, ObjFollows, SameApi
  <2>5. CASE Writable /\ Store(Updated(o)) /\ Return("error")
    BY <2>1, <2>2, <2>5, UpdatedRewrites DEF Return, ObjFollows
  <2> HIDE DEF o
  <2> QED
    BY <1>2, <2>3, <2>4, <2>5 DEF AddFinalizer, o
<1>3. CASE \/ Pause \/ ActionClientFails \/ LookupRelease \/ GetValuesFails
           \/ ReleaseStateFails \/ GetReleaseState \/ Install \/ CleanUpInstall
           \/ Upgrade \/ RollBackUpgrade \/ ReconcileRelease \/ Uninstall
  <2>1. UNCHANGED <<api, cache, obj>>
    BY <1>3 DEF Pause, ActionClientFails, LookupRelease, GetValuesFails,
       ReleaseStateFails, GetReleaseState, Install, CleanUpInstall, Upgrade,
       RollBackUpgrade, ReconcileRelease, Uninstall
  <2> QED
    BY <2>1 DEF SameApi, ObjFollows, api
<1>4. CASE ApplyUninstall
  <2> DEFINE o == [obj EXCEPT !.status = Applied(un, obj.status)]
  <2>1. /\ obj \in CustomResource /\ obj # Nil /\ born' = born /\ cache' = cache
        /\ un \in Updates
    BY <1>4 DEF ApplyUninstall, IInv, TypeOK, WorkerInStep
  <2>2. o \in CustomResource /\ o.uid = obj.uid /\ o.spec = obj.spec
    <3>1. Applied(un, obj.status) \in Status
      BY <2>1, AppliedType DEF CustomResource
    <3> QED
      BY <2>1, <3>1 DEF CustomResource
  <2>3. CASE UNCHANGED <<cr, backlog, obj>>
    BY <2>1, <2>3 DEF SameApi, ObjFollows
  <2>4. CASE Writable /\ StoreStatus(o) /\ obj' = StatusUpdated(o)
    <3>1. obj.uid = cr.uid /\ cr # Nil
      BY <2>4, FreshCopy DEF Writable
    <3>2. StatusUpdated(o) \in CustomResource
      BY <2>2, <2>4, UpdatedType DEF IInv, TypeOK, Writable
    <3>3. /\ Rewritten \/ UNCHANGED <<cr, backlog>>
          /\ StatusUpdated(o).uid = cr.uid /\ StatusUpdated(o).spec = cr.spec
      BY <2>1, <2>2, <2>4, UpdatedRewrites
    <3> QED
      BY <2>1, <2>4, <3>1, <3>2, <3>3, AbsentAssumption DEF ObjFollows, SameApi
  <2>5. CASE UNCHANGED <<cr, backlog>> /\ obj' = o
    BY <2>1, <2>2, <2>5, AbsentAssumption DEF SameApi, ObjFollows
  <2>6. CASE Writable /\ Store(StatusUpdated(o)) /\ obj' = o
    BY <2>1, <2>2, <2>6, UpdatedRewrites, AbsentAssumption DEF ObjFollows
  <2> HIDE DEF o
  <2> QED
    BY <1>4, <2>3, <2>4, <2>5, <2>6 DEF ApplyUninstall, o
<1>5. CASE RemoveFinalizer
  <2> DEFINE o == [obj EXCEPT !.finalizers = @ \ {uninstallFinalizer}]
  <2>1. obj \in CustomResource /\ obj # Nil /\ born' = born /\ cache' = cache
    BY <1>5 DEF RemoveFinalizer, IInv, TypeOK, WorkerInStep
  <2>2. o \in CustomResource /\ o.uid = obj.uid /\ o.spec = obj.spec
    BY <2>1 DEF CustomResource
  <2>3. CASE Writable /\ Store(Updated(o)) /\ obj' \in {Updated(o), o}
    <3>1. obj.uid = cr.uid
      BY <2>3, FreshCopy
    <3>2. Updated(o) \in CustomResource
      BY <2>2, <2>3, UpdatedType DEF IInv, TypeOK, Writable
    <3> QED
      BY <2>1, <2>2, <2>3, <3>1, <3>2, UpdatedRewrites, AbsentAssumption DEF ObjFollows
  <2>4. CASE UNCHANGED <<cr, backlog>> /\ obj' = o
    BY <2>1, <2>2, <2>4, AbsentAssumption DEF SameApi, ObjFollows
  <2> HIDE DEF o
  <2> QED
    BY <1>5, <2>3, <2>4 DEF RemoveFinalizer, o
<1>6. CASE WaitForDeletion
  BY <1>6 DEF WaitForDeletion, Return, SameApi, ObjFollows, api
<1>7. CASE Apply
  <2> DEFINE o == [obj EXCEPT !.status = Applied(u, obj.status)]
  <2>1. /\ obj \in CustomResource /\ obj # Nil /\ born' = born /\ cache' = cache
        /\ u \in Updates
    BY <1>7 DEF Apply, IInv, TypeOK, WorkerInStep
  <2>2. o \in CustomResource
    <3>1. Applied(u, obj.status) \in Status
      BY <2>1, AppliedType DEF CustomResource
    <3> QED
      BY <2>1, <3>1 DEF CustomResource
  <2>3. obj' = Nil
    BY <1>7 DEF Apply, Return
  <2>4. CASE UNCHANGED <<cr, backlog>>
    BY <2>1, <2>3, <2>4 DEF SameApi, ObjFollows
  <2>5. CASE Writable /\ (StoreStatus(o) \/ Store(StatusUpdated(o)))
    BY <2>1, <2>2, <2>3, <2>5, UpdatedRewrites DEF ObjFollows, SameApi
  <2> HIDE DEF o
  <2> QED
    BY <1>7, <2>4, <2>5 DEF Apply, o
<1> QED
  BY <1>1, <1>2, <1>3, <1>4, <1>5, <1>6, <1>7 DEF Reconcile

-----------------------------------------------------------------------------
(* The order of the copies                                                 *)

(* A new incarnation.                                                      *)
Created ==
    /\ cr = Nil /\ born' = born + 1 /\ cache' = cache
    /\ \E v \in CustomResource : v.uid = born + 1 /\ v.spec \in Manifests /\ Store(v)

(* A version is delivered; the first list of a new informer.               *)
Delivered ==
    /\ backlog # <<>> /\ cache' = Head(backlog) /\ backlog' = Tail(backlog)
    /\ cr' = cr /\ born' = born

Relisted ==
    cache' = cr /\ backlog' = <<>> /\ cr' = cr /\ born' = born /\ obj' = Nil

ApiStep == SameApi \/ Rewritten \/ Created \/ Delivered \/ Relisted

LEMMA CopyTypes ==
    ASSUME IInv, UidsInOrder
    PROVE  /\ Len(backlog) \in Nat /\ cr \in CustomResource \cup {Nil} /\ born \in Nat
           /\ \A v : Copy(v) => v \in CustomResource \cup {Nil}
           /\ \A v : Copy(v) /\ v # Nil => v.uid \in Nat /\ v.uid <= born
           /\ \A v : Copy(v) => NotAfter(v, cr)
<1>1. /\ backlog \in Seq(CustomResource \cup {Nil}) /\ Len(backlog) \in Nat
      /\ cr \in CustomResource \cup {Nil} /\ born \in Nat
      /\ obj \in CustomResource \cup {Nil} /\ cache \in CustomResource \cup {Nil}
      /\ \A i \in 1..Len(backlog) : backlog[i] \in CustomResource \cup {Nil}
  BY DEF IInv, TypeOK
<1>2. \A v : Copy(v) => v \in CustomResource \cup {Nil}
  BY <1>1 DEF Copy
<1>3. \A v \in CustomResource : v.uid \in Nat
  BY DEF CustomResource
<1>4. \A v : Copy(v) /\ v # Nil => v.uid <= born
  <2>1. Credible(cache) /\ \A i \in 1..Len(backlog) : Credible(backlog[i])
    BY DEF IInv, VersionsInOrder
  <2>2. obj # Nil => obj.uid <= born
    BY DEF IInv, CopyIsOld, OldCopy
  <2> QED
    BY <2>1, <2>2 DEF Copy, Credible
<1>5. ASSUME NEW v, Copy(v) PROVE NotAfter(v, cr)
  <2>1. CASE backlog = <<>>
    <3>1. cr = cache /\ Len(backlog) = 0
      BY <2>1 DEF IInv, VersionsInOrder
    <3> QED
      BY <1>1, <1>3, <1>5, <3>1 DEF Copy, UidsInOrder, NotAfter
  <2>2. CASE backlog # <<>>
    <3>1. cr = backlog[Len(backlog)] /\ Len(backlog) \in 1..Len(backlog)
      BY <1>1, <2>2 DEF IInv, VersionsInOrder
    <3>2. CASE v = obj \/ v = cache
      BY <3>1, <3>2 DEF UidsInOrder
    <3>3. ASSUME NEW i \in 1..Len(backlog), v = backlog[i]
          PROVE  NotAfter(v, cr)
      <4>1. i < Len(backlog) \/ i = Len(backlog)
        BY <1>1, <3>3
      <4>2. CASE i < Len(backlog)
        BY <3>1, <3>3, <4>2 DEF UidsInOrder
      <4>3. CASE i = Len(backlog)
        BY <1>1, <1>3, <3>1, <3>3, <4>3 DEF NotAfter
      <4> QED
        BY <4>1, <4>2, <4>3
    <3> QED
      BY <1>5, <3>2, <3>3 DEF Copy
  <2> QED
    BY <2>1, <2>2
<1> QED
  BY <1>1, <1>2, <1>3, <1>4, <1>5

(* The worker's copy is still no newer than any that is known.             *)
LEMMA ObjNotAfter ==
    ASSUME IInv, UidsInOrder, ObjFollows
    PROVE  \A x : Known(x) \/ x = cr => NotAfter(obj', x)
<1>1. /\ \A x : Known(x) => NotAfter(obj, x)
      /\ \A x : Known(x) => NotAfter(cache, x)
  <2>1. NotAfter(cache, cache)
    BY CopyTypes DEF NotAfter, Copy
  <2> QED
    BY <2>1 DEF UidsInOrder, Known
<1>2. Known(cr)
  BY StoredIsNewest
<1> QED
  BY <1>1, <1>2 DEF ObjFollows, NotAfter

(* A version that no copy is after is stored.                              *)
LEMMA StoreKeepsUids ==
    ASSUME IInv, UidsInOrder, ObjFollows, cache' = cache,
           NEW v \in CustomResource, Store(v),
           \A x : Known(x) => NotAfter(x, v), NotAfter(obj', v)
    PROVE  UidsInOrder'
<1> DEFINE w == Persisted(v)
           n == Len(backlog) + 1
<1>1. /\ w \in {v, Nil} /\ n \in Nat /\ Len(backlog') = n /\ backlog'[n] = w
      /\ \A i \in 1..Len(backlog) : backlog'[i] = backlog[i]
      /\ \A i \in 1..n : i \in 1..Len(backlog) \/ i = n
  <2>1. Len(backlog) \in Nat
    BY AppendFacts
  <2> QED
    BY <2>1, AppendFacts
<1>2. \A x : Known(x) => NotAfter(x, w) /\ NotAfter(obj', x)
  BY <1>1, ObjNotAfter DEF NotAfter
<1>3. NotAfter(obj', w)
  BY <1>1 DEF NotAfter
<1> HIDE DEF w
<1>4. \A i \in 1..n : NotAfter(obj', backlog'[i]) /\ NotAfter(cache, backlog'[i])
  <2> SUFFICES ASSUME NEW i \in 1..n
               PROVE  NotAfter(obj', backlog'[i]) /\ NotAfter(cache, backlog'[i])
    OBVIOUS
  <2>1. CASE i = n
    BY <1>1, <1>2, <1>3, <2>1 DEF Known
  <2>2. CASE i \in 1..Len(backlog)
    BY <1>1, <1>2, <2>2 DEF Known, UidsInOrder
  <2> QED
    BY <1>1, <2>1, <2>2
<1>5. \A i, j \in 1..n : i < j => NotAfter(backlog'[i], backlog'[j])
  <2> SUFFICES ASSUME NEW i \in 1..n, NEW j \in 1..n, i < j
               PROVE  NotAfter(backlog'[i], backlog'[j])
    OBVIOUS
  <2>1. i \in 1..Len(backlog) /\ backlog'[i] = backlog[i] /\ Known(backlog[i])
    BY <1>1 DEF Known
  <2>2. CASE j = n
    BY <1>1, <1>2, <2>1, <2>2
  <2>3. CASE j \in 1..Len(backlog)
    BY <1>1, <2>1, <2>3 DEF UidsInOrder
  <2> QED
    BY <1>1, <2>2, <2>3
<1>6. NotAfter(obj', cache)
  BY <1>2 DEF Known
<1> QED
  BY <1>1, <1>4, <1>5, <1>6 DEF UidsInOrder, NotAfter

LEMMA UidsKept ==
    ASSUME IInv, UidsInOrder, ObjFollows, ApiStep
    PROVE  UidsInOrder'
<1>1. CASE SameApi
  BY <1>1, ObjNotAfter DEF SameApi, UidsInOrder, Known, NotAfter
<1>2. CASE Rewritten
  <2>1. PICK v \in CustomResource : v.uid = cr.uid /\ Store(v)
    BY <1>2 DEF Rewritten
  <2>2. \A x : Known(x) => NotAfter(x, v)
    BY <1>2, <2>1, CopyTypes DEF Rewritten, NotAfter, Known, Copy
  <2>3. NotAfter(obj', v)
    BY <1>2, <2>1, ObjNotAfter DEF Rewritten, NotAfter
  <2> QED
    BY <1>2, <2>1, <2>2, <2>3, StoreKeepsUids DEF Rewritten
<1>3. CASE Created
  <2>1. PICK v \in CustomResource : v.uid = born + 1 /\ Store(v)
    BY <1>3 DEF Created
  <2>2. \A x : Copy(x) => NotAfter(x, v)
    BY <2>1, CopyTypes DEF NotAfter
  <2>3. NotAfter(obj', v)
    BY <1>3, <2>2 DEF ObjFollows, Copy, NotAfter
  <2> QED
    BY <1>3, <2>1, <2>2, <2>3, StoreKeepsUids DEF Created, Known, Copy
<1>4. CASE Delivered
  <2>1. /\ backlog \in Seq(CustomResource \cup {Nil}) /\ backlog # <<>>
        /\ Len(backlog) \in Nat
    BY <1>4 DEF Delivered, IInv, TypeOK
  <2>2. /\ cache' = backlog[1] /\ 1 \in 1..Len(backlog)
        /\ Len(backlog') = Len(backlog) - 1
        /\ \A i \in 1..Len(backlog') :
              /\ backlog'[i] = backlog[i + 1] /\ i + 1 \in 1..Len(backlog)
              /\ i \in 1..Len(backlog)
    BY <1>4, <2>1 DEF Delivered
  <2>3. NotAfter(obj', cache') /\ \A i \in 1..Len(backlog') : NotAfter(obj', backlog'[i])
    BY <2>2, ObjNotAfter DEF Known
  <2>4. \A i \in 1..Len(backlog') : NotAfter(cache', backlog'[i])
    <3> SUFFICES ASSUME NEW i \in 1..Len(backlog')
                 PROVE  NotAfter(cache', backlog'[i])
      OBVIOUS
    <3>1. 1 < i + 1 /\ i + 1 \in 1..Len(backlog) /\ 1 \in 1..Len(backlog)
      BY <2>1, <2>2
    <3> QED
      BY <2>2, <3>1 DEF UidsInOrder
  <2>5. \A i, j \in 1..Len(backlog') : i < j => NotAfter(backlog'[i], backlog'[j])
    <3> SUFFICES ASSUME NEW i \in 1..Len(backlog'), NEW j \in 1..Len(backlog'), i < j
                 PROVE  NotAfter(backlog'[i], backlog'[j])
      OBVIOUS
    <3>1. i + 1 < j + 1 /\ i + 1 \in 1..Len(backlog) /\ j + 1 \in 1..Len(backlog)
      BY <2>1, <2>2
    <3> QED
      BY <2>2, <3>1 DEF UidsInOrder
  <2> QED
    BY <2>3, <2>4, <2>5 DEF UidsInOrder, NotAfter
<1>5. CASE Relisted
  BY <1>5 DEF Relisted, UidsInOrder, NotAfter
<1> QED
  BY <1>1, <1>2, <1>3, <1>4, <1>5 DEF ApiStep

(* Every copy after a step is one from before, what is stored now, or of   *)
(* the incarnation and the values of one.                                  *)
LEMMA CopiesFollow ==
    ASSUME IInv, UidsInOrder, ObjFollows, ApiStep, NEW v, Copy(v)', v # Nil
    PROVE  \/ Copy(v)
           \/ v = cr'
           \/ /\ obj # Nil /\ v.uid = obj.uid
              /\ \/ v.spec = obj.spec
                 \/ cr # Nil /\ obj.uid = cr.uid /\ v.spec = cr.spec
<1>1. CASE v = obj'
  BY <1>1 DEF ObjFollows, Copy
<1>2. CASE v = cache' \/ \E i \in 1..Len(backlog') : v = backlog'[i]
  <2>1. CASE SameApi
    BY <1>2, <2>1 DEF SameApi, Copy
  <2>2. CASE Rewritten \/ Created
    <3>1. PICK w \in CustomResource : Store(w) /\ cache' = cache
      BY <2>2 DEF Rewritten, Created
    <3>2. /\ cr' = Persisted(w) /\ Len(backlog') = Len(backlog) + 1
          /\ Len(backlog) \in Nat /\ backlog'[Len(backlog) + 1] = Persisted(w)
          /\ \A i \in 1..Len(backlog) : backlog'[i] = backlog[i]
      BY <3>1, AppendFacts
    <3>3. \A i \in 1..Len(backlog') : i \in 1..Len(backlog) \/ i = Len(backlog) + 1
      BY <3>2
    <3> QED
      BY <1>2, <3>1, <3>2, <3>3 DEF Copy
  <2>3. CASE Delivered
    <3>1. /\ backlog \in Seq(CustomResource \cup {Nil}) /\ backlog # <<>>
          /\ Len(backlog) \in Nat
      BY <2>3 DEF Delivered, IInv, TypeOK
    <3>2. /\ cache' = backlog[1] /\ 1 \in 1..Len(backlog)
          /\ \A i \in 1..Len(backlog') :
                backlog'[i] = backlog[i + 1] /\ i + 1 \in 1..Len(backlog)
      BY <2>3, <3>1 DEF Delivered
    <3> QED
      BY <1>2, <3>2 DEF Copy
  <2>4. CASE Relisted
    BY <1>2, <2>4 DEF Relisted
  <2> QED
    BY <2>1, <2>2, <2>3, <2>4 DEF ApiStep
<1> QED
  BY <1>1, <1>2 DEF Copy

-----------------------------------------------------------------------------
(* What a step does to the release                                         *)

RelStep ==
    \/ rel' = rel
    \/ rel' = Nil
    \/ /\ rel # Nil /\ rel' # Nil /\ rel'.owner = rel.owner
       /\ \/ rel'.manifest = rel.manifest
          \/ rel.previous # Nil /\ rel'.manifest = rel.previous
       /\ rel'.previous \in {rel.previous, Nil}
    \/ /\ obj # Nil /\ Guards(obj)
       /\ rel' # Nil /\ rel'.owner = obj.uid /\ rel'.manifest = obj.spec
       /\ \/ rel'.previous = Nil
          \/ rel # Nil /\ rel'.previous = rel.manifest
       /\ \/ SameApi /\ obj' = obj
          \/ Relisted

LEMMA RevisionFacts ==
    ASSUME IInv, pc # "idle", NEW st \in {"deployed", "failed", "pending"},
           NEW m \in Manifests \cup {Nil}
    PROVE  /\ Revision(st, m) # Nil /\ Revision(st, m).owner = obj.uid
           /\ Revision(st, m).manifest = obj.spec
           /\ Revision(st, m).previous = m /\ Revision(st, m).status = st
BY RevisionType DEF Revision

LEMMA QuietEffects ==
    ASSUME IInv, Users \/ Deliver \/ TimerFires
    PROVE  ApiStep /\ obj' = obj /\ rel' = rel /\ pc' = pc
<1>1. CASE EditSpec \/ TogglePause \/ DeleteCR \/ ReleaseOtherFinalizer
  BY <1>1, UserEffects DEF ApiStep
<1>2. CASE CreateCR
  <2>1. PICK spec \in Manifests, fs \in SUBSET {"other"} :
           Store([uid |-> born + 1, deleting |-> FALSE, paused |-> FALSE,
                  finalizers |-> fs, spec |-> spec, status |-> EmptyStatus])
    BY <1>2 DEF CreateCR
  <2>2. [uid |-> born + 1, deleting |-> FALSE, paused |-> FALSE,
         finalizers |-> fs, spec |-> spec, status |-> EmptyStatus]
           \in CustomResource
    BY EmptyStatusType DEF CustomResource, IInv, TypeOK, uninstallFinalizer
  <2>3. obj' = obj /\ rel' = rel /\ pc' = pc /\ cache' = cache
    BY <1>2 DEF CreateCR, UserStep
  <2>4. cr = Nil /\ born' = born + 1
    BY <1>2 DEF CreateCR
  <2> QED
    BY <2>1, <2>2, <2>3, <2>4 DEF ApiStep, Created
<1>3. CASE Drift \/ TimerFires
  BY <1>3 DEF Drift, TimerFires, ApiStep, SameApi, api, worker, helm
<1>4. CASE Deliver
  BY <1>4 DEF Deliver, ApiStep, Delivered, worker, helm
<1> QED
  BY <1>1, <1>2, <1>3, <1>4 DEF Users

LEMMA InterruptedFollows ==
    ASSUME SInv, NEW r \in Interrupted
    PROVE  \/ r = rel
           \/ /\ pc \in {"install", "upgrade"} /\ r = Revision("pending", Nil)
           \/ /\ pc = "rollback" /\ rel # Nil /\ rel.previous # Nil
              /\ r \in {[rel EXCEPT !.previous = Nil],
                        [rel EXCEPT !.status = "pending", !.manifest = rel.previous,
                                    !.previous = Nil]}
           \/ /\ pc \in {"cleanup", "uninstall"} /\ rel # Nil
              /\ r = [rel EXCEPT !.status = "uninstalling"]
<1>1. CASE pc \in {"install", "upgrade"}
  BY <1>1 DEF Interrupted
<1>2. CASE pc = "rollback"
  BY <1>2 DEF Interrupted, SInv, IInv, WorkerInStep
<1>3. CASE pc \in {"cleanup", "uninstall"} /\ rel # Nil
  BY <1>3 DEF Interrupted
<1>4. CASE pc \notin {"install", "upgrade", "rollback"}
           /\ ~(pc \in {"cleanup", "uninstall"} /\ rel # Nil)
  BY <1>4 DEF Interrupted
<1> QED
  BY <1>1, <1>2, <1>3, <1>4

LEMMA ActingObj ==
    ASSUME IInv, pc \in {"install", "upgrade", "cleanup", "rollback"}
    PROVE  obj # Nil /\ Guards(obj) /\ pc # "idle"
BY DEF IInv, WorkerInStep, Acting

LEMMA RestartEffects ==
    ASSUME SInv, Restart
    PROVE  Relisted /\ RelStep /\ pc' = "idle"
<1>1. Relisted /\ pc' = "idle" /\ rel' \in Interrupted
  BY DEF Restart, Relisted
<1> SUFFICES RelStep
  BY <1>1
<1>2. rel \in Release \cup {Nil}
  BY DEF SInv, IInv, TypeOK
<1>3. CASE pc \in {"install", "upgrade"} /\ rel' = Revision("pending", Nil)
  <2>1. /\ rel' # Nil /\ rel'.owner = obj.uid /\ rel'.manifest = obj.spec
        /\ rel'.previous = Nil
    BY <1>3, RevisionFacts DEF SInv
  <2> QED
    BY <1>1, <1>3, <2>1, ActingObj DEF RelStep, SInv
<1>4. CASE /\ rel # Nil /\ rel.previous # Nil
           /\ rel' \in {[rel EXCEPT !.previous = Nil],
                        [rel EXCEPT !.status = "pending", !.manifest = rel.previous,
                                    !.previous = Nil]}
  <2>1. /\ rel'.owner = rel.owner /\ rel'.previous = Nil
        /\ rel'.manifest \in {rel.manifest, rel.previous}
        /\ rel' \in Release
    BY <1>2, <1>4 DEF Release
  <2> QED
    BY <1>4, <2>1, AbsentAssumption DEF RelStep
<1>5. CASE rel # Nil /\ rel' = [rel EXCEPT !.status = "uninstalling"]
  <2>1. /\ rel'.owner = rel.owner /\ rel'.previous = rel.previous
        /\ rel'.manifest = rel.manifest /\ rel' \in Release
    BY <1>2, <1>5 DEF Release
  <2> QED
    BY <1>5, <2>1, AbsentAssumption DEF RelStep
<1>6. CASE rel' = rel
  BY <1>6 DEF RelStep
<1> QED
  BY <1>1, <1>3, <1>4, <1>5, <1>6, InterruptedFollows

LEMMA WorkerRelease ==
    ASSUME SInv, Reconcile
    PROVE  RelStep
<1>1. rel \in Release \cup {Nil} /\ IInv
  BY DEF SInv, IInv, TypeOK
<1>2. CASE Install \/ Upgrade
  <2>1. SameApi /\ obj' = obj /\ pc \in {"install", "upgrade"}
    BY <1>2 DEF Install, Upgrade, SameApi, api
  <2>2. obj # Nil /\ Guards(obj) /\ pc # "idle"
    BY <1>1, <2>1, ActingObj
  <2>3. CASE rel' = rel
    BY <2>3 DEF RelStep
  <2>4. CASE rel' \in {Revision("deployed", Nil), Revision("failed", Nil)}
    <3>1. /\ rel' # Nil /\ rel'.owner = obj.uid /\ rel'.manifest = obj.spec
          /\ rel'.previous = Nil
      BY <1>1, <2>2, <2>4, RevisionFacts
    <3> QED
      BY <2>1, <2>2, <3>1 DEF RelStep
  <2>5. CASE pc = "upgrade" /\ rel' = Revision("failed", rel.manifest)
    <3>1. rel # Nil /\ rel.manifest \in Manifests
      BY <1>1, <2>5 DEF IInv, WorkerInStep, Release
    <3>2. /\ rel' # Nil /\ rel'.owner = obj.uid /\ rel'.manifest = obj.spec
          /\ rel'.previous = rel.manifest
      BY <1>1, <2>2, <2>5, <3>1, RevisionFacts
    <3> QED
      BY <2>1, <2>2, <3>1, <3>2 DEF RelStep
  <2> QED
    BY <1>2, <2>3, <2>4, <2>5 DEF Install, Upgrade, helm
<1>3. CASE CleanUpInstall \/ Uninstall
  <2>1. \/ rel' = Nil
        \/ rel # Nil /\ \E st \in {rel.status, "uninstalling"} :
                           rel' = [rel EXCEPT !.status = st]
    BY <1>1, <1>3 DEF CleanUpInstall, Uninstall, IInv, WorkerInStep
  <2>2. ASSUME rel # Nil, NEW st \in {rel.status, "uninstalling"},
               rel' = [rel EXCEPT !.status = st]
        PROVE  RelStep
    <3>1. /\ rel'.owner = rel.owner /\ rel'.previous = rel.previous
          /\ rel'.manifest = rel.manifest /\ rel' \in Release
      BY <1>1, <2>2 DEF Release
    <3> QED
      BY <2>2, <3>1, AbsentAssumption DEF RelStep
  <2> QED
    BY <2>1, <2>2 DEF RelStep
<1>4. CASE RollBackUpgrade
  <2>1. /\ rel # Nil /\ rel.previous # Nil
        /\ \/ rel' = [rel EXCEPT !.status = "deployed", !.manifest = rel.previous,
                                 !.previous = Nil]
           \/ \E m \in {rel.manifest, rel.previous} :
                 rel' = [rel EXCEPT !.manifest = m, !.previous = Nil]
    BY <1>1, <1>4 DEF RollBackUpgrade, IInv, WorkerInStep
  <2>2. /\ rel'.owner = rel.owner /\ rel'.previous = Nil
        /\ rel'.manifest \in {rel.manifest, rel.previous} /\ rel' \in Release
    BY <1>1, <2>1 DEF Release
  <2> QED
    BY <2>1, <2>2, AbsentAssumption DEF RelStep
<1>5. CASE \/ StartReconcile \/ AddFinalizer \/ Pause \/ ActionClientFails
           \/ LookupRelease \/ GetValuesFails \/ ReleaseStateFails \/ GetReleaseState
           \/ ReconcileRelease \/ ApplyUninstall \/ RemoveFinalizer
           \/ WaitForDeletion \/ Apply
  <2>1. rel' = rel
    BY <1>5 DEF StartReconcile, AddFinalizer, Pause, ActionClientFails, LookupRelease,
       GetValuesFails, ReleaseStateFails, GetReleaseState, ReconcileRelease,
       ApplyUninstall, RemoveFinalizer, WaitForDeletion, Apply, helm
  <2> QED
    BY <2>1 DEF RelStep
<1> QED
  BY <1>2, <1>3, <1>4, <1>5 DEF Reconcile

LEMMA Effects ==
    ASSUME SInv, Next
    PROVE  ApiStep /\ ObjFollows /\ RelStep
<1>1. CASE Users \/ Deliver \/ TimerFires
  BY <1>1, QuietEffects DEF ObjFollows, RelStep, SInv
<1>2. CASE Reconcile
  BY <1>2, WorkerEffects, WorkerRelease DEF ApiStep, SInv
<1>3. CASE Restart
  BY <1>3, RestartEffects DEF ApiStep, ObjFollows, Relisted
<1> QED
  BY <1>1, <1>2, <1>3 DEF Next

(* An incarnation goes before another one comes.                           *)
LEMMA SameUid ==
    ASSUME IInv, ApiStep, cr' # Nil
    PROVE  \/ cr # Nil /\ cr'.uid = cr.uid
           \/ cr = Nil /\ Created /\ cr'.uid = born + 1 /\ cr'.spec \in Manifests
<1>1. CASE SameApi \/ Delivered \/ Relisted
  BY <1>1 DEF SameApi, Delivered, Relisted
<1>2. CASE Rewritten
  BY <1>2, AppendFacts DEF Rewritten
<1>3. CASE Created
  BY <1>3, AppendFacts DEF Created
<1> QED
  BY <1>1, <1>2, <1>3 DEF ApiStep
LEMMA OneIncarnationKept ==
    ASSUME SInv, IInv', ObjFollows, ApiStep, RelStep
    PROVE  OneIncarnation'
<1> SUFFICES ASSUME rel' # Nil, NEW v, Copy(v)', v # Nil
             PROVE  v.uid = rel'.owner
  BY DEF OneIncarnation
<1>1. IInv /\ UidsInOrder /\ OneIncarnation
  BY DEF SInv
<1>2. cr' # Nil /\ cr'.uid = rel'.owner
  BY DEF IInv, ReleaseIsOwned
<1>3. CASE rel # Nil /\ rel'.owner = rel.owner
  <2>1. obj # Nil => obj.uid = rel.owner
    BY <1>1, <1>3 DEF OneIncarnation, Copy
  <2>2. Copy(v) => v.uid = rel.owner
    BY <1>1, <1>3 DEF OneIncarnation
  <2> QED
    BY <1>1, <1>2, <1>3, <2>1, <2>2, CopiesFollow
<1>4. CASE /\ obj # Nil /\ Guards(obj) /\ rel'.owner = obj.uid
           /\ (SameApi /\ obj' = obj) \/ Relisted
  <2>1. CASE Relisted
    <3>1. v = cr'
      <4>1. Len(backlog') = 0
        BY <2>1 DEF Relisted
      <4> QED
        BY <2>1, <4>1 DEF Relisted, Copy
    <3> QED
      BY <1>2, <3>1
  <2>2. CASE SameApi /\ obj' = obj
    <3>1. Copy(v)
      BY <2>2 DEF SameApi, Copy
    <3>2. v.uid \in Nat /\ v.uid <= cr.uid /\ cr # Nil /\ cr.uid = obj.uid
      BY <1>1, <1>4, <3>1, CopyTypes DEF Guards, NotAfter
    <3>3. obj.uid <= v.uid
      <4>1. v = obj \/ NotAfter(obj, v)
        BY <1>1, <3>1 DEF Copy, UidsInOrder
      <4> QED
        BY <1>4, <3>2, <4>1 DEF NotAfter
    <3>4. obj.uid \in Nat
      BY <1>1, <1>4, CopyTypes DEF Copy
    <3> QED
      BY <1>4, <3>2, <3>3, <3>4
  <2> QED
    BY <1>4, <2>1, <2>2
<1> QED
  BY <1>3, <1>4 DEF RelStep

LEMMA ReleaseInStepKept ==
    ASSUME SInv, Next
    PROVE  ReleaseInStep'
<1>1. IInv /\ ReleaseInStep /\ rel \in Release \cup {Nil}
  BY DEF SInv, IInv, TypeOK
<1>2. CASE Users \/ Deliver \/ TimerFires
  <2>1. rel' = rel /\ pc' = pc
    BY <1>1, <1>2, QuietEffects
  <2> QED
    BY <1>1, <2>1 DEF ReleaseInStep
<1>3. CASE GetReleaseState
  <2>1. /\ rel' = rel /\ pc' \in {"install", "upgrade", "reconcile"}
        /\ pc' = "install" => rel = Nil
        /\ pc' = "upgrade" => rel # Nil /\ rel.status \notin {"pending", "uninstalling"}
    BY <1>3 DEF GetReleaseState, HelmRefusesUpgrade, helm
  <2> QED
    BY <1>1, <2>1 DEF ReleaseInStep, Release
<1>4. CASE Install
  <2>1. /\ pc = "install" /\ pc # "idle"
        /\ pc' \in {"apply", "cleanup"}
        /\ pc' = "cleanup" => rel' = Revision("failed", Nil)
    BY <1>1, <1>4 DEF Install, Leave, GoTo
  <2>2. pc' = "cleanup" => rel'.status = "failed" /\ rel'.previous = Nil
    BY <1>1, <2>1, RevisionFacts
  <2> QED
    BY <2>1, <2>2 DEF ReleaseInStep
<1>5. CASE Upgrade
  <2>1. /\ pc = "upgrade" /\ pc # "idle" /\ rel \in Release
        /\ pc' \in {"apply", "rollback"}
        /\ pc' = "rollback" => rel' = Revision("failed", rel.manifest)
    BY <1>1, <1>5 DEF Upgrade, Leave, GoTo, IInv, WorkerInStep
  <2>2. rel.manifest \in Manifests
    BY <2>1 DEF Release
  <2>3. pc' = "rollback" => rel' # Nil /\ rel'.status = "failed"
    BY <1>1, <2>1, <2>2, RevisionFacts
  <2> QED
    BY <2>1, <2>3 DEF ReleaseInStep
<1>6. CASE \/ Pause \/ ActionClientFails \/ LookupRelease \/ GetValuesFails
           \/ ReleaseStateFails \/ CleanUpInstall \/ RollBackUpgrade
           \/ ReconcileRelease \/ Uninstall \/ ApplyUninstall \/ RemoveFinalizer
           \/ WaitForDeletion \/ Apply
  BY <1>6 DEF Pause, ActionClientFails, LookupRelease, GetValuesFails,
     ReleaseStateFails, CleanUpInstall, RollBackUpgrade, ReconcileRelease,
     Uninstall, ApplyUninstall, RemoveFinalizer, WaitForDeletion, Apply, Leave,
     Return, ReleaseInStep
<1>7. CASE StartReconcile \/ AddFinalizer \/ Restart
  <2>1. pc' \in {"idle", "addFinalizer", "lookup"}
    BY <1>7 DEF StartReconcile, AddFinalizer, Restart, Return, GoTo
  <2> QED
    BY <2>1 DEF ReleaseInStep
<1> QED
  BY <1>2, <1>3, <1>4, <1>5, <1>6, <1>7 DEF Next, Reconcile

-----------------------------------------------------------------------------
(* What the worker's writes leave as it is                                 *)

KeepsWishes ==
    cr # Nil /\ cr' # Nil => /\ cr'.uid = cr.uid /\ cr'.deleting = cr.deleting
                             /\ SameWishes(cr', cr)

(* Writes of a copy that differs from the worker's in the status or in the *)
(* uninstall finalizer.                                                    *)
LEMMA WritesKeepWishes ==
    ASSUME IInv, FreshIsCurrent, Writable, NEW o \in CustomResource,
           SameWishes(o, obj), UNCHANGED <<born, cache, rel>>
    PROVE  /\ Store(Updated(o)) => KeepsWishes /\ cr' \in {Updated(o), Nil}
           /\ Store(StatusUpdated(o)) \/ StoreStatus(o)
                 => KeepsWishes /\ cr' = StatusUpdated(o)
<1>1. /\ cr \in CustomResource /\ cr # Nil /\ fresh /\ SameWishes(obj, cr)
  BY DEF IInv, TypeOK, Writable, FreshIsCurrent
<1>2. /\ Updated(o).uid = cr.uid /\ Updated(o).deleting = cr.deleting
      /\ SameWishes(Updated(o), o)
      /\ StatusUpdated(o).uid = cr.uid /\ StatusUpdated(o).deleting = cr.deleting
      /\ SameWishes(StatusUpdated(o), cr)
  BY <1>1 DEF Updated, StatusUpdated, CustomResource, SameWishes
<1>3. ASSUME Store(Updated(o))
      PROVE  KeepsWishes /\ cr' \in {Updated(o), Nil}
  <2>1. cr' \in {Updated(o), Nil}
    BY <1>3 DEF Store, Persisted
  <2>2. SameWishes(Updated(o), cr)
    BY <1>1, <1>2 DEF SameWishes
  <2> QED
    BY <1>2, <2>1, <2>2 DEF KeepsWishes
<1>4. ASSUME Store(StatusUpdated(o)) \/ StoreStatus(o)
      PROVE  KeepsWishes /\ cr' = StatusUpdated(o)
  <2>1. StoreStatus(o)
    BY <1>4 DEF StoreStatus
  <2>2. cr' = StatusUpdated(o)
    BY <2>1, StatusWrite
  <2> QED
    BY <1>2, <2>2 DEF KeepsWishes
<1> QED
  BY <1>3, <1>4

LEMMA FinalizerWrites ==
    ASSUME IInv, FreshIsCurrent, AddFinalizer \/ RemoveFinalizer
    PROVE  KeepsWishes /\ FreshIsCurrent'
<1>1. /\ obj \in CustomResource /\ UNCHANGED <<born, cache, rel>>
  BY DEF AddFinalizer, RemoveFinalizer, helm, IInv, TypeOK, WorkerInStep
<1>2. PICK o \in CustomResource :
         /\ SameWishes(o, obj)
         /\ \/ /\ Writable /\ Store(Updated(o)) /\ obj' = Updated(o)
               /\ fresh' => cr' # Nil
            \/ Writable /\ Store(Updated(o)) /\ ~fresh'
            \/ UNCHANGED <<cr, fresh>> /\ obj' = o
            \/ UNCHANGED cr /\ ~fresh'
  <2>1. CASE AddFinalizer
    <3> DEFINE o == [obj EXCEPT !.finalizers = @ \cup {uninstallFinalizer}]
    <3>1. o \in CustomResource /\ SameWishes(o, obj) /\ o.deleting = obj.deleting
      BY <1>1 DEF CustomResource, uninstallFinalizer, SameWishes
    <3>2. \/ /\ Writable /\ Store(Updated(o)) /\ obj' = Updated(o)
          \/ Writable /\ Store(Updated(o)) /\ ~fresh'
          \/ UNCHANGED cr /\ ~fresh'
      BY <2>1 DEF AddFinalizer, Return
    <3>3. ASSUME Writable, Store(Updated(o)) PROVE cr' # Nil
      <4>1. ~obj.deleting /\ cr \in CustomResource /\ ~cr.deleting
        BY <2>1, <3>3, FreshCopy DEF AddFinalizer, IInv, WorkerInStep
      <4>2. Updated(o) \in CustomResource /\ ~Updated(o).deleting
        BY <3>1, <4>1, UpdatedType DEF Updated, CustomResource
      <4> QED
        BY <3>3, <4>2, AbsentAssumption DEF Store, Persisted
    <3> HIDE DEF o
    <3> QED
      BY <3>1, <3>2, <3>3
  <2>2. CASE RemoveFinalizer
    <3> DEFINE o == [obj EXCEPT !.finalizers = @ \ {uninstallFinalizer}]
    <3>1. o \in CustomResource /\ SameWishes(o, obj)
      BY <1>1 DEF CustomResource, uninstallFinalizer, SameWishes
    <3>2. \/ /\ Writable /\ Store(Updated(o)) /\ obj' = Updated(o)
             /\ fresh' => cr' # Nil
          \/ Writable /\ Store(Updated(o)) /\ ~fresh'
          \/ UNCHANGED <<cr, fresh>> /\ obj' = o
      BY <2>2 DEF RemoveFinalizer
    <3> HIDE DEF o
    <3> QED
      BY <3>1, <3>2
  <2> QED
    BY <2>1, <2>2
<1>3. CASE Writable /\ Store(Updated(o)) /\ (~fresh' \/ (obj' = Updated(o) /\ cr' # Nil))
  <2>1. KeepsWishes /\ cr' \in {Updated(o), Nil}
    BY <1>1, <1>2, <1>3, WritesKeepWishes
  <2>2. fresh' => obj' = cr'
    BY <1>3, <2>1
  <2> QED
    BY <2>1, <2>2 DEF FreshIsCurrent, SameWishes
<1>4. CASE UNCHANGED cr /\ (~fresh' \/ (UNCHANGED fresh /\ obj' = o))
  <2>1. KeepsWishes
    BY <1>4 DEF KeepsWishes, SameWishes
  <2> QED
    BY <1>2, <1>4, <2>1 DEF FreshIsCurrent, SameWishes
<1> QED
  BY <1>2, <1>3, <1>4

LEMMA StatusWrites ==
    ASSUME IInv, FreshIsCurrent, ApplyUninstall \/ Apply
    PROVE  KeepsWishes /\ FreshIsCurrent'
<1>1. /\ obj \in CustomResource /\ UNCHANGED <<born, cache, rel>>
      /\ u \in Updates /\ un \in Updates
  BY DEF ApplyUninstall, Apply, helm, IInv, TypeOK, WorkerInStep
<1>2. PICK w \in Updates :
         \/ /\ Writable /\ StoreStatus([obj EXCEPT !.status = Applied(w, obj.status)])
            /\ \/ ~fresh'
               \/ obj' = StatusUpdated([obj EXCEPT !.status = Applied(w, obj.status)])
         \/ /\ Writable /\ ~fresh'
            /\ Store(StatusUpdated([obj EXCEPT !.status = Applied(w, obj.status)]))
         \/ /\ UNCHANGED cr
            /\ \/ ~fresh'
               \/ /\ UNCHANGED fresh
                  /\ obj' \in {obj, [obj EXCEPT !.status = Applied(w, obj.status)]}
  <2>1. CASE ApplyUninstall
    BY <1>1, <2>1 DEF ApplyUninstall
  <2>2. CASE Apply
    BY <1>1, <2>2 DEF Apply, Return
  <2> QED
    BY <2>1, <2>2
<1> DEFINE o == [obj EXCEPT !.status = Applied(w, obj.status)]
<1>3. o \in CustomResource /\ SameWishes(o, obj)
  <2>1. Applied(w, obj.status) \in Status
    BY <1>1, AppliedType DEF CustomResource
  <2> QED
    BY <1>1, <2>1 DEF CustomResource, SameWishes
<1> HIDE DEF o
<1>4. \/ Writable /\ StoreStatus(o) /\ (~fresh' \/ obj' = StatusUpdated(o))
      \/ Writable /\ ~fresh' /\ Store(StatusUpdated(o))
      \/ UNCHANGED cr /\ (~fresh' \/ (UNCHANGED fresh /\ obj' \in {obj, o}))
  BY <1>2 DEF o
<1>5. CASE Writable /\ (StoreStatus(o) \/ Store(StatusUpdated(o)))
           /\ (~fresh' \/ obj' = StatusUpdated(o))
  <2>1. KeepsWishes /\ cr' = StatusUpdated(o)
    BY <1>1, <1>3, <1>5, WritesKeepWishes
  <2> QED
    BY <1>5, <2>1 DEF FreshIsCurrent, SameWishes
<1>6. CASE UNCHANGED cr /\ (~fresh' \/ (UNCHANGED fresh /\ obj' \in {obj, o}))
  <2>1. KeepsWishes
    BY <1>6 DEF KeepsWishes, SameWishes
  <2> QED
    BY <1>3, <1>6, <2>1 DEF FreshIsCurrent, SameWishes
<1> QED
  BY <1>4, <1>5, <1>6

LEMMA WorkerKeepsWishes ==
    ASSUME IInv, FreshIsCurrent, Reconcile
    PROVE  KeepsWishes /\ FreshIsCurrent'
<1>1. CASE \/ Pause \/ ActionClientFails \/ LookupRelease \/ GetValuesFails
           \/ ReleaseStateFails \/ GetReleaseState \/ Install \/ CleanUpInstall
           \/ Upgrade \/ RollBackUpgrade \/ ReconcileRelease \/ Uninstall
  <2>1. UNCHANGED <<cr, obj, fresh>>
    BY <1>1 DEF Pause, ActionClientFails, LookupRelease, GetValuesFails,
       ReleaseStateFails, GetReleaseState, Install, CleanUpInstall, Upgrade,
       RollBackUpgrade, ReconcileRelease, Uninstall, api
  <2> QED
    BY <2>1 DEF KeepsWishes, FreshIsCurrent, SameWishes
<1>2. CASE StartReconcile \/ WaitForDeletion
  <2>1. /\ cr' = cr
        /\ \/ UNCHANGED <<obj, fresh>>
           \/ ~fresh'
           \/ obj' = cache /\ (fresh' => backlog = <<>>)
    BY <1>2 DEF StartReconcile, WaitForDeletion, Return, api
  <2>2. backlog = <<>> => cr = cache
    BY DEF IInv, VersionsInOrder
  <2> QED
    BY <2>1, <2>2 DEF KeepsWishes, FreshIsCurrent, SameWishes
<1>3. CASE AddFinalizer \/ RemoveFinalizer
  BY <1>3, FinalizerWrites
<1>4. CASE ApplyUninstall \/ Apply
  BY <1>4, StatusWrites
<1> QED
  BY <1>1, <1>2, <1>3, <1>4 DEF Reconcile

LEMMA FreshIsCurrentKept ==
    ASSUME IInv, FreshIsCurrent, Next
    PROVE  FreshIsCurrent'
<1>1. CASE Reconcile
  BY <1>1, WorkerKeepsWishes
<1>2. CASE Restart
  BY <1>2 DEF Restart, FreshIsCurrent
<1>3. CASE Users
  <2>1. ~fresh' \/ UNCHANGED <<cr, obj, fresh>>
    BY <1>3 DEF Users, CreateCR, EditSpec, TogglePause, DeleteCR,
       ReleaseOtherFinalizer, UserStep, Drift, api, worker
  <2> QED
    BY <2>1 DEF FreshIsCurrent, SameWishes
<1>4. CASE Deliver \/ TimerFires
  <2>1. UNCHANGED <<cr, obj, fresh>>
    BY <1>4 DEF Deliver, TimerFires, api, worker
  <2> QED
    BY <2>1 DEF FreshIsCurrent, SameWishes
<1> QED
  BY <1>1, <1>2, <1>3, <1>4 DEF Next

LEMMA StepsInit == Init => SInv
<1> SUFFICES ASSUME Init PROVE SInv
  OBVIOUS
<1>1. IInv
  BY InitInv
<1>2. /\ cr = Nil /\ backlog = <<>> /\ cache = Nil /\ obj = Nil /\ rel = Nil
      /\ pc = "idle" /\ ~fresh
  BY DEF Init
<1>3. \A v : Copy(v) => v = Nil
  BY <1>2 DEF Copy
<1>4. UidsInOrder
  <2>1. Len(backlog) = 0 /\ 1..Len(backlog) = {}
    BY <1>2
  <2> QED
    BY <1>2, <2>1 DEF UidsInOrder, NotAfter
<1>5. OneIncarnation /\ ReleaseInStep /\ FreshIsCurrent
  BY <1>2, <1>3 DEF OneIncarnation, ReleaseInStep, FreshIsCurrent
<1> QED
  BY <1>1, <1>4, <1>5 DEF SInv

LEMMA StepsStep == SInv /\ [Next]_vars => SInv'
<1>1. ASSUME SInv, Next PROVE SInv'
  <2>1. IInv /\ UidsInOrder /\ FreshIsCurrent /\ ApiStep /\ ObjFollows /\ RelStep
    BY <1>1, Effects DEF SInv
  <2>2. IInv'
    BY <1>1, <2>1, NextStep
  <2>3. UidsInOrder'
    BY <2>1, UidsKept
  <2>4. OneIncarnation'
    BY <1>1, <2>1, <2>2, OneIncarnationKept
  <2>5. ReleaseInStep'
    BY <1>1, ReleaseInStepKept
  <2>6. FreshIsCurrent'
    BY <1>1, <2>1, FreshIsCurrentKept
  <2> QED
    BY <2>2, <2>3, <2>4, <2>5, <2>6 DEF SInv
<1>2. ASSUME SInv, UNCHANGED vars PROVE SInv'
  <2>1. IInv'
    BY <1>2, NextStep DEF SInv
  <2> QED
    BY <1>2, <2>1 DEF SInv, vars, api, queue, worker, helm, budget, UidsInOrder,
       OneIncarnation, ReleaseInStep, FreshIsCurrent, SameWishes, NotAfter, Copy
<1> QED
  BY <1>1, <1>2

THEOREM StepsInvariance == Spec => []SInv
BY StepsInit, StepsStep, PTL DEF Spec

(* The worker's writes to the CR never undo a user's: its spec, its pause  *)
(* annotation and the finalizers of others are as the user left them, also *)
(* when the worker's copy was stale: every write carries the version it    *)
(* was read at (updater.go:95-120, reconciler.go:598-608).                 *)
THEOREM UsersKeepTheirEdits == Spec => NoLostUpdate
<1>1. SInv /\ Reconcile => KeepsWishes
  BY WorkerKeepsWishes DEF SInv
<1>2. SInv /\ [Next]_vars
         => [Reconcile /\ cr # Nil /\ cr' # Nil
               => /\ cr'.uid = cr.uid /\ cr'.deleting = cr.deleting
                  /\ cr'.spec = cr.spec /\ cr'.paused = cr.paused
                  /\ cr'.finalizers \ {uninstallFinalizer}
                        = cr.finalizers \ {uninstallFinalizer}]_vars
  BY <1>1 DEF KeepsWishes, SameWishes
<1> QED
  BY <1>2, StepsInvariance, PTL DEF Spec, NoLostUpdate

(* What the worker uninstalls is of a resource that is being deleted.      *)
LEMMA DeletedOwner ==
    ASSUME SInv, pc = "uninstall", rel # Nil
    PROVE  cr # Nil /\ cr.deleting /\ cr.uid = rel.owner
<1>1. obj # Nil /\ obj.deleting /\ OldCopy(obj) /\ IInv
  BY DEF SInv, IInv, WorkerInStep, CopyIsOld
<1>2. cr # Nil /\ cr.uid = rel.owner /\ obj.uid = rel.owner
  BY <1>1 DEF SInv, IInv, ReleaseIsOwned, OneIncarnation, Copy
<1>3. Follows(obj, cr)
  BY <1>1, StoredIsNewest
<1> QED
  BY <1>1, <1>2, <1>3 DEF Follows

(* Only the clean-up of a failed first installation and the uninstall of a *)
(* deleted CR's release remove one.                                        *)
LEMMA RemovalsAreDue ==
    ASSUME SInv, Next, rel # Nil, Established(rel), rel' = Nil
    PROVE  cr # Nil /\ cr.deleting /\ cr.uid = rel.owner
<1>1. IInv /\ ReleaseInStep
  BY DEF SInv
<1>2. CASE Users \/ Deliver \/ TimerFires
  BY <1>1, <1>2, QuietEffects
<1>3. CASE Restart
  <2>1. rel' \in Interrupted
    BY <1>3 DEF Restart
  <2>2. rel \in Release
    BY <1>1 DEF IInv, TypeOK
  <2>3. CASE pc \in {"install", "upgrade"} /\ rel' = Revision("pending", Nil)
    BY <1>1, <2>3, RevisionFacts
  <2>4. CASE /\ pc = "rollback"
             /\ rel' \in {[rel EXCEPT !.previous = Nil],
                          [rel EXCEPT !.status = "pending", !.manifest = rel.previous,
                                      !.previous = Nil]}
    <3>1. rel.previous \in Manifests
      BY <1>1, <2>2, <2>4 DEF IInv, WorkerInStep, Release
    <3>2. rel' \in Release
      BY <2>2, <2>4, <3>1 DEF Release
    <3> QED
      BY <3>2, AbsentAssumption
  <2>5. CASE rel' = [rel EXCEPT !.status = "uninstalling"]
    <3>1. rel' \in Release
      BY <2>2, <2>5 DEF Release
    <3> QED
      BY <3>1, AbsentAssumption
  <2> QED
    BY <2>1, <2>3, <2>4, <2>5, InterruptedFollows
<1>4. CASE Install \/ Upgrade
  <2>1. pc \in {"install", "upgrade"} /\ pc # "idle" /\ rel.manifest \in Manifests
    BY <1>1, <1>4 DEF Install, Upgrade, IInv, TypeOK, Release
  <2>2. rel' = rel \/ rel' = Revision("deployed", Nil) \/ rel' = Revision("failed", Nil)
        \/ rel' = Revision("failed", rel.manifest)
    BY <1>4 DEF Install, Upgrade, helm
  <2>3. rel' # Nil
    BY <1>1, <2>1, <2>2, RevisionFacts
  <2> QED
    BY <2>3
<1>5. CASE CleanUpInstall
  BY <1>1, <1>5 DEF CleanUpInstall, ReleaseInStep, Established
<1>6. CASE Uninstall
  BY <1>6, DeletedOwner DEF Uninstall
<1>7. CASE RollBackUpgrade
  <2>1. rel \in Release
    BY <1>1 DEF IInv, TypeOK
  <2>2. rel' = [rel EXCEPT !.status = "deployed", !.manifest = rel.previous,
                           !.previous = Nil]
        \/ \E m \in {rel.manifest, rel.previous} :
              rel' = [rel EXCEPT !.manifest = m, !.previous = Nil]
    BY <1>7 DEF RollBackUpgrade
  <2>3. rel.previous \in Manifests
    BY <1>1, <1>7, <2>1 DEF RollBackUpgrade, IInv, WorkerInStep, Release
  <2>4. rel' \in Release
    BY <2>1, <2>2, <2>3 DEF Release
  <2> QED
    BY <2>4, AbsentAssumption
<1>8. CASE \/ StartReconcile \/ AddFinalizer \/ Pause \/ ActionClientFails
           \/ LookupRelease \/ GetValuesFails \/ ReleaseStateFails \/ GetReleaseState
           \/ ReconcileRelease \/ ApplyUninstall \/ RemoveFinalizer
           \/ WaitForDeletion \/ Apply
  BY <1>8 DEF StartReconcile, AddFinalizer, Pause, ActionClientFails, LookupRelease,
     GetValuesFails, ReleaseStateFails, GetReleaseState, ReconcileRelease,
     ApplyUninstall, RemoveFinalizer, WaitForDeletion, Apply, helm
<1> QED
  BY <1>2, <1>3, <1>4, <1>5, <1>6, <1>7, <1>8 DEF Next, Reconcile

(* A release that was deployed is removed only when its own CR is being    *)
(* deleted: neither a failure (actionclient.go:197-215, 241-262) nor a     *)
(* stale copy leads to the uninstall of the release of a live CR.          *)
THEOREM LiveReleasesStay == Spec => UninstallsOnlyDeleted
<1>1. SInv /\ [Next]_vars
         => [rel # Nil /\ Established(rel) /\ rel' = Nil
               => cr # Nil /\ cr.deleting /\ cr.uid = rel.owner]_vars
  BY RemovalsAreDue
<1> QED
  BY <1>1, StepsInvariance, PTL DEF Spec, UninstallsOnlyDeleted

-----------------------------------------------------------------------------
(* The operator at rest: the inductive invariant                           *)

(* A step of somebody else than a user will wake the worker.               *)
Awake == dirty \/ "retry" \in delayed \/ backlog # <<>>

(* The pending changes w have v in field f, whatever the status is.         *)
Sets(w, f, v) == w[f].last = v /\ v \in w[f].seen

SetPaused(w) ==
    /\ Sets(w, "Paused", True("PauseReconcileAnnotationTrue"))
    /\ Sets(w, "deployedRelease", Nil)
    /\ \A f \in ConditionTypes \ {"Paused"} : Sets(w, f, Unknown)

SetUnderway(w) ==
    Sets(w, "Paused", False("")) /\ Sets(w, "Initialized", True(""))

SetDeployed(w, m) ==
    /\ SetUnderway(w)
    /\ Sets(w, "Deployed", True("InstallOrUpgradeSuccessful"))
    /\ Sets(w, "deployedRelease", m)
    /\ Sets(w, "ReleaseFailed", False(""))
    /\ Sets(w, "Irreconcilable", False(""))

DeployedAs(m) == rel # Nil /\ rel.status = "deployed" /\ rel.manifest = m

(* What the worker is about to report is what it has found or done.        *)
ReportInStep ==
    /\ result = "error" => pc \in {"applyUninstall", "apply"}
    /\ pc \in {"releaseState", "install", "upgrade", "reconcile"}
          => ~obj.paused /\ SetUnderway(u)
    /\ pc = "reconcile" => DeployedAs(obj.spec)
    /\ pc = "apply" =>
          \/ result = "error"
          \/ result = "done" /\ obj.paused /\ SetPaused(u)
          \/ /\ result = "requeue" /\ ~obj.paused /\ ~obj.deleting
             /\ DeployedAs(obj.spec) /\ SetDeployed(u, obj.spec)

(* As long as nothing will wake it, the worker works on the stored CR.     *)
WorkIsCurrent == ~Awake /\ pc # "idle" /\ result # "error" => obj = cr

RestInv == IInv /\ ReportInStep /\ WorkIsCurrent /\ AtRestDone

-----------------------------------------------------------------------------
(* What the pending changes do to a status                                 *)

LEMMA EnsureSets ==
    ASSUME NEW w \in Updates, NEW f \in Fields, NEW v
    PROVE  /\ Sets(Ensure(w, f, v), f, v)
           /\ \A g \in Fields \ {f} : \A x :
                 Sets(w, g, x) => Sets(Ensure(w, f, v), g, x)
BY SMT DEF Sets, Ensure, Updates

LEMMA EnsureUnknownSets ==
    ASSUME NEW w \in Updates, NEW types
    PROVE  /\ \A f \in Fields : f \in types => Sets(EnsureUnknown(w, types), f, Unknown)
           /\ \A f \in Fields : \A x :
                 f \notin types /\ Sets(w, f, x) => Sets(EnsureUnknown(w, types), f, x)
BY SMT DEF Sets, EnsureUnknown, Updates

LEMMA SetIsApplied ==
    ASSUME NEW w, NEW st, NEW f \in Fields, NEW v, Sets(w, f, v)
    PROVE  /\ Applied(w, st)[f] = v
           /\ ~NeedsStatusUpdate(w, st) => st[f] = v
BY DEF Sets, Applied, NeedsStatusUpdate

(* A status that has what the changes set reports it.                      *)
LEMMA Reported ==
    ASSUME NEW w, NEW st,
           \A f \in Fields : \A v : Sets(w, f, v) => st[f] = v
    PROVE  /\ SetPaused(w) => ReportsPaused(st)
           /\ \A m : SetDeployed(w, m) => ReportsDeployed(st, m)
<1>1. SetPaused(w) => ReportsPaused(st)
  BY FieldTypes DEF SetPaused, ReportsPaused
<1>2. ASSUME NEW m, SetDeployed(w, m) PROVE ReportsDeployed(st, m)
  BY <1>2, FieldTypes DEF SetDeployed, SetUnderway, ReportsDeployed
<1> QED
  BY <1>1, <1>2

LEMMA SucceededSets ==
    ASSUME NEW w \in Updates, NEW r \in Release, SetUnderway(w)
    PROVE  SetDeployed(Succeeded(w, r), r.manifest)
<1> DEFINE w1 == Ensure(w, "Deployed", True("InstallOrUpgradeSuccessful"))
           w2 == Ensure(w1, "deployedRelease", r.manifest)
           w3 == Ensure(w2, "ReleaseFailed", False(""))
           w4 == Ensure(w3, "Irreconcilable", False(""))
<1>1. w1 \in Updates
  BY EnsureType, ConditionsAreValues, ReasonTypes, FieldTypes
<1>2. w2 \in Updates
  <2>1. r.manifest \in Values
    BY DEF Release, Values
  <2> QED
    BY <1>1, <2>1, EnsureType, FieldTypes
<1>3. w3 \in Updates
  BY <1>2, EnsureType, ConditionsAreValues, ReasonTypes, FieldTypes
<1>4. SetUnderway(w1) /\ Sets(w1, "Deployed", True("InstallOrUpgradeSuccessful"))
  BY EnsureSets, FieldTypes DEF SetUnderway
<1>5. /\ SetUnderway(w2) /\ Sets(w2, "Deployed", True("InstallOrUpgradeSuccessful"))
      /\ Sets(w2, "deployedRelease", r.manifest)
  <2> HIDE DEF w1
  <2> QED
    BY <1>1, <1>4, EnsureSets, FieldTypes DEF SetUnderway
<1>6. /\ SetUnderway(w3) /\ Sets(w3, "Deployed", True("InstallOrUpgradeSuccessful"))
      /\ Sets(w3, "deployedRelease", r.manifest)
      /\ Sets(w3, "ReleaseFailed", False(""))
  <2> HIDE DEF w2
  <2> QED
    BY <1>2, <1>5, EnsureSets, FieldTypes DEF SetUnderway
<1>7. SetDeployed(w4, r.manifest)
  <2> HIDE DEF w3
  <2> QED
    BY <1>3, <1>6, EnsureSets, FieldTypes DEF SetUnderway, SetDeployed
<1> QED
  BY <1>7 DEF Succeeded, Deployed, EnsureDeployedRelease

LEMMA PauseSets ==
    ASSUME NEW w \in Updates
    PROVE  SetPaused(EnsureDeployedRelease(
                       EnsureUnknown(
                         Ensure(w, "Paused", True("PauseReconcileAnnotationTrue")),
                         ConditionTypes \ {"Paused"}), Nil))
<1> DEFINE w1 == Ensure(w, "Paused", True("PauseReconcileAnnotationTrue"))
           w2 == EnsureUnknown(w1, ConditionTypes \ {"Paused"})
           w3 == Ensure(w2, "deployedRelease", Nil)
<1>1. w1 \in Updates /\ Sets(w1, "Paused", True("PauseReconcileAnnotationTrue"))
  BY EnsureType, EnsureSets, ConditionsAreValues, ReasonTypes, FieldTypes
<1>2. /\ w2 \in Updates
      /\ Sets(w2, "Paused", True("PauseReconcileAnnotationTrue"))
      /\ \A f \in ConditionTypes \ {"Paused"} : Sets(w2, f, Unknown)
  <2> HIDE DEF w1
  <2> QED
    BY <1>1, EnsureUnknownType, EnsureUnknownSets, FieldTypes
<1>3. "deployedRelease" \notin ConditionTypes
  BY DEF ConditionTypes
<1>4. SetPaused(w3)
  <2> HIDE DEF w2
  <2> QED
    BY <1>2, <1>3, EnsureSets, FieldTypes DEF SetPaused
<1> QED
  BY <1>4 DEF EnsureDeployedRelease

-----------------------------------------------------------------------------
(* The operator at rest: the steps                                         *)

(* Nothing is to be shown while the worker will be woken.                  *)
LEMMA AwakeIsFine ==
    Awake => WorkIsCurrent /\ AtRestDone
BY DEF Awake, WorkIsCurrent, AtRestDone, AtRest

LEMMA AwakeIsFineThen == (Awake => WorkIsCurrent /\ AtRestDone)'
BY AwakeIsFine, PTL

LEMMA StoreWakes ==
    ASSUME IInv, NEW v \in CustomResource, Store(v)
    PROVE  Awake'
BY AppendFacts DEF Awake

(* A step inside Reconcile that leaves the API server alone.               *)
LEMMA StepInside ==
    ASSUME RestInv, UNCHANGED <<cr, backlog, queue, obj>>,
           pc # "idle", pc' # "idle", result' # "error" => result # "error"
    PROVE  WorkIsCurrent' /\ AtRestDone'
BY DEF RestInv, WorkIsCurrent, AtRestDone, AtRest, Awake, queue

(* Reconcile returns; only what a nil error means is of interest.          *)
LEMMA ReturnIsFine ==
    ASSUME NEW res, Return(res), delayed \subseteq {"retry", "period"},
           ~Awake' /\ res # "error" /\ cr' # Nil =>
              IF cr'.paused THEN ReportsPaused(cr'.status)
              ELSE /\ ~cr'.deleting
                   /\ rel' # Nil /\ rel'.status = "deployed"
                   /\ rel'.manifest = cr'.spec
                   /\ ReportsDeployed(cr'.status, cr'.spec)
    PROVE  ReportInStep' /\ WorkIsCurrent' /\ AtRestDone'
<1>1. pc' = "idle" /\ result' = "none"
  BY DEF Return
<1>2. res = "error" => Awake'
  BY DEF Return, Requeue, Awake
<1>3. AtRest' => ~Awake'
  BY DEF AtRest, Awake
<1> QED
  BY <1>1, <1>2, <1>3 DEF ReportInStep, WorkIsCurrent, AtRestDone

LEMMA QuietRests ==
    ASSUME RestInv, Users \/ Deliver \/ TimerFires
    PROVE  ReportInStep' /\ WorkIsCurrent' /\ AtRestDone'
<1>1. /\ IInv /\ pc' = pc /\ obj' = obj /\ u' = u /\ result' = result /\ rel' = rel
  BY DEF RestInv, Users, CreateCR, EditSpec, TogglePause, DeleteCR,
     ReleaseOtherFinalizer, UserStep, Drift, Deliver, TimerFires, worker, helm
<1>2. ReportInStep'
  BY <1>1 DEF RestInv, ReportInStep, SetUnderway, SetPaused, SetDeployed, Sets, DeployedAs
<1>3. CASE Deliver \/ TimerFires
  BY <1>2, <1>3, AwakeIsFineThen DEF Deliver, TimerFires, Awake
<1>4. CASE Drift
  BY <1>1, <1>2, <1>4 DEF Drift, RestInv, WorkIsCurrent, AtRestDone, AtRest, Awake,
     api, queue
<1>5. CASE Users /\ ~Drift
  <2>1. \E v : Store(v)
    BY <1>5 DEF Users, CreateCR, EditSpec, TogglePause, DeleteCR, ReleaseOtherFinalizer
  <2>2. Awake'
    <3>1. PICK v : backlog' = Append(backlog, Persisted(v))
      BY <2>1 DEF Store
    <3>2. Len(backlog') = Len(backlog) + 1 /\ Len(backlog) \in Nat
      BY <1>1, <3>1 DEF IInv, TypeOK
    <3> QED
      BY <3>2 DEF Awake
  <2> QED
    BY <1>2, <2>2, AwakeIsFineThen
<1> QED
  BY <1>3, <1>4, <1>5

LEMMA RestartRests ==
    ASSUME RestInv, Restart
    PROVE  ReportInStep' /\ WorkIsCurrent' /\ AtRestDone'
<1>1. pc' = "idle" /\ result' = "none" /\ cr' = cr /\ dirty' = (cr # Nil)
  BY DEF Restart
<1> QED
  BY <1>1 DEF ReportInStep, WorkIsCurrent, AtRestDone, AtRest

LEMMA StartRests ==
    ASSUME RestInv, StartReconcile
    PROVE  ReportInStep' /\ WorkIsCurrent' /\ AtRestDone'
<1>1. /\ IInv /\ pc = "idle" /\ result # "error" /\ result' = result
      /\ cr' = cr /\ backlog' = backlog
      /\ backlog = <<>> => cr = cache
  BY DEF RestInv, ReportInStep, StartReconcile, api, IInv, VersionsInOrder
<1>2. pc' \in {"idle", "addFinalizer", "lookup"}
  BY <1>1 DEF StartReconcile
<1>3. ReportInStep'
  BY <1>1, <1>2 DEF ReportInStep
<1>4. CASE cache = Nil /\ pc' = pc
  BY <1>1, <1>3, <1>4 DEF WorkIsCurrent, AtRestDone, AtRest
<1>5. CASE "retry" \in delayed'
  BY <1>3, <1>5, AwakeIsFineThen DEF Awake
<1>6. CASE obj' = cache /\ pc' # "idle"
  BY <1>1, <1>3, <1>6 DEF WorkIsCurrent, AtRestDone, AtRest, Awake
<1> QED
  BY <1>4, <1>5, <1>6 DEF StartReconcile

LEMMA FinalizerRests ==
    ASSUME RestInv, AddFinalizer \/ RemoveFinalizer
    PROVE  ReportInStep' /\ WorkIsCurrent' /\ AtRestDone'
<1>1. IInv /\ obj \in CustomResource /\ result # "error"
      /\ delayed \subseteq {"retry", "period"}
  BY DEF RestInv, ReportInStep, AddFinalizer, RemoveFinalizer, IInv, TypeOK, WorkerInStep
<1>2. ASSUME Writable, NEW o \in CustomResource, Store(Updated(o))
      PROVE  Awake'
  <2>1. Updated(o) \in CustomResource
    BY <1>1, <1>2, UpdatedType DEF Writable, IInv, TypeOK
  <2> QED
    BY <1>1, <1>2, <2>1, StoreWakes
<1>3. CASE AddFinalizer
  <2> DEFINE o == [obj EXCEPT !.finalizers = @ \cup {uninstallFinalizer}]
  <2>1. o \in CustomResource
    BY <1>1 DEF CustomResource, uninstallFinalizer
  <2>2. \/ Writable /\ Store(Updated(o)) /\ GoTo("lookup")
        \/ Return("error")
    BY <1>3 DEF AddFinalizer
  <2>3. CASE Return("error")
    BY <1>1, <2>3, ReturnIsFine
  <2>4. CASE Writable /\ Store(Updated(o)) /\ GoTo("lookup")
    <3>1. Awake'
      BY <1>2, <2>1, <2>4
    <3>2. ReportInStep'
      BY <1>1, <2>4 DEF GoTo, ReportInStep
    <3> QED
      BY <3>1, <3>2, AwakeIsFineThen
  <2> QED
    BY <2>2, <2>3, <2>4
<1>4. CASE RemoveFinalizer
  <2> DEFINE o == [obj EXCEPT !.finalizers = @ \ {uninstallFinalizer}]
  <2>1. o \in CustomResource
    BY <1>1 DEF CustomResource, uninstallFinalizer
  <2>2. \/ Writable /\ Store(Updated(o)) /\ pc' = "waitForDeletion" /\ result' = result
        \/ pc' = "apply" /\ result' = "error"
    BY <1>4 DEF RemoveFinalizer
  <2>3. CASE pc' = "apply" /\ result' = "error"
    BY <2>3 DEF ReportInStep, WorkIsCurrent, AtRestDone, AtRest
  <2>4. CASE Writable /\ Store(Updated(o)) /\ pc' = "waitForDeletion" /\ result' = result
    <3>1. Awake'
      BY <1>2, <2>1, <2>4
    <3>2. ReportInStep'
      BY <1>1, <2>4 DEF ReportInStep
    <3> QED
      BY <3>1, <3>2, AwakeIsFineThen
  <2> QED
    BY <2>2, <2>3, <2>4
<1> QED
  BY <1>3, <1>4

LEMMA ApplyRests ==
    ASSUME RestInv, Apply
    PROVE  ReportInStep' /\ WorkIsCurrent' /\ AtRestDone'
<1>1. /\ IInv /\ pc = "apply" /\ obj \in CustomResource /\ u \in Updates
      /\ delayed \subseteq {"retry", "period"} /\ UNCHANGED <<born, cache, rel>>
  BY DEF RestInv, Apply, helm, IInv, TypeOK, WorkerInStep
<1> DEFINE o == [obj EXCEPT !.status = Applied(u, obj.status)]
<1>2. PICK res :
         /\ Return(res)
         /\ \/ res = "error"
            \/ cr' = Nil
            \/ /\ res = result /\ UNCHANGED <<cr, backlog>>
               /\ ~NeedsStatusUpdate(u, obj.status)
            \/ res = result /\ Writable /\ StoreStatus(o)
  BY DEF Apply, AfterApplyError
<1>3. CASE res = "error" \/ cr' = Nil
  BY <1>1, <1>2, <1>3, ReturnIsFine
<1>4. o \in CustomResource /\ o.status = Applied(u, obj.status)
  <2>1. Applied(u, obj.status) \in Status
    BY <1>1, AppliedType DEF CustomResource
  <2> QED
    BY <1>1, <2>1 DEF CustomResource
<1> HIDE DEF o
<1>5. CASE /\ res = result /\ res # "error"
           /\ \/ UNCHANGED <<cr, backlog>> /\ ~NeedsStatusUpdate(u, obj.status)
              \/ Writable /\ StoreStatus(o)
  <2> SUFFICES ASSUME ~Awake', cr' # Nil
               PROVE  IF cr'.paused THEN ReportsPaused(cr'.status)
                      ELSE /\ ~cr'.deleting
                           /\ rel' # Nil /\ rel'.status = "deployed"
                           /\ rel'.manifest = cr'.spec
                           /\ ReportsDeployed(cr'.status, cr'.spec)
    BY <1>1, <1>2, ReturnIsFine
  <2>1. ~dirty /\ "retry" \notin delayed /\ backlog' = <<>>
    BY <1>1, <1>2 DEF Awake, Return, Requeue
  <2>2. \/ UNCHANGED <<cr, backlog>> /\ ~NeedsStatusUpdate(u, obj.status)
        \/ Writable /\ UNCHANGED <<cr, backlog>> /\ cr = StatusUpdated(o)
    <3>1. ASSUME Writable, Store(StatusUpdated(o)) PROVE FALSE
      <4>1. StatusUpdated(o) \in CustomResource
        BY <1>1, <1>4, <3>1, FreshCopy, UpdatedType
      <4> QED
        BY <1>1, <2>1, <3>1, <4>1, AppendFacts
    <3> QED
      BY <1>5, <3>1 DEF StoreStatus
  <2>3. obj = cr /\ cr' = cr
    BY <1>1, <1>5, <2>1, <2>2 DEF RestInv, WorkIsCurrent, Awake
  <2>4. ~NeedsStatusUpdate(u, cr.status) \/ cr.status = Applied(u, cr.status)
    <3>1. cr = StatusUpdated(o) => cr.status = o.status
      BY <1>1, <2>3 DEF StatusUpdated, CustomResource
    <3> QED
      BY <1>4, <2>2, <2>3, <3>1
  <2>5. \A f \in Fields : \A v : Sets(u, f, v) => cr.status[f] = v
    BY <2>4, SetIsApplied
  <2>6. /\ SetPaused(u) => ReportsPaused(cr.status)
        /\ SetDeployed(u, cr.spec) => ReportsDeployed(cr.status, cr.spec)
    BY <2>5, Reported
  <2>7. \/ cr.paused /\ SetPaused(u)
        \/ /\ ~cr.paused /\ ~cr.deleting
           /\ DeployedAs(cr.spec) /\ SetDeployed(u, cr.spec)
    BY <1>1, <1>5, <2>3 DEF RestInv, ReportInStep
  <2> QED
    BY <1>1, <2>3, <2>6, <2>7 DEF DeployedAs
<1> QED
  BY <1>2, <1>3, <1>5

LEMMA WaitRests ==
    ASSUME RestInv, WaitForDeletion
    PROVE  ReportInStep' /\ WorkIsCurrent' /\ AtRestDone'
<1>1. /\ IInv /\ delayed \subseteq {"retry", "period"}
      /\ backlog' = backlog /\ cr' = cr
      /\ backlog = <<>> => cr = cache
  BY DEF RestInv, IInv, TypeOK, VersionsInOrder, WaitForDeletion, api
<1>2. CASE cache = Nil /\ Return("done")
  <2>1. ~Awake' => cr' = Nil
    BY <1>1, <1>2 DEF Awake
  <2> QED
    BY <1>1, <1>2, <2>1, ReturnIsFine
<1>3. CASE pc' = "apply" /\ result' = "error"
  BY <1>3 DEF ReportInStep, WorkIsCurrent, AtRestDone, AtRest
<1> QED
  BY <1>2, <1>3 DEF WaitForDeletion, Leave

LEMMA ApplyUninstallRests ==
    ASSUME RestInv, ApplyUninstall
    PROVE  ReportInStep' /\ WorkIsCurrent' /\ AtRestDone'
<1>1. /\ IInv /\ pc = "applyUninstall" /\ obj \in CustomResource
      /\ un \in Updates /\ UNCHANGED <<born, cache, rel, queue>>
  BY DEF RestInv, ApplyUninstall, helm, IInv, TypeOK, WorkerInStep
<1> DEFINE o == [obj EXCEPT !.status = Applied(un, obj.status)]
<1>2. \/ pc' = "apply" /\ result' = "error"
      \/ /\ pc' = "removeFinalizer" /\ result' = result /\ result # "error"
         /\ \/ UNCHANGED <<cr, backlog, obj>>
            \/ Writable /\ StoreStatus(o) /\ obj' = StatusUpdated(o)
  BY DEF ApplyUninstall
<1>3. CASE pc' = "apply" /\ result' = "error"
  BY <1>3 DEF ReportInStep, WorkIsCurrent, AtRestDone, AtRest
<1>4. CASE /\ pc' = "removeFinalizer" /\ result' = result /\ result # "error"
           /\ UNCHANGED <<cr, backlog, obj>>
  <2>1. WorkIsCurrent' /\ AtRestDone'
    BY <1>1, <1>4, StepInside
  <2> QED
    BY <1>4, <2>1 DEF ReportInStep
<1>5. CASE /\ pc' = "removeFinalizer" /\ result' = result /\ result # "error"
           /\ Writable /\ StoreStatus(o) /\ obj' = StatusUpdated(o)
  <2>1. o \in CustomResource
    <3>1. Applied(un, obj.status) \in Status
      BY <1>1, AppliedType DEF CustomResource
    <3> QED
      BY <1>1, <3>1 DEF CustomResource
  <2> HIDE DEF o
  <2>2. obj' = cr'
    BY <1>1, <1>5, <2>1, StatusWrite
  <2> QED
    BY <1>5, <2>2 DEF ReportInStep, WorkIsCurrent, AtRestDone, AtRest
<1> QED
  BY <1>2, <1>3, <1>4, <1>5

(* The steps that only look at the release or give up.                     *)
LEMMA LookupRests ==
    ASSUME RestInv,
           \/ Pause \/ ActionClientFails \/ LookupRelease \/ GetValuesFails
           \/ ReleaseStateFails \/ GetReleaseState
    PROVE  ReportInStep' /\ WorkIsCurrent' /\ AtRestDone'
<1>1. /\ IInv /\ result # "error" /\ u \in Updates
      /\ pc \in {"lookup", "releaseState"}
      /\ UNCHANGED <<cr, backlog, queue, obj, rel>>
      /\ pc = "releaseState" => ~obj.paused /\ ~obj.deleting /\ SetUnderway(u)
      /\ rel \in Release \cup {Nil}
  BY DEF RestInv, ReportInStep, Pause, ActionClientFails, LookupRelease,
     GetValuesFails, ReleaseStateFails, GetReleaseState, api, helm,
     IInv, TypeOK, WorkerInStep, Acting
<1>2. pc' # "idle"
  BY DEF Pause, ActionClientFails, LookupRelease, GetValuesFails,
     ReleaseStateFails, GetReleaseState, Leave
<1>3. WorkIsCurrent' /\ AtRestDone'
  BY <1>1, <1>2, StepInside
<1>4. CASE ActionClientFails \/ GetValuesFails \/ ReleaseStateFails
  <2>1. pc' = "apply" /\ result' = "error"
    BY <1>4 DEF ActionClientFails, GetValuesFails, ReleaseStateFails, Leave
  <2> QED
    BY <1>3, <2>1 DEF ReportInStep
<1>5. CASE Pause
  <2>1. pc' = "apply" /\ result' = "done" /\ obj.paused /\ SetPaused(u')
    BY <1>1, <1>5, PauseSets DEF Pause, Leave
  <2>2. SetPaused(u)'
    BY <2>1 DEF SetPaused, Sets
  <2> QED
    BY <1>1, <1>3, <2>1, <2>2 DEF ReportInStep
<1>6. CASE LookupRelease
  <2>1. PICK w \in Updates : /\ u' = Ensure(w, "Initialized", True(""))
                             /\ Sets(w, "Paused", False(""))
    <3>1. Unpaused \in Updates /\ Sets(Unpaused, "Paused", False(""))
      BY <1>1, EnsureType, EnsureSets, ConditionsAreValues, ReasonTypes, FieldTypes
         DEF Unpaused
    <3> DEFINE d == Ensure(Unpaused, "Deployed", False(""))
    <3>2. d \in Updates /\ Sets(d, "Paused", False(""))
      BY <3>1, EnsureType, EnsureSets, ConditionsAreValues, ReasonTypes, FieldTypes
    <3>3. ASSUME rel # Nil
          PROVE  /\ Deployed(Unpaused, rel) \in Updates
                 /\ Sets(Deployed(Unpaused, rel), "Paused", False(""))
      <4> DEFINE d1 == Ensure(Unpaused, "Deployed", True("InstallOrUpgradeSuccessful"))
      <4>1. d1 \in Updates /\ Sets(d1, "Paused", False(""))
        BY <3>1, EnsureType, EnsureSets, ConditionsAreValues, ReasonTypes, FieldTypes
      <4>2. Sets(Ensure(d1, "deployedRelease", rel.manifest), "Paused", False(""))
        <5> HIDE DEF d1
        <5> QED
          BY <4>1, EnsureSets, FieldTypes
      <4>3. Deployed(Unpaused, rel) = Ensure(d1, "deployedRelease", rel.manifest)
        BY DEF Deployed, EnsureDeployedRelease
      <4> QED
        BY <1>1, <3>1, <3>3, <4>2, <4>3, DeployedType
    <3>4. \/ u' = Ensure(IF rel = Nil THEN d ELSE Deployed(Unpaused, rel),
                         "Initialized", True(""))
          \/ u' = Ensure(Unpaused, "Initialized", True(""))
      BY <1>6 DEF LookupRelease
    <3> HIDE DEF d
    <3> QED
      BY <3>1, <3>2, <3>3, <3>4
  <2>2. SetUnderway(u')
    BY <2>1, EnsureSets, FieldTypes DEF SetUnderway
  <2>3. SetUnderway(u)'
    BY <2>2 DEF SetUnderway, Sets
  <2>4. /\ ~obj'.paused /\ result' # "error"
        /\ pc' \in {"releaseState", "uninstall", "waitForDeletion"}
    BY <1>1, <1>6 DEF LookupRelease
  <2> QED
    BY <1>3, <2>3, <2>4 DEF ReportInStep
<1>7. CASE GetReleaseState
  <2>1. SetUnderway(Ensure(u, "Irreconcilable", False("")))
    BY <1>1, <1>7, EnsureSets, FieldTypes DEF SetUnderway, GetReleaseState
  <2>2. SetUnderway(u)'
    BY <1>7, <2>1 DEF SetUnderway, Sets, GetReleaseState
  <2>3. /\ ~obj'.paused /\ result' # "error"
        /\ pc' \in {"install", "upgrade", "reconcile"}
    BY <1>1, <1>7 DEF GetReleaseState
  <2>4. pc' = "reconcile" => DeployedAs(obj.spec)
    <3>1. rel # Nil => rel.status \in {"deployed", "failed", "pending", "uninstalling"}
      BY <1>1 DEF Release
    <3> QED
      BY <1>7, <3>1 DEF GetReleaseState, HelmRefusesUpgrade, NeedsUpgrade, DeployedAs
  <2>5. pc' = "reconcile" => DeployedAs(obj.spec)'
    BY <1>1, <2>4 DEF DeployedAs
  <2> QED
    BY <1>3, <2>2, <2>3, <2>5 DEF ReportInStep
<1> QED
  BY <1>4, <1>5, <1>6, <1>7

(* Helm's actions: what succeeded is reported, what failed is an error.    *)
LEMMA ActionRests ==
    ASSUME RestInv,
           \/ Install \/ CleanUpInstall \/ Upgrade \/ RollBackUpgrade
           \/ ReconcileRelease \/ Uninstall
    PROVE  ReportInStep' /\ WorkIsCurrent' /\ AtRestDone'
<1>1. /\ IInv /\ result # "error" /\ u \in Updates /\ obj \in CustomResource
      /\ pc # "idle"
      /\ UNCHANGED <<cr, backlog, queue, obj>>
      /\ rel \in Release \cup {Nil}
  BY DEF RestInv, ReportInStep, Install, CleanUpInstall, Upgrade, RollBackUpgrade,
     ReconcileRelease, Uninstall, api, IInv, TypeOK, WorkerInStep
<1>2. pc' # "idle"
  BY DEF Install, CleanUpInstall, Upgrade, RollBackUpgrade, ReconcileRelease,
     Uninstall, Leave, GoTo
<1>3. WorkIsCurrent' /\ AtRestDone'
  BY <1>1, <1>2, StepInside
<1>4. pc \in {"install", "upgrade", "reconcile"}
         => ~obj.paused /\ ~obj.deleting /\ SetUnderway(u)
  BY DEF RestInv, ReportInStep, IInv, WorkerInStep, Acting
<1>5. CASE pc' = "apply" /\ result' = "error"
  BY <1>3, <1>5 DEF ReportInStep
<1>6. CASE pc' \in {"applyUninstall", "cleanup", "rollback"}
           /\ (pc' = "applyUninstall" \/ result' = result)
  BY <1>1, <1>3, <1>6 DEF ReportInStep
<1>7. ASSUME pc' = "apply", result' = "requeue", ~obj.paused, ~obj.deleting,
             DeployedAs(obj.spec)', SetDeployed(u', obj.spec)
      PROVE  ReportInStep'
  <2>1. SetDeployed(u, obj.spec)'
    BY <1>1, <1>7 DEF SetDeployed, SetUnderway, Sets
  <2> QED
    BY <1>1, <1>7, <2>1 DEF ReportInStep
<1>8. CASE /\ pc \in {"install", "upgrade"} /\ pc' = "apply" /\ result' = "requeue"
           /\ rel' = Revision("deployed", Nil) /\ u' = Succeeded(u, rel')
  <2>1. /\ rel' # Nil /\ rel'.status = "deployed" /\ rel'.manifest = obj.spec
        /\ rel' \in Release
    BY <1>1, <1>8, RevisionFacts, RevisionType
  <2>2. SetDeployed(u', obj.spec)
    BY <1>1, <1>4, <1>8, <2>1, SucceededSets
  <2> QED
    BY <1>1, <1>3, <1>4, <1>7, <1>8, <2>1, <2>2 DEF DeployedAs
<1>9. CASE /\ pc = "reconcile" /\ pc' = "apply" /\ result' = "requeue" /\ rel' = rel
           /\ u' = Succeeded(Ensure(u, "ReleaseFailed", False("")), rel)
  <2> DEFINE w == Ensure(u, "ReleaseFailed", False(""))
  <2>1. DeployedAs(obj.spec)
    BY <1>9 DEF RestInv, ReportInStep
  <2>2. w \in Updates /\ SetUnderway(w)
    BY <1>1, <1>4, <1>9, EnsureType, EnsureSets, ConditionsAreValues, ReasonTypes,
       FieldTypes DEF SetUnderway
  <2>3. SetDeployed(u', obj.spec)
    <3> HIDE DEF w
    <3>1. u' = Succeeded(w, rel)
      BY <1>9 DEF w
    <3> QED
      BY <1>1, <2>1, <2>2, <3>1, SucceededSets DEF DeployedAs
  <2>4. DeployedAs(obj.spec)'
    BY <1>1, <1>9, <2>1 DEF DeployedAs
  <2> QED
    BY <1>3, <1>4, <1>7, <1>9, <2>3, <2>4
<1>10. CASE Install
  BY <1>5, <1>6, <1>8, <1>10 DEF Install, Leave, GoTo
<1>11. CASE Upgrade
  BY <1>5, <1>6, <1>8, <1>11 DEF Upgrade, Leave, GoTo
<1>12. CASE ReconcileRelease
  BY <1>5, <1>9, <1>12 DEF ReconcileRelease, Leave
<1>13. CASE Uninstall \/ CleanUpInstall \/ RollBackUpgrade
  BY <1>5, <1>6, <1>13 DEF Uninstall, CleanUpInstall, RollBackUpgrade, Leave
<1> QED
  BY <1>10, <1>11, <1>12, <1>13

-----------------------------------------------------------------------------
(* The operator at rest: the theorem                                       *)

LEMMA RestInit == Init => RestInv
<1> SUFFICES ASSUME Init PROVE RestInv
  OBVIOUS
<1>1. IInv
  BY InitInv
<1> QED
  BY <1>1 DEF Init, RestInv, ReportInStep, WorkIsCurrent, AtRestDone

LEMMA RestStep == RestInv /\ [Next]_vars => RestInv'
<1>1. ASSUME RestInv, Next PROVE RestInv'
  <2>1. IInv'
    BY <1>1, NextStep DEF RestInv
  <2>2. ReportInStep' /\ WorkIsCurrent' /\ AtRestDone'
    BY <1>1, QuietRests, RestartRests, StartRests, FinalizerRests, LookupRests,
       ActionRests, ApplyUninstallRests, WaitRests, ApplyRests DEF Next, Reconcile
  <2> QED
    BY <2>1, <2>2 DEF RestInv
<1>2. ASSUME RestInv, UNCHANGED vars PROVE RestInv'
  <2>1. IInv'
    BY <1>2, NextStep DEF RestInv
  <2>2. UNCHANGED <<cr, backlog, dirty, delayed, pc, obj, u, result, rel>>
    BY <1>2 DEF vars, api, queue, worker, helm
  <2> QED
    BY <1>2, <2>1, <2>2 DEF RestInv, ReportInStep, WorkIsCurrent, AtRestDone,
       AtRest, Awake, SetUnderway, SetPaused, SetDeployed, Sets, DeployedAs
<1> QED
  BY <1>1, <1>2

(* The inductive invariant behind NeverSleepsOverWork: what is about to be *)
(* reported is what was found or done, and while nothing is queued the     *)
(* worker's copy is the stored CR.                                         *)
THEOREM RestInvariance == Spec => []RestInv
BY RestInit, RestStep, PTL DEF Spec

(* The operator never goes to sleep over unfinished work: with the queue   *)
(* and the watch empty and no retry due, a live CR's release is deployed   *)
(* at the CR's values and reported so, a paused one is reported paused,    *)
(* and none is left being deleted.  Every return of Reconcile that leaves  *)
(* work undone is an error, and every write wakes the worker again         *)
(* (reconciler.go:598-740, updater.go:95-120).                             *)
THEOREM NeverSleepsOverWork == Spec => []AtRestDone
<1>1. RestInv => AtRestDone
  BY DEF RestInv
<1> QED
  BY <1>1, RestInvariance, PTL
=============================================================================
