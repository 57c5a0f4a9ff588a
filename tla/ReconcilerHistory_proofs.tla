---------------------- MODULE ReconcilerHistory_proofs ----------------------
(***************************************************************************)
(* Reconciler implements the lifecycle of ReleaseLifecycle, for every      *)
(* value of its constants.                                                 *)
(***************************************************************************)
EXTENDS ReconcilerHistory, Reconciler_proofs

-----------------------------------------------------------------------------
(* The inductive invariant, on top of Reconciler's                         *)

(* What a copy of the stored incarnation wants has been asked for.         *)
Wants(v) == v # Nil /\ cr # Nil /\ v.uid = cr.uid => v.spec \in asked

CopiesAsked == Wants(cr) /\ \A v : Copy(v) => Wants(v)

(* So has what the release is made of, or would be rolled back to.         *)
ReleaseAsked ==
    /\ rel = Nil => ~established
    /\ rel # Nil => /\ rel.manifest \in asked
                    /\ rel.previous \in asked \cup {Nil}
                    /\ rel.status = "deployed" => established

(* What is cleaned up has never been deployed.                             *)
NeverDeployed == pc = "cleanup" => ~established

HInv ==
    /\ IInv /\ established \in BOOLEAN
    /\ cr = Nil => asked = {}
    /\ UidsInOrder /\ OneIncarnation /\ CopiesAsked /\ ReleaseAsked
    /\ ReleaseInStep /\ FreshIsCurrent /\ NeverDeployed

LEMMA StepsHold ==
    ASSUME HInv
    PROVE  SInv
BY DEF HInv, SInv

-----------------------------------------------------------------------------
(* The history                                                             *)

LEMMA AskedGrows ==
    ASSUME Remember
    PROVE  /\ cr' # Nil => cr'.spec \in asked'
           /\ cr # Nil /\ cr' # Nil => asked \subseteq asked'
           /\ established' \in BOOLEAN
           /\ established' <=> rel' # Nil /\ (established \/ rel'.status = "deployed")
BY DEF Remember

LEMMA CopiesAskedKept ==
    ASSUME HInv, ObjFollows, ApiStep, Remember
    PROVE  CopiesAsked'
<1>1. Wants(cr)'
  BY AskedGrows DEF Wants
<1>2. ASSUME NEW v, Copy(v)', v # Nil, cr' # Nil, v.uid = cr'.uid
      PROVE  v.spec \in asked'
  <2>1. IInv /\ UidsInOrder /\ CopiesAsked
    BY DEF HInv
  <2>2. \/ Copy(v)
        \/ v = cr'
        \/ /\ obj # Nil /\ v.uid = obj.uid
           /\ \/ v.spec = obj.spec
              \/ cr # Nil /\ obj.uid = cr.uid /\ v.spec = cr.spec
    BY <1>2, <2>1, CopiesFollow
  <2>3. Wants(obj) /\ Wants(cr) /\ (Copy(v) => Wants(v))
    BY <2>1 DEF Copy, CopiesAsked
  <2>4. CASE cr # Nil /\ cr'.uid = cr.uid
    <3>1. asked \subseteq asked'
      BY <1>2, <2>4, AskedGrows
    <3>2. CASE Copy(v)
      BY <1>2, <2>3, <2>4, <3>1, <3>2 DEF Wants
    <3>3. CASE v = cr'
      BY <1>2, <3>3, AskedGrows
    <3>4. CASE /\ obj # Nil /\ v.uid = obj.uid
               /\ \/ v.spec = obj.spec
                  \/ cr # Nil /\ obj.uid = cr.uid /\ v.spec = cr.spec
      BY <1>2, <2>3, <2>4, <3>1, <3>4 DEF Wants
    <3> QED
      BY <2>2, <3>2, <3>3, <3>4
  <2>5. CASE cr = Nil /\ cr'.uid = born + 1
    <3>1. born \in Nat /\ (Copy(v) => v.uid <= born) /\ (obj # Nil => obj.uid <= born)
      BY <1>2, <2>1, CopyTypes DEF Copy
    <3>2. v = cr'
      BY <1>2, <2>2, <2>5, <3>1
    <3> QED
      BY <1>2, <3>2, AskedGrows
  <2> QED
    BY <1>2, <2>1, <2>4, <2>5, SameUid
<1> QED
  BY <1>1, <1>2 DEF CopiesAsked, Wants

LEMMA ReleaseAskedKept ==
    ASSUME HInv, IInv', ObjFollows, ApiStep, RelStep, Remember
    PROVE  ReleaseAsked'
<1>1. IInv /\ CopiesAsked /\ ReleaseAsked
  BY DEF HInv
<1>2. ASSUME rel' # Nil
      PROVE  rel'.manifest \in asked' /\ rel'.previous \in asked' \cup {Nil}
  <2>1. cr' # Nil
    BY <1>2 DEF IInv, ReleaseIsOwned
  <2>2. rel # Nil => cr # Nil
    BY <1>1 DEF IInv, ReleaseIsOwned
  <2>3. obj # Nil /\ Guards(obj) => cr # Nil /\ obj.spec \in asked
    BY <1>1 DEF Guards, CopiesAsked, Wants, Copy
  <2>4. cr # Nil => asked \subseteq asked'
    BY <2>1, AskedGrows
  <2>5. rel # Nil => rel.manifest \in asked /\ rel.previous \in asked \cup {Nil}
    BY <1>1 DEF ReleaseAsked
  <2> QED
    BY <1>2, <2>2, <2>3, <2>4, <2>5 DEF RelStep
<1> QED
  BY <1>2, AskedGrows DEF ReleaseAsked

LEMMA NeverDeployedKept ==
    ASSUME HInv, Next, Remember
    PROVE  NeverDeployed'
<1>1. IInv /\ NeverDeployed /\ ReleaseInStep /\ ReleaseAsked
  BY DEF HInv
<1>2. CASE Users \/ Deliver \/ TimerFires
  <2>1. rel' = rel /\ pc' = pc
    BY <1>1, <1>2, QuietEffects
  <2>2. pc = "cleanup" => rel.status = "failed"
    BY <1>1 DEF ReleaseInStep
  <2> QED
    BY <1>1, <2>1, <2>2, AskedGrows DEF NeverDeployed
<1>3. CASE Install
  <2>1. /\ pc # "idle" /\ ~established
        /\ pc' = "cleanup" => rel' = Revision("failed", Nil)
    BY <1>1, <1>3 DEF Install, Leave, GoTo, ReleaseInStep, ReleaseAsked
  <2>2. pc' = "cleanup" => rel'.status = "failed"
    BY <1>1, <2>1, RevisionFacts
  <2> QED
    BY <2>1, <2>2, AskedGrows DEF NeverDeployed
<1>4. CASE Restart \/ (Reconcile /\ ~Install)
  <2>1. pc' # "cleanup"
    BY <1>4 DEF Restart, Reconcile, StartReconcile, AddFinalizer, Pause,
       ActionClientFails, LookupRelease, GetValuesFails, ReleaseStateFails,
       GetReleaseState, CleanUpInstall, Upgrade, RollBackUpgrade,
       ReconcileRelease, Uninstall, ApplyUninstall, RemoveFinalizer,
       WaitForDeletion, Apply, Leave, GoTo, Return
  <2> QED
    BY <2>1 DEF NeverDeployed
<1> QED
  BY <1>2, <1>3, <1>4 DEF Next, Reconcile

LEMMA HistoryStep == HInv /\ [HNext]_hvars => HInv'
<1>1. ASSUME HInv, HNext PROVE HInv'
  <2>1. /\ Next /\ Remember /\ IInv /\ UidsInOrder
        /\ ApiStep /\ ObjFollows /\ RelStep
    BY <1>1, StepsHold, Effects DEF HNext, HInv
  <2>2. IInv'
    BY <2>1, NextStep
  <2>3. established' \in BOOLEAN /\ (cr' = Nil => asked' = {})
    BY <2>1, AskedGrows DEF Remember
  <2>4. UidsInOrder'
    BY <2>1, UidsKept
  <2>5. OneIncarnation'
    BY <1>1, <2>1, <2>2, StepsHold, OneIncarnationKept
  <2>6. CopiesAsked'
    BY <1>1, <2>1, CopiesAskedKept
  <2>7. ReleaseAsked'
    BY <1>1, <2>1, <2>2, ReleaseAskedKept
  <2>8. ReleaseInStep' /\ FreshIsCurrent'
    BY <1>1, <2>1, StepsHold, StepsStep DEF SInv
  <2>9. NeverDeployed'
    BY <1>1, <2>1, NeverDeployedKept
  <2> QED
    BY <2>2, <2>3, <2>4, <2>5, <2>6, <2>7, <2>8, <2>9 DEF HInv
<1>2. ASSUME HInv, UNCHANGED hvars PROVE HInv'
  <2>1. IInv'
    BY <1>2, NextStep DEF HInv, hvars
  <2> QED
    BY <1>2, <2>1 DEF HInv, hvars, vars, api, queue, worker, helm, budget,
       UidsInOrder, OneIncarnation, CopiesAsked, ReleaseAsked, ReleaseInStep,
       FreshIsCurrent, SameWishes, NeverDeployed, NotAfter, Copy, Wants
<1> QED
  BY <1>1, <1>2

LEMMA HistoryInit == HInit => HInv
<1> SUFFICES ASSUME HInit PROVE HInv
  OBVIOUS
<1>1. SInv
  BY StepsInit DEF HInit
<1>2. /\ cr = Nil /\ backlog = <<>> /\ cache = Nil /\ obj = Nil /\ rel = Nil
      /\ pc = "idle" /\ asked = {} /\ established = FALSE
  BY DEF HInit, Init
<1>3. \A v : Copy(v) => v = Nil
  BY <1>2 DEF Copy
<1>4. CopiesAsked /\ ReleaseAsked /\ NeverDeployed
  BY <1>2, <1>3 DEF CopiesAsked, Wants, ReleaseAsked, NeverDeployed
<1> QED
  BY <1>1, <1>2, <1>4 DEF HInv, SInv

-----------------------------------------------------------------------------
(* The steps of the lifecycle                                              *)

LEMMA Views ==
    ASSUME IInv
    PROVE  /\ cr # Nil => /\ Resource # Nil /\ Resource \in ResourceViews
                          /\ Resource.uid = cr.uid /\ Resource.deleting = cr.deleting
                          /\ Resource.guarded = (uninstallFinalizer \in cr.finalizers)
           /\ cr = Nil => Resource = Nil
           /\ rel # Nil => /\ Latest # Nil /\ Latest \in ReleaseViews
                           /\ Latest.owner = rel.owner /\ Latest.status = rel.status
                           /\ Latest.manifest = rel.manifest
           /\ rel = Nil => Latest = Nil
<1>1. /\ cr # Nil => cr.uid \in Nat \ {0} /\ cr.deleting \in BOOLEAN
      /\ rel # Nil => /\ rel.owner \in Nat \ {0} /\ rel.manifest \in Manifests
                      /\ rel.status \in {"deployed", "failed", "pending", "uninstalling"}
  BY DEF IInv, TypeOK, CustomResource, Release
<1>2. ASSUME cr # Nil
      PROVE  /\ Resource \in ResourceViews
             /\ Resource.uid = cr.uid /\ Resource.deleting = cr.deleting
             /\ Resource.guarded = (uninstallFinalizer \in cr.finalizers)
  <2> DEFINE g == uninstallFinalizer \in cr.finalizers
  <2>1. g \in BOOLEAN
    OBVIOUS
  <2>2. Resource = [uid |-> cr.uid, deleting |-> cr.deleting, guarded |-> g]
    BY <1>2 DEF Resource
  <2> HIDE DEF g
  <2>3. /\ Resource \in ResourceViews
        /\ Resource.uid = cr.uid /\ Resource.deleting = cr.deleting
        /\ Resource.guarded = g
    BY <1>1, <1>2, <2>1, <2>2 DEF ResourceViews
  <2> QED
    BY <2>3 DEF g
<1>3. ASSUME rel # Nil
      PROVE  /\ Latest \in ReleaseViews
             /\ Latest.owner = rel.owner /\ Latest.status = rel.status
             /\ Latest.manifest = rel.manifest
  BY <1>1, <1>3 DEF Latest, ReleaseViews
<1>4. (cr = Nil => Resource = Nil) /\ (rel = Nil => Latest = Nil)
  BY DEF Resource, Latest
<1> QED
  BY <1>2, <1>3, <1>4, AbsentViewAssumption

LEMMA EstablishedKept ==
    ASSUME HInv, Remember, rel' = rel
    PROVE  established' = established
<1>1. established' \in BOOLEAN /\ established \in BOOLEAN
  BY AskedGrows DEF HInv
<1>2. established' <=> established
  BY AskedGrows DEF HInv, ReleaseAsked
<1> QED
  BY <1>1, <1>2

LEMMA AskedKept ==
    ASSUME HInv, Remember,
           \/ cr = Nil /\ cr' = Nil
           \/ cr # Nil /\ cr' # Nil /\ cr'.spec \in asked
    PROVE  asked' = asked
BY DEF HInv, Remember

LEMMA SameResource ==
    ASSUME HInv, Remember, cr' = cr
    PROVE  asked' = asked /\ Resource' = Resource
<1>1. cr # Nil => cr.spec \in asked
  BY DEF HInv, CopiesAsked, Wants
<1>2. Resource' = Resource
  BY DEF Resource
<1> QED
  BY <1>1, <1>2, AskedKept

LEMMA Stutters ==
    ASSUME HInv, Remember, cr' = cr, rel' = rel
    PROVE  UNCHANGED Lifecycle!vars
<1>1. Latest' = Latest
  BY DEF Latest
<1> QED
  BY <1>1, SameResource, EstablishedKept DEF Lifecycle!vars

(* A write that changes nothing the lifecycle is about.                    *)
LEMMA Writes ==
    ASSUME HInv, Remember, rel' = rel, cr # Nil, cr' # Nil,
           cr'.uid = cr.uid, cr'.deleting = cr.deleting, cr'.spec \in asked,
           uninstallFinalizer \in cr'.finalizers
              <=> uninstallFinalizer \in cr.finalizers
    PROVE  UNCHANGED Lifecycle!vars
<1>1. asked' = asked /\ established' = established
  BY AskedKept, EstablishedKept
<1>2. (uninstallFinalizer \in cr'.finalizers)
         = (uninstallFinalizer \in cr.finalizers)
  OBVIOUS
<1>3. Resource' = Resource
  BY <1>2 DEF Resource
<1>4. Latest' = Latest
  BY DEF Latest
<1> QED
  BY <1>1, <1>3, <1>4 DEF Lifecycle!vars

LEMMA Records ==
    ASSUME HInv, HInv', Remember, cr' = cr, rel' # Nil,
           rel'.status \in {"deployed", "failed", "pending"},
           rel'.manifest \in asked,
           \/ rel = Nil /\ obj # Nil /\ Guards(obj) /\ rel'.owner = obj.uid
           \/ /\ rel # Nil /\ rel.status \in {"deployed", "failed"}
              /\ rel'.owner = rel.owner
    PROVE  Lifecycle!Next
<1>1. asked' = asked /\ Resource' = Resource
  BY SameResource
<1>2. /\ Latest' # Nil
      /\ Latest' = [owner |-> rel'.owner, status |-> rel'.status,
                    manifest |-> rel'.manifest]
      /\ Latest'.status = rel'.status
  <2>1. rel' \in Release
    BY DEF HInv, IInv, TypeOK
  <2>2. Latest' = [owner |-> rel'.owner, status |-> rel'.status,
                   manifest |-> rel'.manifest]
    BY DEF Latest
  <2>3. Latest' \in ReleaseViews /\ Latest'.status = rel'.status
    BY <2>1, <2>2 DEF ReleaseViews, Release
  <2> QED
    BY <2>2, <2>3, AbsentViewAssumption
<1>3. established' = (established \/ Latest'.status = "deployed")
  <2>1. established' \in BOOLEAN
    BY AskedGrows
  <2>2. established' <=> (established \/ Latest'.status = "deployed")
    BY <1>2, AskedGrows
  <2> QED
    BY <2>1, <2>2
<1>4. Lifecycle!Record(rel'.owner)
  BY <1>1, <1>2, <1>3 DEF Lifecycle!Record
<1>5. CASE rel = Nil /\ obj # Nil /\ Guards(obj) /\ rel'.owner = obj.uid
  <2>1. Latest = Nil /\ Resource # Nil /\ Resource.guarded /\ Resource.uid = rel'.owner
    BY <1>5, Views DEF Guards, HInv
  <2> QED
    BY <1>4, <2>1 DEF Lifecycle!Install, Lifecycle!Next
<1>6. CASE rel # Nil /\ rel.status \in {"deployed", "failed"} /\ rel'.owner = rel.owner
  <2>1. Latest # Nil /\ Latest.status \in {"deployed", "failed"}
        /\ Latest.owner = rel'.owner
    BY <1>6, Views DEF HInv
  <2> QED
    BY <1>4, <2>1 DEF Lifecycle!Upgrade, Lifecycle!Next
<1> QED
  BY <1>5, <1>6

LEMMA TakesAway ==
    ASSUME HInv, Remember, cr' = cr, rel # Nil,
           \/ rel.status = "failed" /\ ~established
           \/ cr # Nil /\ cr.deleting /\ cr.uid = rel.owner,
           rel' = Nil \/ rel' = [rel EXCEPT !.status = "uninstalling"]
    PROVE  Lifecycle!Next
<1>1. asked' = asked /\ Resource' = Resource
  BY SameResource
<1>2. /\ Latest # Nil /\ Latest.status = rel.status /\ Latest.owner = rel.owner
      /\ cr # Nil => Resource.deleting = cr.deleting /\ Resource.uid = cr.uid
  BY Views DEF HInv
<1>3. CASE rel' = Nil
  <2>1. Latest' = Nil /\ established' = FALSE
    BY <1>3 DEF Latest, Remember
  <2> QED
    BY <1>1, <1>2, <2>1 DEF Lifecycle!Uninstall, Lifecycle!Next
<1>4. CASE rel' = [rel EXCEPT !.status = "uninstalling"]
  <2>1. /\ rel \in Release /\ rel' \in Release
        /\ rel'.status = "uninstalling" /\ rel'.owner = rel.owner
        /\ rel'.manifest = rel.manifest
    BY <1>4 DEF HInv, IInv, TypeOK, Release
  <2>2. rel' # Nil
    BY <2>1, AbsentAssumption
  <2>3. Latest' = [Latest EXCEPT !.status = "uninstalling"]
    BY <2>1, <2>2 DEF Latest
  <2>4. established' = established
    <3>1. established' \in BOOLEAN /\ established \in BOOLEAN
      BY AskedGrows DEF HInv
    <3>2. established' <=> established
      BY <2>1, <2>2, AskedGrows
    <3> QED
      BY <3>1, <3>2
  <2> QED
    BY <1>1, <1>2, <2>3, <2>4 DEF Lifecycle!Uninstall, Lifecycle!Next
<1> QED
  BY <1>3, <1>4

LEMMA Overwritten ==
    ASSUME NEW r, NEW q, NEW a, NEW b, NEW c,
           r = [uid |-> a, deleting |-> b, guarded |-> c]
    PROVE  /\ q = [uid |-> a, deleting |-> TRUE, guarded |-> c]
                => q = [r EXCEPT !.deleting = TRUE]
           /\ q = [uid |-> a, deleting |-> b, guarded |-> TRUE]
                => q = [r EXCEPT !.guarded = TRUE]
           /\ q = [uid |-> a, deleting |-> b, guarded |-> FALSE]
                => q = [r EXCEPT !.guarded = FALSE]
<1>1. \A d : /\ [uid |-> a, deleting |-> d, guarded |-> c] = [r EXCEPT !.deleting = d]
             /\ [uid |-> a, deleting |-> b, guarded |-> d] = [r EXCEPT !.guarded = d]
  OBVIOUS
<1>2. ASSUME NEW d, d = TRUE, q = [uid |-> a, deleting |-> TRUE, guarded |-> c]
      PROVE  q = [r EXCEPT !.deleting = TRUE]
  <2>1. q = [uid |-> a, deleting |-> d, guarded |-> c]
    BY <1>2, Zenon
  <2>2. q = [r EXCEPT !.deleting = d]
    BY <1>1, <2>1, Zenon
  <2> QED
    BY <1>2, <2>2, Zenon
<1>3. ASSUME NEW d, NEW e \in {TRUE, FALSE}, d = e,
             q = [uid |-> a, deleting |-> b, guarded |-> e]
      PROVE  q = [r EXCEPT !.guarded = e]
  <2>1. q = [uid |-> a, deleting |-> b, guarded |-> d]
    BY <1>3, Zenon
  <2>2. q = [r EXCEPT !.guarded = d]
    BY <1>1, <2>1, Zenon
  <2> QED
    BY <1>3, <2>2, Zenon
<1> QED
  BY <1>2, <1>3, Zenon

(* Users change the resource, or nothing of it that matters here.          *)
LEMMA UsersImplement ==
    ASSUME HInv, Users, Remember
    PROVE  [Lifecycle!Next]_(Lifecycle!vars)
<1>1. /\ IInv /\ rel' = rel /\ established' = established
      /\ Latest' = Latest /\ cr \in CustomResource \cup {Nil}
      /\ cr # Nil => Persisted(cr) = cr /\ cr.spec \in asked
  <2>1. rel' = rel
    BY QuietEffects DEF HInv
  <2>2. cr # Nil => Persisted(cr) = cr /\ cr.spec \in asked
    BY DEF HInv, IInv, VersionsInOrder, CopiesAsked, Wants
  <2> QED
    BY <2>1, <2>2, EstablishedKept DEF HInv, IInv, TypeOK, Latest
<1>2. cr # Nil /\ (uninstallFinalizer \notin cr.finalizers) => rel = Nil /\ Latest = Nil
  BY <1>1 DEF IInv, ReleaseIsOwned, Latest
<1>3. CASE CreateCR
  <2>1. PICK spec \in Manifests, fs \in SUBSET {"other"} :
           Store([uid |-> born + 1, deleting |-> FALSE, paused |-> FALSE,
                  finalizers |-> fs, spec |-> spec, status |-> EmptyStatus])
    BY <1>3 DEF CreateCR
  <2> DEFINE v == [uid |-> born + 1, deleting |-> FALSE, paused |-> FALSE,
                   finalizers |-> fs, spec |-> spec, status |-> EmptyStatus]
  <2>2. born \in Nat /\ born < MaxIncarnations /\ MaxIncarnations \in Nat /\ cr = Nil
    BY <1>3, ConfigAssumption DEF CreateCR, HInv, IInv, TypeOK
  <2>3. v \in CustomResource
    BY <2>2, EmptyStatusType DEF CustomResource, uninstallFinalizer
  <2>4. cr' = v /\ cr' # Nil
    BY <2>1, <2>3, AbsentAssumption DEF Store, Persisted
  <2>5. (uninstallFinalizer \in cr'.finalizers) = FALSE
    BY <2>4 DEF uninstallFinalizer
  <2>6. Resource' = [uid |-> born + 1, deleting |-> FALSE, guarded |-> FALSE]
    BY <2>4, <2>5 DEF Resource
  <2>7. Resource = Nil /\ born + 1 \in 1..MaxIncarnations /\ asked' = {spec}
    BY <2>2, <2>4 DEF Resource, Remember
  <2> QED
    BY <1>1, <2>6, <2>7 DEF Lifecycle!Create, Lifecycle!Next
<1>4. CASE EditSpec
  <2>1. PICK spec \in Manifests : Store([cr EXCEPT !.spec = spec])
    BY <1>4 DEF EditSpec
  <2>2. cr \in CustomResource /\ cr # Nil
    BY <1>1, <1>4 DEF EditSpec
  <2>3. /\ cr' = [cr EXCEPT !.spec = spec] /\ cr' \in CustomResource
        /\ cr'.spec = spec /\ cr'.uid = cr.uid /\ cr'.deleting = cr.deleting
        /\ cr'.finalizers = cr.finalizers
    BY <1>1, <2>1, <2>2, AbsentAssumption DEF Store, Persisted, CustomResource
  <2>4. cr' # Nil
    BY <2>3, AbsentAssumption
  <2>5. Resource' = Resource /\ Resource # Nil
    BY <1>1, <2>2, <2>3, <2>4, Views DEF Resource
  <2>6. asked' = asked \cup {spec}
    BY <2>2, <2>3, <2>4 DEF Remember
  <2> QED
    BY <1>1, <2>5, <2>6 DEF Lifecycle!Ask, Lifecycle!Next
<1>5. CASE TogglePause
  <2>1. cr \in CustomResource /\ cr # Nil
    BY <1>1, <1>5 DEF TogglePause
  <2>2. /\ cr' = [cr EXCEPT !.paused = ~cr.paused] /\ cr' \in CustomResource
        /\ cr'.spec = cr.spec /\ cr'.uid = cr.uid /\ cr'.deleting = cr.deleting
        /\ cr'.finalizers = cr.finalizers
    BY <1>1, <1>5, <2>1, AbsentAssumption
       DEF TogglePause, Store, Persisted, CustomResource
  <2> QED
    BY <1>1, <2>1, <2>2, Writes, AbsentAssumption
<1>6. CASE DeleteCR \/ ReleaseOtherFinalizer
  <2>1. cr \in CustomResource /\ cr # Nil
    BY <1>1, <1>6 DEF DeleteCR, ReleaseOtherFinalizer
  <2> DEFINE fs == IF DeleteCR THEN cr.finalizers ELSE cr.finalizers \ {"other"}
             v == [cr EXCEPT !.deleting = TRUE, !.finalizers = fs]
  <2>2. Store(v)
    <3>1. CASE DeleteCR
      <4>1. v = [cr EXCEPT !.deleting = TRUE]
        BY <2>1, <3>1 DEF CustomResource
      <4> QED
        BY <3>1, <4>1 DEF DeleteCR
    <3>2. CASE ~DeleteCR
      <4>1. cr.deleting = TRUE
        BY <1>6, <2>1, <3>2 DEF ReleaseOtherFinalizer, CustomResource
      <4>2. v = [cr EXCEPT !.finalizers = cr.finalizers \ {"other"}]
        BY <2>1, <3>2, <4>1 DEF CustomResource
      <4> QED
        BY <1>6, <3>2, <4>2 DEF ReleaseOtherFinalizer
    <3> QED
      BY <3>1, <3>2
  <2>3. /\ uninstallFinalizer \in fs <=> uninstallFinalizer \in cr.finalizers
        /\ ~DeleteCR => cr.deleting
    BY <1>6 DEF uninstallFinalizer, ReleaseOtherFinalizer
  <2>4. /\ v.deleting = TRUE /\ v.finalizers = fs /\ v.uid = cr.uid
        /\ v.spec = cr.spec /\ v # Nil
    <3>1. v \in CustomResource
      <4>1. fs \in SUBSET {uninstallFinalizer, "other"}
        BY <2>1 DEF CustomResource
      <4> QED
        BY <2>1, <4>1 DEF CustomResource
    <3> QED
      BY <2>1, <3>1, AbsentAssumption DEF CustomResource
  <2> HIDE DEF fs, v
  <2>5. cr' = IF fs = {} THEN Nil ELSE v
    BY <2>2, <2>4 DEF Store, Persisted
  <2>6. /\ Resource # Nil /\ Resource.deleting = cr.deleting
        /\ Resource.guarded = (uninstallFinalizer \in cr.finalizers)
        /\ Resource = [uid |-> cr.uid, deleting |-> cr.deleting,
                       guarded |-> uninstallFinalizer \in cr.finalizers]
    BY <1>1, <2>1, Views DEF Resource
  <2>7. CASE fs = {}
    <3>1. cr' = Nil /\ asked' = {} /\ Resource' = Nil
      BY <2>5, <2>7 DEF Remember, Resource
    <3>2. Latest = Nil /\ ~Resource.guarded
      BY <1>2, <2>1, <2>3, <2>6, <2>7
    <3> QED
      BY <1>1, <2>6, <3>1, <3>2 DEF Lifecycle!Vanish, Lifecycle!Next
  <2>8. CASE fs # {}
    <3>1. cr' = v /\ cr' # Nil
      BY <2>4, <2>5, <2>8
    <3>2. asked' = asked
      BY <1>1, <2>1, <2>4, <3>1, AskedKept
    <3>3. (uninstallFinalizer \in v.finalizers) = (uninstallFinalizer \in cr.finalizers)
      BY <2>3, <2>4
    <3>4. Resource' = [uid |-> cr.uid, deleting |-> TRUE,
                       guarded |-> uninstallFinalizer \in cr.finalizers]
      BY <2>4, <3>1, <3>3 DEF Resource
    <3> DEFINE g == uninstallFinalizer \in cr.finalizers
    <3>5. /\ Resource' = [uid |-> cr.uid, deleting |-> TRUE, guarded |-> g]
          /\ Resource = [uid |-> cr.uid, deleting |-> cr.deleting, guarded |-> g]
      BY <2>6, <3>4
    <3> HIDE DEF g
    <3>6. Resource' = [Resource EXCEPT !.deleting = TRUE]
      BY <3>5, Overwritten, Zenon
    <3> QED
      BY <1>1, <2>6, <3>2, <3>6 DEF Lifecycle!Delete, Lifecycle!Next
  <2> QED
    BY <2>7, <2>8
<1>7. CASE Drift
  <2>1. cr' = cr
    BY <1>7 DEF Drift, api
  <2> QED
    BY <1>1, <2>1, Stutters
<1> QED
  BY <1>3, <1>4, <1>5, <1>6, <1>7 DEF Users

(* Forgetting what to roll back to is no step of the lifecycle.            *)
LEMMA KeepsRevision ==
    ASSUME HInv, Remember, cr' = cr, rel # Nil, rel.status # "deployed",
           rel' = [rel EXCEPT !.previous = Nil]
    PROVE  UNCHANGED Lifecycle!vars
<1>1. /\ rel \in Release /\ rel' \in Release /\ rel'.status = rel.status
      /\ rel'.owner = rel.owner /\ rel'.manifest = rel.manifest
  BY DEF HInv, IInv, TypeOK, Release
<1>2. rel' # Nil
  BY <1>1, AbsentAssumption
<1>3. Latest' = Latest
  BY <1>1, <1>2 DEF Latest
<1>4. established' = established
  <2>1. established' \in BOOLEAN /\ established \in BOOLEAN
    BY AskedGrows DEF HInv
  <2>2. established' <=> established
    BY <1>1, <1>2, AskedGrows
  <2> QED
    BY <2>1, <2>2
<1> QED
  BY <1>3, <1>4, SameResource DEF Lifecycle!vars

(* The worker's writes to the resource.                                    *)
LEMMA StatusIsNotTheLifecycle ==
    ASSUME HInv, Remember, Writable, NEW o \in CustomResource,
           StoreStatus(o) \/ Store(StatusUpdated(o)),
           rel' = rel, cache' = cache, born' = born
    PROVE  UNCHANGED Lifecycle!vars
<1>1. cr' = StatusUpdated(o) /\ cr' # Nil
  BY StatusWrite DEF StoreStatus, HInv
<1>2. cr \in CustomResource /\ cr # Nil /\ cr.spec \in asked
  BY DEF Writable, HInv, IInv, TypeOK, CopiesAsked, Wants
<1>3. /\ cr'.uid = cr.uid /\ cr'.deleting = cr.deleting /\ cr'.spec = cr.spec
      /\ cr'.finalizers = cr.finalizers
  BY <1>1, <1>2 DEF StatusUpdated, CustomResource
<1> QED
  BY <1>1, <1>2, <1>3, Writes

LEMMA FinalizerImplements ==
    ASSUME HInv, AddFinalizer \/ RemoveFinalizer, Remember
    PROVE  [Lifecycle!Next]_(Lifecycle!vars)
<1>1. /\ IInv /\ rel' = rel /\ established' = established /\ Latest' = Latest
  <2>1. rel' = rel
    BY DEF AddFinalizer, RemoveFinalizer, helm
  <2> QED
    BY <2>1, EstablishedKept DEF HInv, Latest
<1>2. CASE cr' = cr
  BY <1>1, <1>2, Stutters
<1>3. ASSUME Writable, AddFinalizer,
             Store(Updated([obj EXCEPT !.finalizers = @ \cup {uninstallFinalizer}]))
      PROVE  Lifecycle!Next
  <2> DEFINE o == [obj EXCEPT !.finalizers = @ \cup {uninstallFinalizer}]
  <2>1. /\ obj \in CustomResource /\ cr \in CustomResource /\ cr # Nil
        /\ obj.uid = cr.uid /\ ~cr.deleting /\ obj # Nil
    BY <1>1, <1>3, FreshCopy DEF IInv, WorkerInStep, AddFinalizer, Writable
  <2>2. /\ o.spec = obj.spec /\ o.finalizers = obj.finalizers \cup {uninstallFinalizer}
        /\ o \in CustomResource
    BY <2>1 DEF CustomResource, uninstallFinalizer
  <2> HIDE DEF o
  <2>3. /\ Updated(o) \in CustomResource /\ Updated(o).uid = cr.uid
        /\ ~Updated(o).deleting /\ Updated(o).spec = obj.spec
        /\ uninstallFinalizer \in Updated(o).finalizers
    BY <2>1, <2>2 DEF Updated, CustomResource
  <2>4. cr' = Updated(o) /\ cr' # Nil
    BY <1>3, <2>3, AbsentAssumption DEF Store, Persisted, o
  <2>5. obj.spec \in asked
    BY <2>1 DEF HInv, CopiesAsked, Copy, Wants
  <2>6. asked' = asked
    BY <2>1, <2>3, <2>4, <2>5, AskedKept
  <2>7. /\ (uninstallFinalizer \in cr'.finalizers) = TRUE
        /\ cr.deleting = FALSE /\ cr'.deleting = FALSE /\ cr'.uid = cr.uid
    BY <2>1, <2>3, <2>4 DEF CustomResource
  <2>8. Resource' = [uid |-> cr.uid, deleting |-> FALSE, guarded |-> TRUE]
    BY <2>4, <2>7 DEF Resource
  <2>9. /\ Resource # Nil /\ Resource \in ResourceViews
        /\ Resource.deleting = FALSE /\ Resource.uid = cr.uid
    BY <1>1, <2>1, <2>7, Views
  <2>10. Resource' = [Resource EXCEPT !.guarded = TRUE]
    <3> DEFINE g == uninstallFinalizer \in cr.finalizers
    <3>1. Resource = [uid |-> cr.uid, deleting |-> FALSE, guarded |-> g]
      BY <2>1, <2>7 DEF Resource
    <3> HIDE DEF g
    <3> QED
      BY <2>8, <3>1, Overwritten, Zenon
  <2> QED
    BY <1>1, <2>6, <2>9, <2>10 DEF Lifecycle!Guard, Lifecycle!Next
<1>4. ASSUME Writable, RemoveFinalizer,
             Store(Updated([obj EXCEPT !.finalizers = @ \ {uninstallFinalizer}]))
      PROVE  Lifecycle!Next
  <2> DEFINE o == [obj EXCEPT !.finalizers = @ \ {uninstallFinalizer}]
  <2>1. /\ obj \in CustomResource /\ cr \in CustomResource /\ cr # Nil
        /\ obj.uid = cr.uid /\ cr.deleting /\ obj # Nil /\ rel = Nil
    BY <1>1, <1>4, FreshCopy DEF IInv, WorkerInStep, RemoveFinalizer, Writable
  <2>2. /\ o.spec = obj.spec /\ o.finalizers = obj.finalizers \ {uninstallFinalizer}
        /\ o \in CustomResource
    BY <2>1 DEF CustomResource
  <2> HIDE DEF o
  <2>3. /\ Updated(o) \in CustomResource /\ Updated(o).uid = cr.uid
        /\ Updated(o).deleting = TRUE /\ Updated(o).spec = obj.spec
        /\ uninstallFinalizer \notin Updated(o).finalizers
    BY <2>1, <2>2 DEF Updated, CustomResource
  <2>4. cr' = Updated(o) \/ cr' = Nil
    BY <1>4 DEF Store, Persisted, o
  <2>5. obj.spec \in asked
    BY <2>1 DEF HInv, CopiesAsked, Copy, Wants
  <2>6. /\ Resource # Nil /\ Resource \in ResourceViews
        /\ Resource.deleting /\ Resource.deleting = TRUE /\ Resource.uid = cr.uid
        /\ Latest = Nil
    BY <1>1, <2>1, Views DEF CustomResource
  <2>7. CASE cr' = Nil
    <3>1. asked' = {} /\ Resource' = Nil
      BY <2>7 DEF Remember, Resource
    <3> QED
      BY <1>1, <2>6, <3>1 DEF Lifecycle!Vanish, Lifecycle!Next
  <2>8. CASE cr' = Updated(o) /\ cr' # Nil
    <3>1. asked' = asked
      BY <2>1, <2>3, <2>5, <2>8, AskedKept
    <3>2. /\ (uninstallFinalizer \in cr'.finalizers) = FALSE
          /\ cr'.deleting = TRUE /\ cr'.uid = cr.uid
      BY <2>3, <2>8
    <3>3. Resource' = [uid |-> cr.uid, deleting |-> TRUE, guarded |-> FALSE]
      BY <2>8, <3>2 DEF Resource
    <3>4. Resource' = [Resource EXCEPT !.guarded = FALSE]
      <4> DEFINE g == uninstallFinalizer \in cr.finalizers
      <4>1. Resource = [uid |-> cr.uid, deleting |-> cr.deleting, guarded |-> g]
        BY <2>1 DEF Resource
      <4>2. Resource = [uid |-> cr.uid, deleting |-> TRUE, guarded |-> g]
        <5>1. cr.deleting = TRUE
          BY <2>1 DEF CustomResource
        <5> QED
          BY <4>1, <5>1, Zenon
      <4> HIDE DEF g
      <4> QED
        BY <3>3, <4>2, Overwritten, Zenon
    <3> QED
      BY <1>1, <2>6, <3>1, <3>4 DEF Lifecycle!LetGo, Lifecycle!Next
  <2> QED
    BY <2>4, <2>7, <2>8
<1>5. \/ cr' = cr
      \/ /\ Writable /\ AddFinalizer
         /\ Store(Updated([obj EXCEPT !.finalizers = @ \cup {uninstallFinalizer}]))
      \/ /\ Writable /\ RemoveFinalizer
         /\ Store(Updated([obj EXCEPT !.finalizers = @ \ {uninstallFinalizer}]))
  <2>1. CASE AddFinalizer
    BY <2>1 DEF AddFinalizer
  <2>2. CASE RemoveFinalizer
    BY <2>2 DEF RemoveFinalizer
  <2> QED
    BY <2>1, <2>2
<1> QED
  BY <1>2, <1>3, <1>4, <1>5

LEMMA ApplyImplements ==
    ASSUME HInv, ApplyUninstall \/ Apply, Remember
    PROVE  UNCHANGED Lifecycle!vars
<1>1. /\ obj \in CustomResource /\ rel' = rel /\ cache' = cache /\ born' = born
      /\ u \in Updates /\ un \in Updates
  BY DEF HInv, IInv, TypeOK, WorkerInStep, ApplyUninstall, Apply, helm
<1>2. ASSUME NEW w \in Updates
      PROVE  [obj EXCEPT !.status = Applied(w, obj.status)] \in CustomResource
  <2>1. Applied(w, obj.status) \in Status
    BY <1>1, AppliedType DEF CustomResource
  <2> QED
    BY <1>1, <2>1 DEF CustomResource
<1>3. \/ cr' = cr
      \/ \E w \in {u, un} :
            /\ Writable
            /\ \/ StoreStatus([obj EXCEPT !.status = Applied(w, obj.status)])
               \/ Store(StatusUpdated([obj EXCEPT !.status = Applied(w, obj.status)]))
  <2>1. CASE ApplyUninstall
    BY <2>1 DEF ApplyUninstall
  <2>2. CASE Apply
    BY <2>2 DEF Apply
  <2> QED
    BY <2>1, <2>2
<1>4. CASE cr' = cr
  BY <1>1, <1>4, Stutters
<1>5. ASSUME NEW w \in {u, un}, Writable,
             \/ StoreStatus([obj EXCEPT !.status = Applied(w, obj.status)])
             \/ Store(StatusUpdated([obj EXCEPT !.status = Applied(w, obj.status)]))
      PROVE  UNCHANGED Lifecycle!vars
  <2> DEFINE o == [obj EXCEPT !.status = Applied(w, obj.status)]
  <2>1. o \in CustomResource
    BY <1>1, <1>2
  <2>2. StoreStatus(o) \/ Store(StatusUpdated(o))
    BY <1>5
  <2> HIDE DEF o
  <2> QED
    BY <1>1, <1>5, <2>1, <2>2, StatusIsNotTheLifecycle
<1> QED
  BY <1>3, <1>4, <1>5

-----------------------------------------------------------------------------
(* What Helm does                                                          *)

LEMMA HelmImplements ==
    ASSUME HInv, HInv', Remember,
           Install \/ Upgrade \/ RollBackUpgrade \/ CleanUpInstall \/ Uninstall
    PROVE  [Lifecycle!Next]_(Lifecycle!vars)
<1>1. /\ IInv /\ ReleaseInStep /\ ReleaseAsked /\ cr' = cr
      /\ rel \in Release \cup {Nil} /\ NeverDeployed /\ SInv
  BY StepsHold DEF HInv, IInv, TypeOK, Install, Upgrade, RollBackUpgrade, CleanUpInstall,
     Uninstall, api
<1>2. CASE rel' = rel
  BY <1>1, <1>2, Stutters
<1>3. ASSUME Install \/ Upgrade, rel' # rel PROVE Lifecycle!Next
  <2>1. pc \in {"install", "upgrade"} /\ obj # Nil /\ Guards(obj) /\ pc # "idle"
    BY <1>1, <1>3, ActingObj DEF Install, Upgrade
  <2>2. PICK st \in {"deployed", "failed"}, m \in {Nil, rel.manifest} :
           /\ rel' = Revision(st, m)
           /\ m # Nil => pc = "upgrade"
    BY <1>3 DEF Install, Upgrade, helm
  <2>3. m \in Manifests \cup {Nil}
    BY <1>1, <2>2 DEF IInv, WorkerInStep, Release
  <2>4. /\ rel' # Nil /\ rel'.owner = obj.uid /\ rel'.manifest = obj.spec
        /\ rel'.status = st
    BY <1>1, <2>1, <2>2, <2>3, RevisionFacts
  <2>5. obj.spec \in asked
    BY <2>1 DEF HInv, CopiesAsked, Copy, Wants, Guards
  <2>6. CASE pc = "install"
    BY <1>1, <2>1, <2>4, <2>5, <2>6, Records DEF ReleaseInStep
  <2>7. CASE pc = "upgrade"
    <3>1. rel # Nil /\ rel.status \in {"deployed", "failed"} /\ rel.owner = obj.uid
      BY <1>1, <2>1, <2>7 DEF ReleaseInStep, IInv, WorkerInStep, ReleaseIsOwned, Guards
    <3> QED
      BY <1>1, <2>4, <2>5, <3>1, Records
  <2> QED
    BY <2>1, <2>6, <2>7
<1>4. CASE RollBackUpgrade
  <2>1. /\ rel # Nil /\ rel \in Release /\ rel.previous \in Manifests
        /\ rel.status = "failed" /\ rel.previous \in asked
    BY <1>1, <1>4 DEF RollBackUpgrade, IInv, WorkerInStep, ReleaseInStep,
       ReleaseAsked, Release
  <2>2. CASE rel' = [rel EXCEPT !.status = "deployed", !.manifest = rel.previous,
                                !.previous = Nil]
    <3>1. /\ rel' \in Release /\ rel'.status = "deployed" /\ rel'.owner = rel.owner
          /\ rel'.manifest = rel.previous
      BY <2>1, <2>2 DEF Release
    <3> QED
      BY <1>1, <2>1, <3>1, Records, AbsentAssumption
  <2>3. ASSUME NEW m \in {rel.manifest, rel.previous},
               rel' = [rel EXCEPT !.manifest = m, !.previous = Nil]
        PROVE  Lifecycle!Next
    <3>1. /\ rel' \in Release /\ rel'.status = "failed" /\ rel'.owner = rel.owner
          /\ rel'.manifest = m /\ m \in asked
      BY <1>1, <2>1, <2>3 DEF Release, ReleaseAsked
    <3> QED
      BY <1>1, <2>1, <3>1, Records, AbsentAssumption
  <2> QED
    BY <1>4, <2>2, <2>3 DEF RollBackUpgrade
<1>5. CASE CleanUpInstall
  <2>1. /\ rel # Nil /\ rel \in Release /\ rel.status = "failed" /\ ~established
    BY <1>1, <1>5 DEF CleanUpInstall, IInv, WorkerInStep, ReleaseInStep,
       NeverDeployed
  <2>2. rel' = Nil \/ rel' = [rel EXCEPT !.status = "uninstalling"]
                   \/ rel' = [rel EXCEPT !.status = rel.status]
    BY <1>5 DEF CleanUpInstall
  <2>3. [rel EXCEPT !.status = rel.status] = rel
    BY <2>1 DEF Release
  <2> QED
    BY <1>1, <1>2, <2>1, <2>2, <2>3, TakesAway
<1>6. CASE Uninstall /\ rel # Nil
  <2>1. cr # Nil /\ cr.deleting /\ cr.uid = rel.owner
    BY <1>1, <1>6, DeletedOwner DEF Uninstall
  <2>2. rel' = Nil \/ rel' = [rel EXCEPT !.status = "uninstalling"]
                   \/ rel' = [rel EXCEPT !.status = rel.status]
    BY <1>6 DEF Uninstall
  <2>3. [rel EXCEPT !.status = rel.status] = rel
    BY <1>1, <1>6 DEF Release
  <2> QED
    BY <1>1, <1>2, <1>6, <2>1, <2>2, <2>3, TakesAway
<1>7. CASE Uninstall /\ rel = Nil
  BY <1>2, <1>7 DEF Uninstall
<1> QED
  BY <1>2, <1>3, <1>4, <1>5, <1>6, <1>7

LEMMA RestartImplements ==
    ASSUME HInv, HInv', Remember, Restart
    PROVE  [Lifecycle!Next]_(Lifecycle!vars)
<1>1. /\ IInv /\ ReleaseInStep /\ ReleaseAsked /\ cr' = cr /\ rel' \in Interrupted
      /\ rel \in Release \cup {Nil} /\ NeverDeployed /\ SInv
  BY StepsHold DEF HInv, IInv, TypeOK, Restart
<1>2. CASE rel' = rel
  BY <1>1, <1>2, Stutters
<1>3. CASE pc \in {"install", "upgrade"} /\ rel' = Revision("pending", Nil)
  <2>1. obj # Nil /\ Guards(obj) /\ pc # "idle"
    BY <1>1, <1>3, ActingObj
  <2>2. /\ rel' # Nil /\ rel'.owner = obj.uid /\ rel'.manifest = obj.spec
        /\ rel'.status = "pending"
    BY <1>1, <1>3, <2>1, RevisionFacts
  <2>3. obj.spec \in asked
    BY <2>1 DEF HInv, CopiesAsked, Copy, Wants, Guards
  <2>4. CASE pc = "install"
    BY <1>1, <2>1, <2>2, <2>3, <2>4, Records DEF ReleaseInStep
  <2>5. CASE pc = "upgrade"
    <3>1. rel # Nil /\ rel.status \in {"deployed", "failed"} /\ rel.owner = obj.uid
      BY <1>1, <2>1, <2>5 DEF ReleaseInStep, IInv, WorkerInStep, ReleaseIsOwned, Guards
    <3> QED
      BY <1>1, <2>2, <2>3, <3>1, Records
  <2> QED
    BY <1>3, <2>4, <2>5
<1>4. CASE /\ pc = "rollback" /\ rel # Nil /\ rel.previous # Nil
           /\ rel' \in {[rel EXCEPT !.previous = Nil],
                        [rel EXCEPT !.status = "pending", !.manifest = rel.previous,
                                    !.previous = Nil]}
  <2>1. /\ rel \in Release /\ rel.previous \in Manifests
        /\ rel.status = "failed" /\ rel.previous \in asked
    BY <1>1, <1>4 DEF ReleaseInStep, ReleaseAsked, Release
  <2>2. CASE rel' = [rel EXCEPT !.status = "pending", !.manifest = rel.previous,
                                !.previous = Nil]
    <3>1. /\ rel' \in Release /\ rel'.status = "pending" /\ rel'.owner = rel.owner
          /\ rel'.manifest = rel.previous
      BY <2>1, <2>2 DEF Release
    <3> QED
      BY <1>1, <1>4, <2>1, <3>1, Records, AbsentAssumption
  <2>3. CASE rel' = [rel EXCEPT !.previous = Nil]
    BY <1>1, <1>4, <2>1, <2>3, KeepsRevision
  <2> QED
    BY <1>4, <2>2, <2>3
<1>5. CASE /\ pc \in {"cleanup", "uninstall"} /\ rel # Nil
           /\ rel' = [rel EXCEPT !.status = "uninstalling"]
  BY <1>1, <1>5, DeletedOwner, TakesAway DEF ReleaseInStep, NeverDeployed
<1> QED
  BY <1>1, <1>2, <1>3, <1>4, <1>5, InterruptedFollows

LEMMA LifecycleStep ==
    HInv /\ HInv' /\ [HNext]_hvars => [Lifecycle!Next]_(Lifecycle!vars)
<1> SUFFICES ASSUME HInv, HInv', [HNext]_hvars
             PROVE  [Lifecycle!Next]_(Lifecycle!vars)
  OBVIOUS
<1>1. CASE Users /\ Remember
  BY <1>1, UsersImplement
<1>2. CASE (Deliver \/ TimerFires) /\ Remember
  <2>1. cr' = cr /\ rel' = rel
    BY <1>2 DEF Deliver, TimerFires, api, helm
  <2> QED
    BY <1>2, <2>1, Stutters
<1>3. CASE (AddFinalizer \/ RemoveFinalizer) /\ Remember
  BY <1>3, FinalizerImplements
<1>4. CASE (ApplyUninstall \/ Apply) /\ Remember
  BY <1>4, ApplyImplements
<1>5. CASE /\ Install \/ Upgrade \/ RollBackUpgrade \/ CleanUpInstall \/ Uninstall
           /\ Remember
  BY <1>5, HelmImplements
<1>6. CASE /\ \/ StartReconcile \/ Pause \/ ActionClientFails \/ LookupRelease
              \/ GetValuesFails \/ ReleaseStateFails \/ GetReleaseState
              \/ ReconcileRelease \/ WaitForDeletion
           /\ Remember
  <2>1. cr' = cr /\ rel' = rel
    BY <1>6 DEF StartReconcile, Pause, ActionClientFails, LookupRelease,
       GetValuesFails, ReleaseStateFails, GetReleaseState, ReconcileRelease,
       WaitForDeletion, api, helm
  <2> QED
    BY <1>6, <2>1, Stutters
<1>7. CASE Restart /\ Remember
  BY <1>7, RestartImplements
<1>8. CASE UNCHANGED hvars
  BY <1>8 DEF hvars, vars, api, helm, Lifecycle!vars, Resource, Latest
<1> QED
  BY <1>1, <1>2, <1>3, <1>4, <1>5, <1>6, <1>7, <1>8 DEF HNext, Next, Reconcile

LEMMA LifecycleInit == HInit => Lifecycle!Init
BY DEF HInit, Init, Lifecycle!Init, Resource, Latest

(* A release is made for a stored, guarded resource from values it has     *)
(* asked for, goes only with it once it was deployed, and is left alone    *)
(* while it is pending or half uninstalled: Reconcile, handleDeletion and  *)
(* the action client (reconciler.go:589-943, actionclient.go:250-380)      *)
(* keep this whatever is read late, fails or is interrupted.               *)
THEOREM ImplementsTheLifecycle == HSpec => ImplementsLifecycle
<1>1. HInit => HInv
  BY HistoryInit
<1>2. HInv /\ [HNext]_hvars => HInv'
  BY HistoryStep
<1>3. HInit => Lifecycle!Init
  BY LifecycleInit
<1>4. HInv /\ HInv' /\ [HNext]_hvars => [Lifecycle!Next]_(Lifecycle!vars)
  BY LifecycleStep
<1> QED
  BY <1>1, <1>2, <1>3, <1>4, PTL DEF HSpec, ImplementsLifecycle, Lifecycle!Spec
=============================================================================
