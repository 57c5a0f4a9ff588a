------------------------- MODULE StatusFold_proofs -------------------------
(***************************************************************************)
(* Theorem about module StatusFold, for every value of its constants: the  *)
(* summary of module Updater says what Apply's loop does to a status.      *)
(***************************************************************************)
EXTENDS StatusFold, FiniteSetTheorems, TLAPS

-----------------------------------------------------------------------------
(* Condition lists                                                         *)

Entry == [type : Types, value : Wanted]

(* At most one condition of a type.                                        *)
ListOK(l) ==
    /\ l \in Seq(Entry)
    /\ \A i, j \in 1..Len(l) : l[i].type = l[j].type => i = j

PositionOf(l, t) == SelectInSeq(l, LAMBDA c : c.type = t)

(* Where the loops of SetCondition and GetCondition find a type.           *)
LEMMA Position ==
    ASSUME NEW l, ListOK(l), NEW t
    PROVE  /\ PositionOf(l, t) = 0 /\ \A i \in 1..Len(l) : l[i].type # t
           \/ /\ PositionOf(l, t) \in 1..Len(l) /\ l[PositionOf(l, t)].type = t
              /\ PositionOf(l, t) # 0
<1> DEFINE I == {i \in 1..Len(l) : l[i].type = t}
<1>1. PositionOf(l, t) = IF I # {} THEN Min(I) ELSE 0
  BY DEF PositionOf, SelectInSeq
<1>2. CASE I = {}
  BY <1>1, <1>2
<1>3. CASE I # {}
  <2>1. PICK i \in I : TRUE
    BY <1>3
  <2>2. \A j \in I : j = i
    BY <2>1 DEF ListOK
  <2>3. i \in Nat /\ i # 0 /\ i \in 1..Len(l) /\ l[i].type = t
    BY <2>1 DEF ListOK
  <2>4. \A y \in I : i =< y
    BY <2>2, <2>3
  <2>5. Min(I) \in I
    <3> HIDE DEF I
    <3> QED
      BY <2>1, <2>4 DEF Min
  <2> QED
    BY <1>1, <1>3, <2>2, <2>3, <2>5
<1> QED
  BY <1>2, <1>3

LEMMA Unique ==
    ASSUME NEW l, ListOK(l), NEW i \in 1..Len(l)
    PROVE  PositionOf(l, l[i].type) = i
BY Position DEF ListOK

(* Setting one condition leaves the others as they are.                    *)
LEMMA SetOne ==
    ASSUME NEW l, ListOK(l), NEW t \in Types, NEW v \in Wanted
    PROVE  LET set == SetCondition(l, t, v)
           IN  /\ ListOK(set.list)
               /\ set.changed <=> GetCondition(l, t) # v
               /\ GetCondition(set.list, t) = v
               /\ \A g : g # t => GetCondition(set.list, g) = GetCondition(l, g)
<1> DEFINE i == PositionOf(l, t)
           set == SetCondition(l, t, v)
<1>1. /\ l \in Seq(Entry) /\ Len(l) \in Nat
      /\ [type |-> t, value |-> v] \in Entry
      /\ Nil # v
  BY FoldAssumption DEF ListOK, Entry
<1>2. \A m, g : GetCondition(m, g)
                   = IF PositionOf(m, g) = 0 THEN Nil ELSE m[PositionOf(m, g)].value
  BY DEF GetCondition, PositionOf
<1>3. set = IF i = 0
            THEN [list |-> Append(l, [type |-> t, value |-> v]), changed |-> TRUE]
            ELSE [list |-> [l EXCEPT ![i].value = v],
                  changed |-> l[i].value # v]
  BY DEF SetCondition, PositionOf
<1> HIDE DEF i, set
<1>4. CASE i = 0
  <2> DEFINE n == Len(l) + 1
             m == Append(l, [type |-> t, value |-> v])
  <2>1. /\ m \in Seq(Entry) /\ Len(m) = n /\ m[n] = [type |-> t, value |-> v]
        /\ \A j \in 1..Len(l) : m[j] = l[j]
        /\ \A j \in 1..n : j \in 1..Len(l) \/ j = n
        /\ n \in 1..n /\ \A j \in 1..Len(l) : j \in 1..n
    BY <1>1
  <2>2. \A j \in 1..Len(l) : l[j].type # t
    BY <1>4, Position DEF i
  <2> HIDE DEF m, n
  <2>3. ListOK(m)
    BY <2>1, <2>2 DEF ListOK
  <2>4. PositionOf(m, t) = n
    BY <2>1, <2>3, Unique
  <2>5. n # 0
    BY <1>1 DEF n
  <2>6. ASSUME NEW g, g # t PROVE GetCondition(m, g) = GetCondition(l, g)
    <3>1. CASE PositionOf(l, g) = 0
      <4>1. \A j \in 1..Len(l) : l[j].type # g
        BY <3>1, Position
      <4>2. PositionOf(m, g) = 0
        BY <2>1, <2>3, <2>6, <4>1, Position
      <4> QED
        BY <1>2, <3>1, <4>2
    <3>2. CASE PositionOf(l, g) \in 1..Len(l) /\ l[PositionOf(l, g)].type = g
               /\ PositionOf(l, g) # 0
      <4>1. PositionOf(m, g) = PositionOf(l, g)
        BY <2>1, <2>3, <3>2, Unique
      <4> QED
        BY <1>2, <2>1, <3>2, <4>1
    <3> QED
      BY <3>1, <3>2, Position
  <2>7. GetCondition(m, t) = v /\ GetCondition(l, t) = Nil
    BY <1>2, <1>4, <2>1, <2>4, <2>5 DEF i
  <2>8. set.list = m /\ set.changed = TRUE
    BY <1>3, <1>4 DEF m
  <2> QED
    BY <1>1, <2>3, <2>6, <2>7, <2>8 DEF set
<1>5. CASE i # 0
  <2> DEFINE m == [l EXCEPT ![i].value = v]
  <2>1. i \in 1..Len(l) /\ l[i].type = t
    BY <1>5, Position DEF i
  <2>2. /\ m \in Seq(Entry) /\ Len(m) = Len(l)
        /\ m[i].type = t /\ m[i].value = v
        /\ \A j \in 1..Len(l) : m[j].type = l[j].type
        /\ \A j \in 1..Len(l) : j # i => m[j] = l[j]
    <3> DEFINE e == [l[i] EXCEPT !.value = v]
    <3>1. l[i] \in Entry
      BY <1>1, <2>1
    <3>2. e \in Entry /\ e.type = l[i].type /\ e.value = v
      BY <3>1 DEF Entry
    <3>3. m = [l EXCEPT ![i] = e]
      OBVIOUS
    <3> HIDE DEF e, m
    <3> QED
      BY <1>1, <2>1, <3>2, <3>3
  <2> HIDE DEF m
  <2>3. ListOK(m)
    BY <2>2 DEF ListOK
  <2>4. PositionOf(m, t) = i
    BY <2>1, <2>2, <2>3, Unique
  <2>6. ASSUME NEW g, g # t PROVE GetCondition(m, g) = GetCondition(l, g)
    <3>1. CASE PositionOf(l, g) = 0
      <4>1. \A j \in 1..Len(l) : l[j].type # g
        BY <3>1, Position
      <4>2. PositionOf(m, g) = 0
        BY <2>2, <2>3, <4>1, Position
      <4> QED
        BY <1>2, <3>1, <4>2
    <3>2. CASE PositionOf(l, g) \in 1..Len(l) /\ l[PositionOf(l, g)].type = g
               /\ PositionOf(l, g) # 0
      <4>1. PositionOf(m, g) = PositionOf(l, g) /\ PositionOf(l, g) # i
        BY <2>1, <2>2, <2>3, <2>6, <3>2, Unique
      <4> QED
        BY <1>2, <2>2, <3>2, <4>1
    <3> QED
      BY <3>1, <3>2, Position
  <2>7. GetCondition(m, t) = v /\ GetCondition(l, t) = l[i].value
    BY <1>2, <1>5, <2>2, <2>4 DEF i
  <2>8. set.list = m /\ set.changed = (l[i].value # v)
    BY <1>3, <1>5 DEF m
  <2> QED
    BY <2>3, <2>6, <2>7, <2>8 DEF set
<1> QED
  BY <1>4, <1>5

-----------------------------------------------------------------------------
(* The inductive invariant                                                 *)

StatusOK(s) ==
    /\ s = [conditions |-> s.conditions, deployedRelease |-> s.deployedRelease]
    /\ ListOK(s.conditions)
    /\ s.deployedRelease \in Manifests \cup {Nil}

(* The last value wanted of a field is one of the values wanted.           *)
LastIsSeen(w) == \A f \in Fields : w[f].seen = {} \/ w[f].last \in w[f].seen

FInv == /\ StatusOK(st) /\ needsStatusUpdate \in BOOLEAN
        /\ pending \in Updates /\ LastIsSeen(pending)
        /\ SummaryIsTheFold

(* One more function in the list, on the summary and on what it says.      *)
LEMMA OneMore ==
    ASSUME NEW w \in Updates, LastIsSeen(w), NEW f \in Fields, NEW v \in Values,
           NEW s, NEW changed \in BOOLEAN, changed <=> NeedsStatusUpdate(w, s)
    PROVE  LET more == Ensure(w, f, v)
           IN  /\ more \in Updates /\ LastIsSeen(more)
               /\ Applied(more, s) = [Applied(w, s) EXCEPT ![f] = v]
               /\ (Applied(w, s)[f] # v \/ changed) <=> NeedsStatusUpdate(more, s)
<1> DEFINE more == Ensure(w, f, v)
<1>1. /\ more \in Updates
      /\ more[f].last = v /\ more[f].seen = w[f].seen \cup {v}
      /\ \A g \in Fields : g # f => more[g] = w[g]
  BY SMT DEF Updates, Ensure
<1> HIDE DEF more
<1>2. LastIsSeen(more)
  BY <1>1 DEF LastIsSeen
<1>3. Applied(more, s) = [Applied(w, s) EXCEPT ![f] = v]
  BY <1>1 DEF Applied
<1>4. NeedsStatusUpdate(more, s) <=> NeedsStatusUpdate(w, s) \/ v # s[f]
  BY <1>1 DEF NeedsStatusUpdate
<1>5. ~NeedsStatusUpdate(w, s) => Applied(w, s)[f] = s[f]
  BY DEF NeedsStatusUpdate, Applied, LastIsSeen
<1> QED
  BY <1>1, <1>2, <1>3, <1>4, <1>5 DEF more

(* A stored status.                                                        *)
LEMMA StoredOK ==
    ASSUME NEW s \in StoredStatuses
    PROVE  StatusOK(s)
<1>1. PICK order \in UNION {SetToSeqs(S) : S \in SUBSET Types},
           chosen \in [Types -> Wanted], m \in Manifests \cup {Nil} :
         s = [conditions |-> ListOf(order, chosen), deployedRelease |-> m]
  BY DEF StoredStatuses
<1>2. PICK S \in SUBSET Types : order \in SetToSeqs(S)
  BY <1>1
<1>3. IsFiniteSet(ConditionTypes)
  <2>1. ConditionTypes = {"Initialized"} \cup ({"Deployed"} \cup ({"ReleaseFailed"}
                            \cup ({"Irreconcilable"} \cup {"Paused"})))
    BY DEF ConditionTypes
  <2> QED
    BY <2>1, FS_Singleton, FS_Union
<1>4. Cardinality(S) \in Nat
  <2>1. IsFiniteSet(S)
    BY <1>3, FS_Subset, FoldAssumption
  <2> QED
    BY <2>1, FS_CardinalityType
<1>5. /\ order \in Seq(S)
      /\ \A i, j \in 1..Len(order) : order[i] = order[j] => i = j
      /\ Len(order) \in Nat
  BY <1>4, <1>2 DEF SetToSeqs
<1> DEFINE l == ListOf(order, chosen)
<1>6. \A i \in 1..Len(order) : order[i] \in Types
  BY <1>5
<1>7. /\ l \in Seq(Entry) /\ Len(l) = Len(order)
      /\ \A i \in 1..Len(l) : l[i].type = order[i]
  BY <1>5, <1>6 DEF ListOf, Entry
<1>8. ListOK(l)
  <2> HIDE DEF l
  <2> QED
    BY <1>5, <1>7 DEF ListOK
<1> QED
  BY <1>1, <1>8 DEF StatusOK

LEMMA FieldFacts ==
    /\ "deployedRelease" \in Fields /\ "deployedRelease" \notin ConditionTypes
    /\ ConditionTypes \subseteq Fields
    /\ Wanted \subseteq Values /\ Manifests \cup {Nil} \subseteq Values
BY FoldAssumption DEF Fields, ConditionTypes, Values

LEMMA FoldInit == Init => FInv
<1> SUFFICES ASSUME Init PROVE FInv
  OBVIOUS
<1>1. /\ stored \in StoredStatuses /\ st = stored /\ needsStatusUpdate = FALSE
      /\ pending = NoUpdates
  BY DEF Init
<1>2. StatusOK(st)
  BY <1>1, StoredOK
<1>3. NoUpdates \in Updates /\ \A f \in Fields : NoUpdates[f].seen = {}
  BY SMT DEF NoUpdates, Updates, Values
<1>4. LastIsSeen(NoUpdates)
  BY <1>3 DEF LastIsSeen
<1>5. ~NeedsStatusUpdate(NoUpdates, FieldsOf(stored))
  BY <1>3 DEF NeedsStatusUpdate
<1>6. Applied(NoUpdates, FieldsOf(stored)) = FieldsOf(stored)
  BY <1>3 DEF Applied, FieldsOf
<1> QED
  BY <1>1, <1>2, <1>3, <1>4, <1>5, <1>6 DEF FInv, SummaryIsTheFold

LEMMA FoldStep == FInv /\ [Next]_vars => FInv'
<1> SUFFICES ASSUME FInv, [Next]_vars PROVE FInv'
  OBVIOUS
<1> DEFINE s == FieldsOf(stored)
<1>1. /\ StatusOK(st) /\ needsStatusUpdate \in BOOLEAN
      /\ pending \in Updates /\ LastIsSeen(pending)
      /\ needsStatusUpdate <=> NeedsStatusUpdate(pending, s)
      /\ FieldsOf(st) = Applied(pending, s)
  BY DEF FInv, SummaryIsTheFold
<1>2. ASSUME NEW f \in Fields, NEW v \in Values,
             StatusOK(st'), stored' = stored, pending' = Ensure(pending, f, v),
             FieldsOf(st)' = [FieldsOf(st) EXCEPT ![f] = v],
             needsStatusUpdate' \in BOOLEAN,
             needsStatusUpdate' <=> (FieldsOf(st)[f] # v \/ needsStatusUpdate)
      PROVE  FInv'
  <2> HIDE DEF s
  <2>1. /\ pending' \in Updates /\ LastIsSeen(pending')
        /\ Applied(pending', s) = [Applied(pending, s) EXCEPT ![f] = v]
        /\ (Applied(pending, s)[f] # v \/ needsStatusUpdate)
              <=> NeedsStatusUpdate(pending', s)
    BY <1>1, <1>2, OneMore
  <2>2. s' = s
    BY <1>2 DEF s, FieldsOf
  <2>3. FieldsOf(st)' = Applied(pending', s)
    BY <1>1, <1>2, <2>1
  <2>4. needsStatusUpdate' <=> NeedsStatusUpdate(pending', s)
    BY <1>1, <1>2, <2>1
  <2>5. SummaryIsTheFold'
    BY <2>2, <2>3, <2>4 DEF SummaryIsTheFold, s, NeedsStatusUpdate, Applied
  <2> QED
    BY <1>2, <2>1, <2>5 DEF FInv, StatusOK, ListOK, LastIsSeen
<1>3. ASSUME NEW t \in Types, NEW v \in Wanted, RunEnsureCondition(t, v)
      PROVE  FInv'
  <2> DEFINE set == SetCondition(st.conditions, t, v)
  <2>1. /\ ListOK(set.list) /\ (set.changed <=> GetCondition(st.conditions, t) # v)
        /\ GetCondition(set.list, t) = v
        /\ \A g : g # t => GetCondition(set.list, g) = GetCondition(st.conditions, g)
    BY <1>1, SetOne DEF StatusOK
  <2>2. /\ st' = [st EXCEPT !.conditions = set.list] /\ stored' = stored
        /\ needsStatusUpdate' = (set.changed \/ needsStatusUpdate)
        /\ pending' = Ensure(pending, t, v)
    BY <1>3 DEF RunEnsureCondition
  <2> HIDE DEF set
  <2>3. st'.conditions = set.list /\ st'.deployedRelease = st.deployedRelease
        /\ StatusOK(st')
    BY <1>1, <2>1, <2>2 DEF StatusOK
  <2>4. t \in Fields /\ t # "deployedRelease" /\ v \in Values
    BY FieldFacts, FoldAssumption
  <2>5. FieldsOf(st') = [FieldsOf(st) EXCEPT ![t] = v]
    <3>1. FieldsOf(st')[t] = v
      BY <2>1, <2>3, <2>4 DEF FieldsOf
    <3>2. \A g \in Fields : g # t => FieldsOf(st')[g] = FieldsOf(st)[g]
      BY <2>1, <2>3 DEF FieldsOf
    <3>3. /\ FieldsOf(st') = [g \in Fields |-> FieldsOf(st')[g]]
          /\ FieldsOf(st) = [g \in Fields |-> FieldsOf(st)[g]]
      BY DEF FieldsOf
    <3> QED
      BY <3>1, <3>2, <3>3
  <2>6. FieldsOf(st)[t] = GetCondition(st.conditions, t)
    BY <2>4 DEF FieldsOf
  <2>7. /\ needsStatusUpdate' \in BOOLEAN
        /\ needsStatusUpdate' <=> (FieldsOf(st)[t] # v \/ needsStatusUpdate)
    BY <2>1, <2>2, <2>6
  <2>8. FieldsOf(st)' = [FieldsOf(st) EXCEPT ![t] = v]
    BY <2>5 DEF FieldsOf
  <2> QED
    BY <1>2, <2>2, <2>3, <2>4, <2>7, <2>8
<1>4. ASSUME NEW m \in Manifests \cup {Nil}, RunEnsureDeployedRelease(m)
      PROVE  FInv'
  <2> DEFINE d == "deployedRelease"
  <2>1. /\ st' = [st EXCEPT !.deployedRelease = m] /\ stored' = stored
        /\ needsStatusUpdate' = (st.deployedRelease # m \/ needsStatusUpdate)
        /\ pending' = Ensure(pending, d, m)
    BY <1>4 DEF RunEnsureDeployedRelease, EnsureDeployedRelease
  <2>2. st'.conditions = st.conditions /\ st'.deployedRelease = m /\ StatusOK(st')
    BY <1>1, <2>1 DEF StatusOK
  <2>3. d \in Fields /\ m \in Values
    BY FieldFacts
  <2>4. FieldsOf(st') = [FieldsOf(st) EXCEPT ![d] = m]
    BY <2>2, <2>3 DEF FieldsOf
  <2>5. FieldsOf(st)[d] = st.deployedRelease
    BY <2>3 DEF FieldsOf
  <2>6. /\ needsStatusUpdate' \in BOOLEAN
        /\ needsStatusUpdate' <=> (FieldsOf(st)[d] # m \/ needsStatusUpdate)
    BY <2>1, <2>5
  <2>7. FieldsOf(st)' = [FieldsOf(st) EXCEPT ![d] = m]
    BY <2>4 DEF FieldsOf
  <2> QED
    BY <1>2, <2>1, <2>2, <2>3, <2>6, <2>7
<1>5. CASE UNCHANGED vars
  BY <1>1, <1>5 DEF vars, FInv, SummaryIsTheFold, StatusOK, ListOK, LastIsSeen,
     FieldsOf, NeedsStatusUpdate, Applied
<1> QED
  BY <1>3, <1>4, <1>5 DEF Next

(* Apply writes exactly when module Updater's summary says so, and what it *)
(* writes is what the summary says, for every list of status functions on  *)
(* every stored condition list (updater.go:80-108, conditions.go:135-152). *)
THEOREM SummaryIsFaithful == Spec => []SummaryIsTheFold
<1>1. FInv => SummaryIsTheFold
  BY DEF FInv
<1> QED
  BY <1>1, FoldInit, FoldStep, PTL DEF Spec
=============================================================================
