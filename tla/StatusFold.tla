------------------------------ MODULE StatusFold ------------------------------
(***************************************************************************)
(* pkg/internal/status/conditions.go and the loop of Updater.Apply: the    *)
(* conditions as the list they are stored as, SetCondition on that list,   *)
(* and the status functions that Apply runs one after the other.           *)
(*                                                                         *)
(* A step is an iteration of the loop, with any status function, so that   *)
(* the behaviours are the lists an Updater may hold, of any length.  The   *)
(* module checks that module Updater, which Reconciler uses, says of every *)
(* such list what the loop makes of it.                                    *)
(***************************************************************************)
EXTENDS Updater, Naturals, Sequences, SequencesExt

CONSTANTS Types,        \* condition types the lists use
          Wanted        \* the values they ask for

ASSUME FoldAssumption ==
    /\ Types \subseteq ConditionTypes
    /\ Wanted \subseteq Condition
    /\ Nil \notin Condition

VARIABLES stored,               \* the helmAppStatus found by Apply
          st,                   \* what the loop has made of it
          needsStatusUpdate,    \* has a function reported a change?
          pending               \* module Updater's summary of those that ran

vars == <<stored, st, needsStatusUpdate, pending>>

(* A condition list holds at most one condition of a type.                 *)
ListOf(order, chosen) ==
    [i \in 1..Len(order) |-> [type |-> order[i], value |-> chosen[order[i]]]]

StoredStatuses ==
    {[conditions |-> ListOf(order, chosen), deployedRelease |-> m] :
        order \in UNION {SetToSeqs(S) : S \in SUBSET Types},
        chosen \in [Types -> Wanted], m \in Manifests \cup {Nil}}

Init ==
    /\ stored \in StoredStatuses
    /\ st = stored
    /\ needsStatusUpdate = FALSE
    /\ pending = NoUpdates

-----------------------------------------------------------------------------
(* Mutant: a condition is compared by its status alone.                    *)
SetConditionByStatus(conditions, type, value) ==
    LET i == SelectInSeq(conditions, LAMBDA c : c.type = type)
    IN  IF i = 0
        THEN [list |-> Append(conditions, [type |-> type, value |-> value]),
              changed |-> TRUE]
        ELSE [list |-> [conditions EXCEPT ![i].value = value],
              changed |-> conditions[i].value.status # value.status]

(* SetCondition: the new list and whether it reports a change.             *)
SetCondition(conditions, type, value) ==
    LET i == SelectInSeq(conditions, LAMBDA c : c.type = type)
    IN  IF i = 0
        THEN [list |-> Append(conditions, [type |-> type, value |-> value]),
              changed |-> TRUE]
        ELSE [list |-> [conditions EXCEPT ![i].value = value],
              changed |-> conditions[i].value # value]

GetCondition(conditions, type) ==
    LET i == SelectInSeq(conditions, LAMBDA c : c.type = type)
    IN  IF i = 0 THEN Nil ELSE conditions[i].value

-----------------------------------------------------------------------------
(* An iteration of Apply's loop with the function of EnsureCondition, or   *)
(* EnsureConditionUnknown.                                                 *)
RunEnsureCondition(type, value) ==
    LET set == SetCondition(st.conditions, type, value)
    IN  /\ st' = [st EXCEPT !.conditions = set.list]
        /\ needsStatusUpdate' = (set.changed \/ needsStatusUpdate)
        /\ pending' = Ensure(pending, type, value)
        /\ UNCHANGED stored

(* With that of EnsureDeployedRelease.                                     *)
RunEnsureDeployedRelease(m) ==
    /\ st' = [st EXCEPT !.deployedRelease = m]
    /\ needsStatusUpdate' = (st.deployedRelease # m \/ needsStatusUpdate)
    /\ pending' = EnsureDeployedRelease(pending, m)
    /\ UNCHANGED stored

Next == \/ \E type \in Types, value \in Wanted : RunEnsureCondition(type, value)
        \/ \E m \in Manifests \cup {Nil} : RunEnsureDeployedRelease(m)

Spec == Init /\ [][Next]_vars

-----------------------------------------------------------------------------
(* A status as the function from fields to values Reconciler works on.     *)
FieldsOf(s) ==
    [f \in Fields |-> IF f = "deployedRelease" THEN s.deployedRelease
                      ELSE GetCondition(s.conditions, f)]

(* Apply writes exactly when the summary says so, and what it writes is    *)
(* what the summary says, for every list of functions on every stored      *)
(* status, also when a later function takes an earlier one back.           *)
SummaryIsTheFold ==
    /\ needsStatusUpdate <=> NeedsStatusUpdate(pending, FieldsOf(stored))
    /\ FieldsOf(st) = Applied(pending, FieldsOf(stored))
=============================================================================
