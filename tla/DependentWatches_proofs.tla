---------------------- MODULE DependentWatches_proofs ----------------------
(***************************************************************************)
(* Theorems about module DependentWatches, for any number of CRs, kinds,   *)
(* resources and charts, and any number of edits, faults and watches.      *)
(***************************************************************************)
EXTENDS DependentWatches, TLAPS

-----------------------------------------------------------------------------
(* Manifests                                                               *)

(* A document with one resource of cr's chart.                             *)
Docs(cr) == {[list |-> FALSE, items |-> <<r>>] : r \in {r \in Resources : Owner[r] = cr}}

(* The resources of a sequence of documents with one resource each.        *)
Firsts(docs) == {docs[i].items[1] : i \in DOMAIN docs}

LEMMA TailOfOne ==
    ASSUME NEW r
    PROVE  Tail(<<r>>) = <<>>
<1>1. <<r>> \in Seq({r}) /\ Len(<<r>>) = 1
  OBVIOUS
<1>2. Tail(<<r>>) \in Seq({r}) /\ Len(Tail(<<r>>)) = 0
  BY <1>1
<1> QED
  BY <1>2

(* The post-renderer makes documents with one resource each.               *)
LEMMA PostRendered ==
    ASSUME NEW cr \in CRs, NEW m \in Charts[cr]
    PROVE  PostRender(m) \in Seq(Docs(cr))
<1>1. Items(m) \in Seq({r \in Resources : Owner[r] = cr})
  BY WatchAssumption
<1> QED
  BY <1>1 DEF PostRender, Docs

LEMMA RenderedIsFirsts ==
    ASSUME NEW cr \in CRs, NEW docs \in Seq(Docs(cr))
    PROVE  Rendered(docs) = Firsts(docs)
<1>1. ASSUME NEW i \in DOMAIN docs
      PROVE  \A x : x \in ToSet(docs[i].items) <=> x = docs[i].items[1]
  <2>1. PICK r \in Resources : docs[i] = [list |-> FALSE, items |-> <<r>>]
    BY DEF Docs
  <2>2. DOMAIN <<r>> = {1} /\ <<r>>[1] = r
    OBVIOUS
  <2> QED
    BY <2>1, <2>2 DEF ToSet
<1>2. Rendered(docs) \subseteq Firsts(docs)
  <2> SUFFICES ASSUME NEW i \in DOMAIN docs, NEW x \in ToSet(docs[i].items)
               PROVE  x \in Firsts(docs)
    BY DEF Rendered
  <2> QED
    BY <1>1 DEF Firsts
<1>3. Firsts(docs) \subseteq Rendered(docs)
  <2> SUFFICES ASSUME NEW i \in DOMAIN docs
               PROVE  docs[i].items[1] \in Rendered(docs)
    BY DEF Firsts
  <2>1. docs[i].items[1] \in ToSet(docs[i].items)
    BY <1>1
  <2> QED
    BY <2>1 DEF Rendered
<1> QED
  BY <1>2, <1>3

(* Whatever the order, the hook has to visit every document.               *)
LEMMA OrderKeepsDocs ==
    ASSUME NEW cr \in CRs, NEW m \in Seq(Docs(cr)), NEW docs \in Orders(m)
    PROVE  docs \in Seq(Docs(cr)) /\ Firsts(docs) = Firsts(m)
<1>1. PICK p \in Surjection(DOMAIN m, DOMAIN m) : docs = [i \in DOMAIN m |-> m[p[i]]]
  BY DEF Orders
<1>2. /\ p \in [DOMAIN m -> DOMAIN m]
      /\ \A j \in DOMAIN m : \E i \in DOMAIN m : p[i] = j
  BY DEF Surjection
<1>3. docs \in Seq(Docs(cr))
  <2>1. DOMAIN m = 1..Len(m) /\ Len(m) \in Nat
    OBVIOUS
  <2>2. \A i \in 1..Len(m) : m[p[i]] \in Docs(cr)
    BY <1>2, <2>1
  <2> QED
    BY <1>1, <2>1, <2>2
<1> QED
  BY <1>1, <1>2, <1>3 DEF Firsts

LEMMA RestIsTail ==
    ASSUME NEW cr \in CRs, NEW docs \in Seq(Docs(cr)), docs # <<>>
    PROVE  /\ Next1(docs) \in Resources /\ Owner[Next1(docs)] = cr
           /\ ~Head(docs).list
           /\ Rest(docs) = Tail(docs) /\ Rest(docs) \in Seq(Docs(cr))
           /\ Firsts(docs) = {Next1(docs)} \cup Firsts(Rest(docs))
<1>1. PICK r \in Resources : Owner[r] = cr /\ Head(docs) = [list |-> FALSE, items |-> <<r>>]
  BY DEF Docs
<1>2. Next1(docs) = r
  BY <1>1 DEF Next1
<1>3. Rest(docs) = Tail(docs)
  <2>1. Head(docs).items = <<r>>
    BY <1>1
  <2>2. Tail(Head(docs).items) = <<>>
    BY <2>1, TailOfOne, Zenon
  <2> QED
    BY <2>2 DEF Rest
<1>4. docs[1].items[1] = r
  BY <1>1
<1>5. \A i \in DOMAIN docs : i = 1 \/ (i - 1 \in DOMAIN Tail(docs) /\ Tail(docs)[i - 1] = docs[i])
  OBVIOUS
<1>6. 1 \in DOMAIN docs
      /\ \A i \in DOMAIN Tail(docs) : i + 1 \in DOMAIN docs /\ Tail(docs)[i] = docs[i + 1]
  OBVIOUS
<1>7. Firsts(docs) = {r} \cup Firsts(Tail(docs))
  <2>1. Firsts(docs) \subseteq {r} \cup Firsts(Tail(docs))
    BY <1>4, <1>5, ZenonT(60) DEF Firsts
  <2>2. {r} \cup Firsts(Tail(docs)) \subseteq Firsts(docs)
    BY <1>4, <1>6 DEF Firsts
  <2> QED
    BY <2>1, <2>2
<1> QED
  BY <1>1, <1>2, <1>3, <1>7

-----------------------------------------------------------------------------
(* The inductive invariant                                                 *)

States == [spec : {"chart", "other"}, status : 0..1]
Steps  == {"idle", "release", "lock", "visit", "watch", "report"}

RenderedFor(cr) == \E m \in Charts[cr] : rel[cr] = PostRender(m)

(* The CRs, their releases and the resources.                              *)
DataOK ==
    /\ spec = [cr \in CRs |-> spec[cr]] /\ \A cr \in CRs : spec[cr] \in Charts[cr]
    /\ rel = [cr \in CRs |-> rel[cr]] /\ \A cr \in CRs : rel[cr] = Nil \/ RenderedFor(cr)
    /\ live \in [Resources -> States \cup {Nil}]
    /\ queue \subseteq CRs

(* The workers in the hook; what they have to visit is of their own CR.    *)
WorkersOK ==
    /\ pc \in [CRs -> Steps]
    /\ todo = [cr \in CRs |-> todo[cr]] /\ \A cr \in CRs : todo[cr] \in Seq(Docs(cr))
    /\ \A cr \in CRs : mutex = cr <=> pc[cr] \in {"visit", "watch"}

(* After the release step there is a release that was post-rendered.       *)
Released ==
    \A cr \in CRs : pc[cr] \in {"lock", "visit", "watch"} => RenderedFor(cr)

(* A kind that is not recorded has not been watched.                       *)
Unwatched ==
    \A k \in Kinds : k \notin watches =>
       started[<<k, "ownerRef">>] = 0 /\ started[<<k, "annotation">>] = 0

MapsOK ==
    /\ started \in [Kinds \X Handlers -> Nat]
    /\ watches \subseteq Kinds \cup {List}
    /\ \A w \in inEffect : w \in Kinds \X Handlers /\ started[w] > 0
    /\ Unwatched
    /\ WatchedOnce

(* The worker that starts a watch has looked, and nobody came between.     *)
WatchInStep ==
    \A cr \in CRs : pc[cr] = "watch" =>
       todo[cr] # <<>> /\ Kind[Next1(todo[cr])] \notin watches

IInv == DataOK /\ WorkersOK /\ Released /\ MapsOK /\ WatchInStep

LEMMA IInvImplies == IInv => TypeOK /\ WatchedOnce
BY DEF IInv, DataOK, WorkersOK, MapsOK, TypeOK, States, RenderedFor

LEMMA InitIInv == Init => IInv
<1> SUFFICES ASSUME Init PROVE IInv
  OBVIOUS
<1>1. DataOK
  BY DEF Init, DataOK
<1>2. WorkersOK
  BY WatchAssumption DEF Init, WorkersOK, Steps
<1>3. Released /\ WatchInStep
  BY DEF Init, Released, WatchInStep
<1>4. MapsOK
  BY DEF Init, MapsOK, Unwatched, WatchedOnce, Handlers
<1> QED
  BY <1>1, <1>2, <1>3, <1>4 DEF IInv

-----------------------------------------------------------------------------
(* Users and the cluster                                                   *)

LEMMA WokenType ==
    ASSUME NEW new PROVE Woken(new) \subseteq CRs
BY WatchAssumption DEF Woken

(* A step that does not concern the hook.                                  *)
LEMMA HookAlone ==
    ASSUME IInv, DataOK', UNCHANGED <<pc, todo, hook, inEffect, rel>>
    PROVE  IInv'
<1>1. WorkersOK' /\ Released' /\ WatchInStep'
  BY DEF IInv, WorkersOK, Released, WatchInStep, RenderedFor, hook
<1>2. MapsOK'
  BY DEF IInv, MapsOK, Unwatched, WatchedOnce, hook
<1> QED
  BY <1>1, <1>2 DEF IInv

LEMMA EditSpecIInv ==
    ASSUME IInv, NEW cr \in CRs, EditSpec(cr)
    PROVE  IInv'
<1>1. DataOK'
  BY DEF EditSpec, IInv, DataOK, RenderedFor
<1> QED
  BY <1>1, HookAlone DEF EditSpec

LEMMA TamperIInv ==
    ASSUME IInv, NEW r \in Resources, Tamper(r)
    PROVE  IInv'
<1>1. live[r] \in States
  BY DEF Tamper, IInv, DataOK
<1>2. [live[r] EXCEPT !.spec = "other"] \in States
  BY <1>1 DEF States
<1>3. live' \in [Resources -> States \cup {Nil}]
  BY <1>2 DEF Tamper, IInv, DataOK
<1>4. queue' \subseteq CRs
  BY WokenType DEF Tamper, IInv, DataOK
<1>5. DataOK'
  BY <1>3, <1>4 DEF Tamper, IInv, DataOK, RenderedFor
<1> QED
  BY <1>5, HookAlone DEF Tamper

LEMMA StatusChangesIInv ==
    ASSUME IInv, NEW r \in Resources, StatusChanges(r)
    PROVE  IInv'
<1>1. live[r] \in States
  BY DEF StatusChanges, IInv, DataOK
<1>2. [live[r] EXCEPT !.status = 1 - @] \in States
  BY <1>1 DEF States
<1>3. live' \in [Resources -> States \cup {Nil}]
  BY <1>2 DEF StatusChanges, IInv, DataOK
<1>4. queue' \subseteq CRs
  BY WokenType DEF StatusChanges, IInv, DataOK
<1>5. DataOK'
  BY <1>3, <1>4 DEF StatusChanges, IInv, DataOK, RenderedFor
<1> QED
  BY <1>5, HookAlone DEF StatusChanges

LEMMA ElapseIInv ==
    ASSUME IInv, NEW cr \in CRs, Elapse(cr)
    PROVE  IInv'
<1>1. DataOK'
  BY DEF Elapse, IInv, DataOK, RenderedFor
<1> QED
  BY <1>1, HookAlone DEF Elapse

LEMMA SyncIInv ==
    ASSUME IInv, NEW w \in Kinds \X Handlers, Sync(w)
    PROVE  IInv'
<1>1. DataOK' /\ WorkersOK' /\ Released' /\ WatchInStep'
  BY DEF Sync, IInv, DataOK, WorkersOK, Released, WatchInStep, RenderedFor, hook
<1>2. MapsOK'
  BY DEF Sync, IInv, MapsOK, Unwatched, WatchedOnce, hook
<1> QED
  BY <1>1, <1>2 DEF IInv

-----------------------------------------------------------------------------
(* The worker                                                              *)

(* A step of cr's worker outside the hook: before it is its turn, or after.*)
LEMMA Outside ==
    ASSUME IInv, NEW cr \in CRs, NEW step \in Steps \ {"visit", "watch"},
           pc[cr] \notin {"visit", "watch"}, GoTo(cr, step),
           DataOK', UNCHANGED <<todo, hook, inEffect>>,
           \A other \in CRs \ {cr} : rel'[other] = rel[other],
           step = "lock" => RenderedFor(cr)'
    PROVE  IInv'
<1>1. /\ pc' \in [CRs -> Steps] /\ pc'[cr] = step
      /\ \A other \in CRs \ {cr} : pc'[other] = pc[other]
  BY DEF GoTo, IInv, WorkersOK
<1>2. WorkersOK'
  BY <1>1 DEF IInv, WorkersOK, hook
<1>3. Released'
  BY <1>1 DEF IInv, Released, RenderedFor
<1>4. MapsOK'
  BY DEF IInv, MapsOK, Unwatched, WatchedOnce, hook
<1>5. WatchInStep'
  BY <1>1 DEF IInv, WatchInStep, hook
<1> QED
  BY <1>2, <1>3, <1>4, <1>5 DEF IInv

LEMMA TakeIInv ==
    ASSUME IInv, NEW cr \in CRs, Take(cr)
    PROVE  IInv'
<1>1. DataOK'
  BY DEF Take, IInv, DataOK, RenderedFor
<1> QED
  BY <1>1, Outside DEF Take, Steps

LEMMA ReleaseIInv ==
    ASSUME IInv, NEW cr \in CRs, Release(cr)
    PROVE  IInv'
<1>1. /\ rel' = [rel EXCEPT ![cr] = PostRender(spec[cr])]
      /\ RenderedFor(cr)'
      /\ \A other \in CRs \ {cr} : rel'[other] = rel[other]
  BY DEF Release, IInv, DataOK, RenderedFor
<1>2. live' \in [Resources -> States \cup {Nil}]
  <2>1. Good \in States
    BY DEF Good, States
  <2>2. \A r \in Resources : live[r] # Nil => [live[r] EXCEPT !.spec = "chart"] \in States
    BY DEF IInv, DataOK, States
  <2> QED
    BY <2>1, <2>2 DEF Release, IInv, DataOK
<1>3. queue' \subseteq CRs
  BY WokenType DEF Release, IInv, DataOK
<1>4. DataOK'
  BY <1>1, <1>2, <1>3 DEF Release, IInv, DataOK, RenderedFor
<1> QED
  BY <1>1, <1>4, Outside DEF Release, Steps

LEMMA ReleaseFailsIInv ==
    ASSUME IInv, NEW cr \in CRs, ReleaseFails(cr)
    PROVE  IInv'
<1>1. DataOK'
  BY DEF ReleaseFails, IInv, DataOK, RenderedFor
<1> QED
  BY <1>1, Outside DEF ReleaseFails, Steps

LEMMA ReportIInv ==
    ASSUME IInv, NEW cr \in CRs, Report(cr)
    PROVE  IInv'
<1>1. DataOK'
  BY DEF Report, IInv, DataOK, RenderedFor
<1> QED
  BY <1>1, Outside DEF Report, Steps

-----------------------------------------------------------------------------
(* The hook                                                                *)

(* The mutex keeps every other worker out.                                 *)
LEMMA AloneInHook ==
    ASSUME IInv, NEW cr \in CRs, mutex = cr, NEW other \in CRs \ {cr}
    PROVE  pc[other] \notin {"visit", "watch"}
BY DEF IInv, WorkersOK

LEMMA LockIInv ==
    ASSUME IInv, NEW cr \in CRs, Lock(cr)
    PROVE  IInv'
<1>1. /\ pc' \in [CRs -> Steps] /\ pc'[cr] = "visit" /\ pc[cr] = "lock"
      /\ \A other \in CRs \ {cr} : pc'[other] = pc[other]
  BY DEF Lock, GoTo, IInv, WorkersOK, Steps
<1>2. PICK m \in Charts[cr] : rel[cr] = PostRender(m)
  BY DEF Lock, IInv, Released, RenderedFor
<1>3. PICK docs \in Orders(rel[cr]) : todo' = [todo EXCEPT ![cr] = docs]
  BY DEF Lock
<1>4. docs \in Seq(Docs(cr))
  BY <1>2, PostRendered, OrderKeepsDocs
<1>5. WorkersOK'
  <2>1. \A other \in CRs : pc[other] \notin {"visit", "watch"}
    BY WatchAssumption DEF Lock, IInv, WorkersOK
  <2>2. \A other \in CRs : mutex' = other <=> pc'[other] \in {"visit", "watch"}
    BY <1>1, <2>1 DEF Lock
  <2>3. todo' = [other \in CRs |-> todo'[other]]
        /\ \A other \in CRs : todo'[other] \in Seq(Docs(other))
    BY <1>3, <1>4 DEF IInv, WorkersOK
  <2> QED
    BY <1>1, <2>2, <2>3 DEF WorkersOK
<1>6. DataOK' /\ MapsOK'
  BY DEF Lock, IInv, DataOK, MapsOK, Unwatched, WatchedOnce, RenderedFor
<1>7. Released'
  BY <1>1 DEF Lock, IInv, Released, RenderedFor
<1>8. WatchInStep'
  BY <1>1, <1>3 DEF Lock, IInv, WatchInStep, WorkersOK
<1> QED
  BY <1>5, <1>6, <1>7, <1>8 DEF IInv

(* A step inside the hook, from "visit" to "visit" or "watch" or back.     *)
LEMMA Inside ==
    ASSUME IInv, NEW cr \in CRs, pc[cr] \in {"visit", "watch"},
           NEW step \in {"visit", "watch"}, pc' = [pc EXCEPT ![cr] = step],
           NEW docs \in Seq(Docs(cr)), todo' = [todo EXCEPT ![cr] = docs],
           UNCHANGED <<spec, rel, live, queue, mutex>>, MapsOK',
           step = "watch" => docs # <<>> /\ Kind[Next1(docs)] \notin watches'
    PROVE  IInv'
<1>1. /\ pc' \in [CRs -> Steps] /\ pc'[cr] = step
      /\ \A other \in CRs \ {cr} : pc'[other] = pc[other]
  BY DEF IInv, WorkersOK, Steps
<1>2. /\ todo' = [other \in CRs |-> todo'[other]] /\ todo'[cr] = docs
      /\ \A other \in CRs : todo'[other] \in Seq(Docs(other))
  BY DEF IInv, WorkersOK
<1>3. WorkersOK'
  BY <1>1, <1>2 DEF IInv, WorkersOK
<1>4. DataOK' /\ Released'
  BY <1>1 DEF IInv, DataOK, Released, RenderedFor
<1>5. mutex = cr
  BY DEF IInv, WorkersOK
<1>6. WatchInStep'
  BY <1>1, <1>2, <1>5, AloneInHook DEF WatchInStep
<1> QED
  BY <1>3, <1>4, <1>6 DEF IInv

LEMMA VisitIInv ==
    ASSUME IInv, NEW cr \in CRs, Visit(cr)
    PROVE  IInv'
<1>1. todo[cr] \in Seq(Docs(cr)) /\ todo[cr] # <<>> /\ Rest(todo[cr]) \in Seq(Docs(cr))
  BY RestIsTail DEF Visit, IInv, WorkersOK
<1>2. MapsOK'
  BY DEF Visit, IInv, MapsOK, Unwatched, WatchedOnce, hook
<1>3. CASE Kind[Next1(todo[cr])] \in watches
  <2>1. pc' = [pc EXCEPT ![cr] = "visit"] /\ todo' = [todo EXCEPT ![cr] = Rest(todo[cr])]
    BY <1>3 DEF Visit, IInv, WorkersOK
  <2> QED
    BY <1>1, <1>2, <2>1, Inside DEF Visit, hook
<1>4. CASE Kind[Next1(todo[cr])] \notin watches
  <2>1. pc' = [pc EXCEPT ![cr] = "watch"] /\ todo' = [todo EXCEPT ![cr] = todo[cr]]
    BY <1>4 DEF Visit, GoTo, IInv, WorkersOK
  <2>2. Kind[Next1(todo[cr])] \notin watches'
    BY <1>4 DEF Visit, hook
  <2> QED
    BY <1>1, <1>2, <2>1, <2>2, Inside DEF Visit, hook
<1> QED
  BY <1>3, <1>4

(* The kind of a document that the post-renderer made is the resource's.   *)
LEMMA WatchRecords ==
    ASSUME IInv, NEW cr \in CRs, Watch(cr)
    PROVE  LET r == Next1(todo[cr])
               w == <<Kind[r], Handler(cr, r)>>
           IN  /\ r \in Resources /\ Owner[r] = cr /\ Kind[r] \in Kinds
               /\ Kind[r] \notin watches /\ w \in Kinds \X Handlers
               /\ Rest(todo[cr]) \in Seq(Docs(cr))
               /\ Firsts(todo[cr]) = {r} \cup Firsts(Rest(todo[cr]))
               /\ watches' = watches \cup {Kind[r]}
               /\ started' = [started EXCEPT ![w] = 1]
<1> DEFINE r == Next1(todo[cr])
           w == <<Kind[r], Handler(cr, r)>>
<1>1. todo[cr] \in Seq(Docs(cr)) /\ todo[cr] # <<>> /\ Kind[r] \notin watches
  BY DEF Watch, IInv, WorkersOK, WatchInStep
<1>2. /\ r \in Resources /\ Owner[r] = cr /\ ~Head(todo[cr]).list
      /\ Rest(todo[cr]) \in Seq(Docs(cr))
      /\ Firsts(todo[cr]) = {r} \cup Firsts(Rest(todo[cr]))
  BY <1>1, RestIsTail
<1>3. Kind[r] \in Kinds /\ w \in Kinds \X Handlers
  BY <1>2, WatchAssumption DEF Handler, Handlers
<1>4. started[w] = 0
  BY <1>1, <1>3 DEF IInv, MapsOK, Unwatched, Handlers
<1>5. started' = [started EXCEPT ![w] = 1]
  <2>1. (IF started[w] < MaxWatches THEN started[w] + 1 ELSE started[w]) = 1
    BY <1>4, WatchAssumption
  <2>2. started' = [started EXCEPT ![w] =
            IF started[w] < MaxWatches THEN started[w] + 1 ELSE started[w]]
    BY DEF Watch
  <2> QED
    BY <2>1, <2>2
<1>6. watches' = watches \cup {Kind[r]}
  BY <1>2 DEF Watch
<1> QED
  BY <1>1, <1>2, <1>3, <1>5, <1>6

LEMMA WatchIInv ==
    ASSUME IInv, NEW cr \in CRs, Watch(cr)
    PROVE  IInv'
<1> DEFINE r == Next1(todo[cr])
           w == <<Kind[r], Handler(cr, r)>>
<1>1. /\ Kind[r] \in Kinds /\ Kind[r] \notin watches /\ w \in Kinds \X Handlers
      /\ watches' = watches \cup {Kind[r]}
      /\ started' = [started EXCEPT ![w] = 1]
      /\ Rest(todo[cr]) \in Seq(Docs(cr))
  BY WatchRecords
<1>2. /\ started' \in [Kinds \X Handlers -> Nat] /\ started'[w] = 1
      /\ \A v \in Kinds \X Handlers : v # w => started'[v] = started[v]
  BY <1>1 DEF IInv, MapsOK
<1>3. Unwatched'
  BY <1>1, <1>2 DEF IInv, MapsOK, Unwatched, Handlers
<1>4. WatchedOnce'
  <2> SUFFICES ASSUME NEW k \in Kinds
               PROVE  started'[<<k, "ownerRef">>] + started'[<<k, "annotation">>] <= 1
    BY DEF WatchedOnce
  <2>1. CASE k = Kind[r]
    BY <1>1, <1>2, <2>1 DEF IInv, MapsOK, Unwatched, Handlers, Handler
  <2>2. CASE k # Kind[r]
    BY <1>2, <2>2 DEF IInv, MapsOK, WatchedOnce, Handlers
  <2> QED
    BY <2>1, <2>2
<1>5. MapsOK'
  <2>1. inEffect' = inEffect
    BY DEF Watch
  <2>2. \A v \in inEffect : v \in Kinds \X Handlers /\ started'[v] > 0
    BY <1>2 DEF IInv, MapsOK
  <2>3. watches' \subseteq Kinds \cup {List}
    BY <1>1 DEF IInv, MapsOK
  <2> QED
    BY <1>2, <1>3, <1>4, <2>1, <2>2, <2>3 DEF MapsOK
<1>6. pc[cr] = "watch" /\ pc' = [pc EXCEPT ![cr] = "visit"]
  BY DEF Watch, GoTo
<1>7. todo' = [todo EXCEPT ![cr] = Rest(todo[cr])]
  BY DEF Watch, IInv, WorkersOK
<1> QED
  BY <1>1, <1>5, <1>6, <1>7, Inside DEF Watch

(* A worker leaves the hook.                                               *)
LEMMA Leaving ==
    ASSUME IInv, NEW cr \in CRs, pc[cr] \in {"visit", "watch"}, GoTo(cr, "report"),
           mutex' = Nil, NEW docs \in Seq(Docs(cr)), todo' = [todo EXCEPT ![cr] = docs],
           UNCHANGED <<spec, rel, live, queue, watches, started, inEffect>>
    PROVE  IInv'
<1>1. /\ pc' \in [CRs -> Steps] /\ pc'[cr] = "report"
      /\ \A other \in CRs \ {cr} : pc'[other] = pc[other]
  BY DEF GoTo, IInv, WorkersOK, Steps
<1>2. /\ todo' = [other \in CRs |-> todo'[other]]
      /\ \A other \in CRs : todo'[other] \in Seq(Docs(other))
  BY DEF IInv, WorkersOK
<1>3. \A other \in CRs : pc'[other] \notin {"visit", "watch"}
  <2>1. mutex = cr
    BY DEF IInv, WorkersOK
  <2> QED
    BY <1>1, <2>1, AloneInHook
<1>4. WorkersOK'
  BY <1>1, <1>2, <1>3, WatchAssumption DEF WorkersOK
<1>5. DataOK' /\ Released'
  BY <1>1 DEF IInv, DataOK, Released, RenderedFor
<1>6. MapsOK' /\ WatchInStep'
  BY <1>3 DEF IInv, MapsOK, Unwatched, WatchedOnce, WatchInStep
<1> QED
  BY <1>4, <1>5, <1>6 DEF IInv

LEMMA WatchFailsIInv ==
    ASSUME IInv, NEW cr \in CRs, WatchFails(cr)
    PROVE  IInv'
<1>1. <<>> \in Seq(Docs(cr))
  OBVIOUS
<1> QED
  BY <1>1, Leaving DEF WatchFails

LEMMA UnlockIInv ==
    ASSUME IInv, NEW cr \in CRs, Unlock(cr)
    PROVE  IInv'
<1>1. todo[cr] \in Seq(Docs(cr)) /\ todo' = [todo EXCEPT ![cr] = todo[cr]]
  BY DEF Unlock, IInv, WorkersOK
<1> QED
  BY <1>1, Leaving DEF Unlock

LEMMA RestartIInv ==
    ASSUME IInv, Restart
    PROVE  IInv'
<1>1. DataOK'
  BY DEF Restart, IInv, DataOK, RenderedFor
<1>2. WorkersOK'
  BY WatchAssumption DEF Restart, WorkersOK, Steps
<1>3. Released' /\ WatchInStep'
  BY DEF Restart, Released, WatchInStep
<1>4. MapsOK'
  BY DEF Restart, MapsOK, Unwatched, WatchedOnce, Handlers
<1> QED
  BY <1>1, <1>2, <1>3, <1>4 DEF IInv

-----------------------------------------------------------------------------
(* The theorems                                                            *)

LEMMA NextIInv == IInv /\ [Next]_vars => IInv'
<1> SUFFICES ASSUME IInv, [Next]_vars PROVE IInv'
  OBVIOUS
<1>1. CASE UNCHANGED vars
  <2>1. DataOK'
    BY <1>1 DEF IInv, DataOK, RenderedFor, vars
  <2> QED
    BY <1>1, <2>1, HookAlone DEF vars
<1>2. ASSUME NEW cr \in CRs, EditSpec(cr) \/ Reconcile(cr) \/ Elapse(cr)
      PROVE  IInv'
  BY <1>2, EditSpecIInv, ElapseIInv, TakeIInv, ReleaseIInv, ReleaseFailsIInv, LockIInv,
     VisitIInv, WatchIInv, WatchFailsIInv, UnlockIInv, ReportIInv DEF Reconcile
<1>3. ASSUME NEW r \in Resources, Tamper(r) \/ StatusChanges(r)
      PROVE  IInv'
  BY <1>3, TamperIInv, StatusChangesIInv
<1>4. ASSUME NEW w \in Kinds \X Handlers, Sync(w)
      PROVE  IInv'
  BY <1>4, SyncIInv
<1>5. CASE Restart
  BY <1>5, RestartIInv
<1> QED
  BY <1>1, <1>2, <1>3, <1>4, <1>5 DEF Next

LEMMA Invariance == Spec => []IInv
BY InitIInv, NextIInv, PTL DEF Spec

(* Releases are post-rendered charts, only watches that were started take  *)
(* effect, and the mutex is held by the worker that is in the hook.        *)
THEOREM TypeCorrect == Spec => []TypeOK
BY IInvImplies, Invariance, PTL

(* However many workers meet in the hook, each kind is watched once.       *)
THEOREM NoSecondWatch == Spec => []WatchedOnce
BY IInvImplies, Invariance, PTL

-----------------------------------------------------------------------------
(* What the hook covers, where all resources of a kind are marked alike    *)

Uniform ==
    \A r, s \in Resources : Kind[r] = Kind[s] => Mark(Owner[r], r) = Mark(Owner[s], s)

(* A recorded kind is watched with the handler that its resources need.    *)
Covering == \A r \in Resources : Kind[r] \in watches => started[Found(r)] > 0

(* What a worker in the hook need not visit any more is watched.           *)
Visiting ==
    \A cr \in CRs : pc[cr] \in {"visit", "watch"} =>
       \A r \in Firsts(rel[cr]) : r \in Firsts(todo[cr]) \/ started[Found(r)] > 0

CInv == IInv /\ Covering /\ Visiting

LEMMA RelDocs ==
    ASSUME IInv, NEW cr \in CRs, pc[cr] \in {"lock", "visit", "watch"}
    PROVE  /\ rel[cr] \in Seq(Docs(cr))
           /\ Rendered(rel[cr]) = Firsts(rel[cr])
           /\ \A r \in Firsts(rel[cr]) : r \in Resources /\ Owner[r] = cr
<1>1. PICK m \in Charts[cr] : rel[cr] = PostRender(m)
  BY DEF IInv, Released, RenderedFor
<1>2. rel[cr] \in Seq(Docs(cr))
  BY <1>1, PostRendered
<1>3. ASSUME NEW i \in DOMAIN rel[cr]
      PROVE  rel[cr][i].items[1] \in Resources /\ Owner[rel[cr][i].items[1]] = cr
  BY <1>2 DEF Docs
<1> QED
  BY <1>2, <1>3, RenderedIsFirsts DEF Firsts

(* Steps that neither begin nor go on with a visit.                        *)
LEMMA NoVisit ==
    ASSUME CInv, UNCHANGED <<watches, started>>,
           \A cr \in CRs : pc'[cr] \in {"visit", "watch"} =>
              /\ pc[cr] \in {"visit", "watch"}
              /\ rel'[cr] = rel[cr] /\ todo'[cr] = todo[cr]
    PROVE  Covering' /\ Visiting'
BY DEF CInv, Covering, Visiting

LEMMA OutsideCovers ==
    ASSUME CInv, NEW cr \in CRs,
           Take(cr) \/ Release(cr) \/ ReleaseFails(cr) \/ WatchFails(cr) \/ Unlock(cr)
              \/ Report(cr)
    PROVE  Covering' /\ Visiting'
<1>1. /\ UNCHANGED <<watches, started>>
      /\ \E step \in Steps \ {"visit", "watch"} : pc' = [pc EXCEPT ![cr] = step]
  BY DEF Take, Release, ReleaseFails, WatchFails, Unlock, Report, GoTo, hook, Steps
<1>2. \A other \in CRs \ {cr} : rel'[other] = rel[other] /\ todo'[other] = todo[other]
  BY DEF Take, Release, ReleaseFails, WatchFails, Unlock, Report, CInv, IInv, DataOK,
         WorkersOK
<1> QED
  BY <1>1, <1>2, NoVisit DEF CInv, IInv, WorkersOK

LEMMA LockCovers ==
    ASSUME CInv, NEW cr \in CRs, Lock(cr)
    PROVE  Covering' /\ Visiting'
<1>1. PICK docs \in Orders(rel[cr]) : todo' = [todo EXCEPT ![cr] = docs]
  BY DEF Lock
<1>2. Firsts(docs) = Firsts(rel[cr])
  BY RelDocs, OrderKeepsDocs DEF Lock, CInv
<1>3. /\ todo'[cr] = docs
      /\ \A other \in CRs \ {cr} : todo'[other] = todo[other] /\ pc'[other] = pc[other]
  BY <1>1 DEF Lock, GoTo, CInv, IInv, WorkersOK
<1> QED
  BY <1>2, <1>3 DEF Lock, CInv, Covering, Visiting

LEMMA VisitCovers ==
    ASSUME CInv, NEW cr \in CRs, Visit(cr)
    PROVE  Covering' /\ Visiting'
<1> DEFINE first == Next1(todo[cr])
<1>1. /\ first \in Resources
      /\ Firsts(todo[cr]) = {first} \cup Firsts(Rest(todo[cr]))
  BY RestIsTail DEF Visit, CInv, IInv, WorkersOK
<1>2. /\ UNCHANGED <<watches, started, rel>>
      /\ \A other \in CRs \ {cr} : todo'[other] = todo[other] /\ pc'[other] = pc[other]
  BY DEF Visit, GoTo, hook, CInv, IInv, WorkersOK
<1>3. \/ todo'[cr] = todo[cr]
      \/ Kind[first] \in watches /\ todo'[cr] = Rest(todo[cr])
  BY DEF Visit, CInv, IInv, WorkersOK
<1>4. ASSUME NEW r \in Firsts(rel[cr])
      PROVE  r \in Firsts(todo'[cr]) \/ started[Found(r)] > 0
  <2>1. r \in Firsts(todo[cr]) \/ started[Found(r)] > 0
    BY DEF Visit, CInv, Visiting
  <2> QED
    BY <1>1, <1>3, <2>1 DEF CInv, Covering
<1> QED
  BY <1>2, <1>4 DEF CInv, Covering, Visiting

LEMMA WatchCovers ==
    ASSUME Uniform, CInv, NEW cr \in CRs, Watch(cr)
    PROVE  Covering' /\ Visiting'
<1> DEFINE first == Next1(todo[cr])
<1>1. /\ first \in Resources /\ Owner[first] = cr
      /\ Firsts(todo[cr]) = {first} \cup Firsts(Rest(todo[cr]))
      /\ watches' = watches \cup {Kind[first]}
      /\ <<Kind[first], Handler(cr, first)>> \in Kinds \X Handlers
      /\ started' = [started EXCEPT ![<<Kind[first], Handler(cr, first)>>] = 1]
  BY WatchRecords DEF CInv
<1>2. Found(first) = <<Kind[first], Handler(cr, first)>>
  BY <1>1 DEF Found, Handler, Mark
<1>3. started'[Found(first)] > 0
  BY <1>1, <1>2 DEF CInv, IInv, MapsOK
<1>4. \A r \in Resources : started[Found(r)] > 0 => started'[Found(r)] > 0
  BY <1>1, <1>2 DEF CInv, IInv, MapsOK
<1>5. Covering'
  <2> SUFFICES ASSUME NEW r \in Resources, Kind[r] \in watches'
               PROVE  started'[Found(r)] > 0
    BY DEF Covering, Found
  <2>1. CASE Kind[r] = Kind[first]
    BY <1>1, <1>3, <2>1 DEF Uniform, Found
  <2>2. CASE Kind[r] # Kind[first]
    BY <1>1, <1>4, <2>2 DEF CInv, Covering
  <2> QED
    BY <2>1, <2>2
<1>6. /\ todo'[cr] = Rest(todo[cr]) /\ UNCHANGED rel /\ pc[cr] = "watch"
      /\ \A other \in CRs \ {cr} : todo'[other] = todo[other] /\ pc'[other] = pc[other]
  BY DEF Watch, GoTo, CInv, IInv, WorkersOK
<1>7. Visiting'
  <2> SUFFICES ASSUME NEW other \in CRs, pc'[other] \in {"visit", "watch"},
                      NEW r \in Firsts(rel[other])
               PROVE  r \in Firsts(todo'[other]) \/ started'[Found(r)] > 0
    BY <1>6 DEF Visiting, Found
  <2>1. pc[other] \in {"visit", "watch"} /\ r \in Resources
    BY <1>6, RelDocs DEF CInv
  <2>2. r \in Firsts(todo[other]) \/ started[Found(r)] > 0
    BY <2>1 DEF CInv, Visiting
  <2> QED
    BY <1>1, <1>3, <1>4, <1>6, <2>1, <2>2
<1> QED
  BY <1>5, <1>7

LEMMA RestartCovers ==
    ASSUME CInv, Restart
    PROVE  Covering' /\ Visiting'
BY DEF Restart, Covering, Visiting

LEMMA NextCInv ==
    ASSUME Uniform
    PROVE  CInv /\ [Next]_vars => CInv'
<1> SUFFICES ASSUME CInv, [Next]_vars PROVE Covering' /\ Visiting'
  BY NextIInv DEF CInv
<1>1. CASE UNCHANGED vars
  BY <1>1, NoVisit DEF vars, hook
<1>2. ASSUME NEW cr \in CRs, EditSpec(cr) \/ Elapse(cr)
      PROVE  Covering' /\ Visiting'
  BY <1>2, NoVisit DEF EditSpec, Elapse, hook
<1>3. ASSUME NEW cr \in CRs, Reconcile(cr)
      PROVE  Covering' /\ Visiting'
  BY <1>3, OutsideCovers, LockCovers, VisitCovers, WatchCovers DEF Reconcile
<1>4. ASSUME NEW r \in Resources, Tamper(r) \/ StatusChanges(r)
      PROVE  Covering' /\ Visiting'
  BY <1>4, NoVisit DEF Tamper, StatusChanges, hook
<1>5. ASSUME NEW w \in Kinds \X Handlers, Sync(w)
      PROVE  Covering' /\ Visiting'
  BY <1>5, NoVisit DEF Sync, hook
<1>6. CASE Restart
  BY <1>6, RestartCovers
<1> QED
  BY <1>1, <1>2, <1>3, <1>4, <1>5, <1>6 DEF Next

(* The hook ends without an error only when nothing is left to visit.      *)
LEMMA EndsWhenDone ==
    ASSUME IInv, [Next]_vars, NEW cr \in CRs, HookEnds(cr)
    PROVE  todo[cr] = <<>>
<1>1. pc[cr] = "visit" /\ pc'[cr] = "report" /\ pc' # pc
  BY DEF HookEnds
<1>2. ~UNCHANGED vars
  BY <1>1 DEF vars
<1>3. \A other \in CRs : ~EditSpec(other) /\ ~Elapse(other)
  BY <1>1 DEF EditSpec, Elapse
<1>4. \A r \in Resources : ~Tamper(r) /\ ~StatusChanges(r)
  BY <1>1 DEF Tamper, StatusChanges
<1>5. \A w \in Kinds \X Handlers : ~Sync(w)
  BY <1>1 DEF Sync
<1>6. ~Restart
  BY <1>1 DEF Restart
<1>7. ASSUME NEW other \in CRs, Reconcile(other), other # cr
      PROVE  FALSE
  <2>1. \E step \in Steps : pc' = [pc EXCEPT ![other] = step] \/ pc' = pc
    BY <1>7 DEF Reconcile, Take, Release, ReleaseFails, Lock, Visit, Watch, WatchFails,
                Unlock, Report, GoTo, Steps
  <2> QED
    BY <1>1, <1>7, <2>1 DEF IInv, WorkersOK
<1>8. Reconcile(cr)
  BY <1>2, <1>3, <1>4, <1>5, <1>6, <1>7 DEF Next
<1>9. Visit(cr) \/ Unlock(cr)
  BY <1>1, <1>8 DEF Reconcile, Take, Release, ReleaseFails, Lock, Watch, WatchFails,
                    Report
<1>10. ~Visit(cr)
  BY <1>1 DEF Visit, GoTo, IInv, WorkersOK
<1> QED
  BY <1>9, <1>10 DEF Unlock

(* Where all resources of a kind are marked alike, a hook that ends leaves *)
(* each resource of its release with a watch whose handler finds its CR.   *)
THEOREM HookFinds ==
    ASSUME Uniform
    PROVE  Spec => HookCovers
<1>1. Init => CInv
  BY InitIInv DEF Init, CInv, Covering, Visiting
<1>2. CInv /\ [Next]_vars =>
         [\A cr \in CRs : HookEnds(cr) => Covered(cr, Rendered(rel[cr]))]_vars
  <2> SUFFICES ASSUME CInv, [Next]_vars, NEW cr \in CRs, HookEnds(cr)
               PROVE  Covered(cr, Rendered(rel[cr]))
    OBVIOUS
  <2>1. todo[cr] = <<>> /\ pc[cr] = "visit"
    BY EndsWhenDone DEF CInv, HookEnds
  <2>2. Firsts(todo[cr]) = {}
    BY <2>1 DEF Firsts
  <2>3. \A r \in Firsts(rel[cr]) : started[Found(r)] > 0
    BY <2>1, <2>2 DEF CInv, Visiting
  <2> QED
    BY <2>1, <2>3, RelDocs DEF CInv, Covered, Found
<1>3. CInv /\ [Next]_vars => CInv'
  BY NextCInv
<1> QED
  BY <1>1, <1>2, <1>3, PTL DEF Spec, HookCovers
=============================================================================
