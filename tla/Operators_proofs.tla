-------------------------- MODULE Operators_proofs --------------------------
(***************************************************************************)
(* Theorems about module Operators, for any number of processes, custom    *)
(* resources and set-ups, and any number of edits and faults.              *)
(***************************************************************************)
EXTENDS Operators, TLAPS

-----------------------------------------------------------------------------
(* The inductive invariant                                                 *)

(* The controllers ks of a process with set-up s are those of the entries  *)
(* it has gone through, with names of their own: all of them before it may *)
(* run.                                                                    *)
LoadedAs(s, place, ks) ==
    /\ ks \in Seq({New(s, w) : w \in ToSet(s.file)})
    /\ Len(ks) <= Len(s.file)
    /\ \A i \in 1..Len(ks) : ks[i] = New(s, s.file[i])
    /\ \A i, j \in 1..Len(ks) :
          ControllerName(ks[i].gvk) = ControllerName(ks[j].gvk) => i = j
    /\ place = "down" => ks = <<>>
    /\ place = "starting" => Len(ks) < Len(s.file)
    /\ place \in {"starting", "standby", "running"} => Configured(s)
    /\ place \in {"standby", "running"} => Len(ks) = Len(s.file)

Loaded ==
    /\ controllers = [op \in Operators |-> controllers[op]]
    /\ \A op \in Operators : LoadedAs(setup[op], phase[op], controllers[op])

(* Of the processes that run, no two ask for the same lease.               *)
OneLeader ==
    \A op, other \in Running :
       /\ op # other
       /\ LeaderElection(setup[op]) /\ LeaderElection(setup[other])
       => Lease(setup[op]) # Lease(setup[other])

(* Each edit counts.                                                       *)
SpecsCounted == \A c \in CRs : cr[c] # Nil => cr[c].spec <= edits

(* The process has been told of c, or has c in its hands.                  *)
Pending(op, c) == c \in queue[op] \cup timers[op] \/ Working(op, c)

Reads(op, c, spec, deleting) ==
    work[op][c].spec = spec /\ work[op][c].deleting = deleting

(* A worker whose copy is older than the CR finds the CR in its queue      *)
(* afterwards, if its process selects it.                                  *)
OldCopyIsQueued(c) ==
    \A op \in Operators :
       Working(op, c) /\ cr[c] # Nil /\ Selects(op, c)
         => c \in queue[op] \/ Reads(op, c, cr[c].spec, cr[c].deleting)

(* The history variable means what it says.                                *)
AtWorkAlone(c) ==
    c \notin contested =>
       \A op, other \in Operators : Working(op, c) /\ Working(other, c) => op = other

(* A worker that has served a CR alone left the release of what it read.   *)
ServedIsReleased(c) ==
    c \notin contested =>
       \A op \in Operators : At(op, c, "served") => rel[c] = work[op][c].spec

(* A process that has nothing to do for a CR that it selects has no period *)
(* and has the release of its spec; and whoever else is at work on the CR  *)
(* will not change that.                                                   *)
Settled(c) ==
    \A op \in Operators :
       cr[c] # Nil /\ Selects(op, c) /\ ~Pending(op, c) =>
          /\ ~Periodic(op)
          /\ c \notin contested =>
                /\ ~cr[c].deleting /\ rel[c] = cr[c].spec
                /\ \A other \in Operators :
                      Working(other, c) => Reads(other, c, cr[c].spec, FALSE)

Served(c) == OldCopyIsQueued(c) /\ AtWorkAlone(c) /\ ServedIsReleased(c) /\ Settled(c)

IInv == TypeOK /\ Loaded /\ OneLeader /\ SpecsCounted /\ \A c \in CRs : Served(c)

-----------------------------------------------------------------------------
(* Lemmas about set-ups and events                                         *)

(* Whichever of the two flags asks for the lease, a process that passes    *)
(* the checks takes part in the election.                                  *)
LEMMA AskingIsElecting ==
    ASSUME NEW op \in Operators, Configured(setup[op]), AsksForLease(op)
    PROVE  LeaderElection(setup[op])
BY DEF Configured, FlagsConflict, AsksForLease, LeaderElection, Flag

(* What its watches file and environment say op is to serve.               *)
Wants(op, c, label) ==
    /\ phase[op] = "running" /\ Namespace[c] \in WatchNamespaces(setup[op])
    /\ \E w \in Entries(op, c) : w.selector = Nil \/ label \in w.selector

(* Each entry of a process that runs, or may run, has its controller.      *)
LEMMA EntryHasController ==
    ASSUME TypeOK, NEW op \in Operators, NEW c \in CRs,
           LoadedAs(setup[op], "running", controllers[op]),
           Namespace[c] \in WatchNamespaces(setup[op]), NEW w \in Entries(op, c)
    PROVE  New(setup[op], w) \in Controllers(op, c)
<1> DEFINE file == setup[op].file
           ks == controllers[op]
<1>1. file \in Seq(ToSet(file)) /\ ks \in Seq({New(setup[op], e) : e \in ToSet(file)})
  BY OperatorsAssumption DEF TypeOK, LoadedAs
<1>2. PICK i \in DOMAIN file : file[i] = w
  BY DEF Entries, ToSet
<1>3. i \in DOMAIN ks /\ ks[i] = New(setup[op], w)
  <2>1. Len(ks) = Len(file) /\ \A j \in 1..Len(ks) : ks[j] = New(setup[op], file[j])
    BY DEF LoadedAs
  <2>2. DOMAIN file = 1..Len(file) /\ DOMAIN ks = 1..Len(ks)
    BY <1>1
  <2> QED
    BY <1>2, <2>1, <2>2
<1>4. New(setup[op], w).gvk = Gvk[c]
  BY DEF New, Entries
<1> QED
  BY <1>3, <1>4 DEF Controllers, ToSet

(* So a process that selects a CR hears of it.                             *)
LEMMA WantsHears ==
    ASSUME TypeOK, Loaded, NEW op \in Operators, NEW c \in CRs, NEW label \in Labels,
           Wants(op, c, label)
    PROVE  op \in Selecting(c, label)
<1>1. PICK w \in Entries(op, c) : w.selector = Nil \/ label \in w.selector
  BY DEF Wants
<1>2. New(setup[op], w) \in Controllers(op, c)
  BY EntryHasController DEF Wants, Loaded
<1>3. label \in New(setup[op], w).selector
  BY <1>1 DEF New, Selector
<1> QED
  BY <1>2, <1>3 DEF Selecting, Running, Wants

(* And if it has a period, requests come back.                             *)
LEMMA PeriodicRequeues ==
    ASSUME TypeOK, Loaded, NEW op \in Operators, NEW c \in CRs, Selects(op, c), Periodic(op)
    PROVE  \E k \in Controllers(op, c) : k.reconcilePeriod > 0
<1>1. PICK w \in Entries(op, c) : TRUE
  BY DEF Selects
<1>2. New(setup[op], w) \in Controllers(op, c)
  BY EntryHasController DEF Selects, Loaded
<1>3. New(setup[op], w).reconcilePeriod > 0
  BY DEF New, Periodic
<1> QED
  BY <1>2, <1>3

(* Only processes that run hear of events.                                 *)
LEMMA HearersRun ==
    ASSUME NEW c \in CRs, NEW label
    PROVE  /\ Selecting(c, label) \subseteq Running
           /\ HearingSecrets(c) \subseteq Running
           /\ HearingDependents(c) \subseteq Running
BY DEF Selecting, HearingSecrets, HearingDependents

(* An event that only running processes hear of.                           *)
LEMMA WakeFacts ==
    ASSUME TypeOK, NEW c \in CRs, NEW ops \in SUBSET Running, Wake(ops, c)
    PROVE  /\ queue' \in [Operators -> SUBSET CRs]
           /\ \A op \in Operators :
                 /\ queue[op] \subseteq queue'[op]
                 /\ op \in ops => c \in queue'[op]
                 /\ phase[op] # "running" => queue'[op] = queue[op]
BY DEF Wake, Running, TypeOK

(* A write to a CR leaves what the workers have read, but not as fresh.    *)
LEMMA OutdatedFacts ==
    ASSUME TypeOK, NEW c \in CRs
    PROVE  /\ Outdated(c) \in [Operators -> [CRs -> Worker \cup {Nil}]]
           /\ \A op \in Operators : \A x \in CRs \ {c} : Outdated(c)[op][x] = work[op][x]
           /\ \A op \in Operators :
                 /\ ~Working(op, c) => Outdated(c)[op][c] = Nil
                 /\ Working(op, c) =>
                       /\ Outdated(c)[op][c] = [work[op][c] EXCEPT !.fresh = FALSE]
                       /\ Outdated(c)[op][c] # Nil
<1>1. ASSUME NEW op \in Operators
      PROVE  Outdated(c)[op] = [work[op] EXCEPT ![c] =
                IF @ = Nil THEN Nil ELSE [@ EXCEPT !.fresh = FALSE]]
  BY DEF Outdated
<1>2. ASSUME NEW op \in Operators, Working(op, c)
      PROVE  [work[op][c] EXCEPT !.fresh = FALSE] \in Worker
  <2>1. work[op][c] \in Worker
    BY <1>2 DEF TypeOK, Working
  <2> QED
    BY <2>1 DEF Worker
<1>3. Outdated(c) = [op \in Operators |-> Outdated(c)[op]]
  BY DEF Outdated
<1>4. ASSUME NEW op \in Operators
      PROVE  /\ Outdated(c)[op] \in [CRs -> Worker \cup {Nil}]
             /\ \A x \in CRs \ {c} : Outdated(c)[op][x] = work[op][x]
             /\ ~Working(op, c) => Outdated(c)[op][c] = Nil
             /\ Working(op, c) =>
                   /\ Outdated(c)[op][c] = [work[op][c] EXCEPT !.fresh = FALSE]
                   /\ Outdated(c)[op][c] # Nil
  <2>1. work[op] \in [CRs -> Worker \cup {Nil}]
    BY DEF TypeOK
  <2>2. CASE Working(op, c)
    <3>1. Outdated(c)[op] = [work[op] EXCEPT ![c] = [work[op][c] EXCEPT !.fresh = FALSE]]
      BY <1>1, <2>1, <2>2 DEF Working
    <3>2. [work[op][c] EXCEPT !.fresh = FALSE] # Nil
      BY <1>2, <2>2, NilAssumption
    <3> QED
      BY <1>2, <2>1, <2>2, <3>1, <3>2
  <2>3. CASE ~Working(op, c)
    BY <1>1, <2>1, <2>3 DEF Working
  <2> QED
    BY <2>2, <2>3
<1> QED
  BY <1>3, <1>4

-----------------------------------------------------------------------------
(* What keeps a CR served                                                  *)

(* A step that has nothing to do with c.                                   *)
LEMMA ServedElsewhere ==
    ASSUME NEW c \in CRs, Served(c),
           cr'[c] = cr[c], rel'[c] = rel[c], setup' = setup,
           c \in contested' <=> c \in contested,
           \A op \in Operators :
              /\ Selects(op, c)' => Selects(op, c)
              /\ work'[op][c] = work[op][c]
              /\ c \in queue[op] => c \in queue'[op]
              /\ c \in timers[op] => c \in timers'[op] \/ c \in queue'[op]
    PROVE  Served(c)'
<1>1. \A op \in Operators :
         /\ Working(op, c)' <=> Working(op, c)
         /\ Pending(op, c) => Pending(op, c)'
         /\ Periodic(op)' <=> Periodic(op)
  BY DEF Working, Pending, Periodic
<1>2. OldCopyIsQueued(c)'
  BY <1>1 DEF Served, OldCopyIsQueued, Reads
<1>3. AtWorkAlone(c)'
  BY <1>1 DEF Served, AtWorkAlone
<1>4. ServedIsReleased(c)'
  BY <1>1 DEF Served, ServedIsReleased, At
<1>5. Settled(c)'
  BY <1>1 DEF Served, Settled, Reads
<1> QED
  BY <1>2, <1>3, <1>4, <1>5 DEF Served

(* A step after which every process that selects c has c in its queue.     *)
LEMMA ServedIfQueued ==
    ASSUME NEW c \in CRs, Served(c),
           rel'[c] = rel[c], c \in contested' <=> c \in contested,
           \A op \in Operators :
              /\ cr'[c] # Nil /\ Selects(op, c)' => c \in queue'[op]
              /\ Working(op, c)' =>
                    /\ Working(op, c)
                    /\ work'[op][c].spec = work[op][c].spec
                    /\ work'[op][c].at = "served" => work[op][c].at = "served"
    PROVE  Served(c)'
<1>1. OldCopyIsQueued(c)'
  BY DEF OldCopyIsQueued
<1>2. AtWorkAlone(c)'
  BY DEF Served, AtWorkAlone
<1>3. ServedIsReleased(c)'
  BY DEF Served, ServedIsReleased, At
<1>4. Settled(c)'
  BY DEF Settled, Pending
<1> QED
  BY <1>1, <1>2, <1>3, <1>4 DEF Served

(* A worker's step that leaves the CR as it is.                            *)
LEMMA ServedWhileWorking ==
    ASSUME TypeOK, NEW c \in CRs, Served(c), NEW op \in Operators, Working(op, c),
           setup' = setup, phase' = phase, cr' = cr, contested' = contested, timers' = timers,
           \A o \in Operators : queue[o] \subseteq queue'[o],
           \A o \in Operators \ {op} : work'[o][c] = work[o][c],
           Working(op, c)', work'[op][c].spec = work[op][c].spec,
           work'[op][c].deleting = work[op][c].deleting,
           \/ /\ rel'[c] = rel[c]
              /\ work'[op][c].at = "served" => work[op][c].at = "served"
           \/ rel'[c] = work[op][c].spec
           \/ work[op][c].deleting /\ work'[op][c].at # "served"
    PROVE  Served(c)'
<1>1. \A o \in Operators :
         /\ Working(o, c)' <=> Working(o, c)
         /\ work'[o][c].spec = work[o][c].spec /\ work'[o][c].deleting = work[o][c].deleting
         /\ Pending(o, c) => Pending(o, c)'
         /\ Periodic(o)' <=> Periodic(o)
         /\ Selects(o, c)' <=> Selects(o, c)
  BY DEF Working, Pending, Periodic, Selects, Entries, WatchNamespaces
<1>2. OldCopyIsQueued(c)'
  BY <1>1 DEF Served, OldCopyIsQueued, Reads
<1>3. AtWorkAlone(c)'
  BY <1>1 DEF Served, AtWorkAlone
<1>4. c \notin contested => \A o \in Operators \ {op} : ~Working(o, c)
  BY DEF Served, AtWorkAlone
<1>5. ServedIsReleased(c)'
  <2>1. \A o \in Operators : At(o, c, "served")' => Working(o, c)
    BY <1>1 DEF At
  <2> QED
    BY <1>1, <1>4, <2>1 DEF Served, ServedIsReleased, At
<1>6. Settled(c)'
  <2> SUFFICES ASSUME NEW o \in Operators, cr[c] # Nil, Selects(o, c), ~Pending(o, c)
               PROVE  /\ ~Periodic(o)
                      /\ c \notin contested =>
                            /\ ~cr[c].deleting /\ rel'[c] = cr[c].spec
                            /\ \A other \in Operators :
                                  Working(other, c) => Reads(other, c, cr[c].spec, FALSE)
    BY <1>1 DEF Settled, Reads
  <2>1. /\ ~Periodic(o)
        /\ c \notin contested =>
              /\ ~cr[c].deleting /\ rel[c] = cr[c].spec
              /\ \A other \in Operators :
                    Working(other, c) => Reads(other, c, cr[c].spec, FALSE)
    BY DEF Served, Settled
  <2> QED
    BY <2>1 DEF Reads
<1> QED
  BY <1>2, <1>3, <1>5, <1>6 DEF Served

(* The end of a reconciliation that leaves the CR as it is: if it is not   *)
(* to be tried again, it has served the CR.                                *)
LEMMA ServedAtTheEnd ==
    ASSUME TypeOK, Loaded, NEW c \in CRs, Served(c), NEW op \in Operators, Working(op, c),
           setup' = setup, phase' = phase, cr' = cr, rel' = rel, contested' = contested,
           queue' = queue, \A o \in Operators : timers[o] \subseteq timers'[o],
           \A o \in Operators \ {op} : work'[o][c] = work[o][c],
           work'[op][c] = Nil,
           \/ c \in timers'[op]
           \/ /\ At(op, c, "served")
              /\ (\E k \in Controllers(op, c) : k.reconcilePeriod > 0) => c \in timers'[op]
    PROVE  Served(c)'
<1>1. \A o \in Operators :
         /\ Working(o, c)' => Working(o, c) /\ work'[o][c] = work[o][c]
         /\ o # op => (Pending(o, c) => Pending(o, c)')
         /\ Periodic(o)' <=> Periodic(o)
         /\ Selects(o, c)' <=> Selects(o, c)
  BY DEF Working, Pending, Periodic, Selects, Entries, WatchNamespaces
<1>2. OldCopyIsQueued(c)'
  BY <1>1 DEF Served, OldCopyIsQueued, Reads
<1>3. AtWorkAlone(c)'
  BY <1>1 DEF Served, AtWorkAlone
<1>4. ServedIsReleased(c)'
  BY <1>1 DEF Served, ServedIsReleased, At
<1>5. Settled(c)'
  <2> SUFFICES ASSUME NEW o \in Operators, cr[c] # Nil, Selects(o, c), ~Pending(o, c)'
               PROVE  /\ ~Periodic(o)
                      /\ c \notin contested =>
                            /\ ~cr[c].deleting /\ rel[c] = cr[c].spec
                            /\ \A other \in Operators :
                                  Working(other, c)' => Reads(other, c, cr[c].spec, FALSE)'
    BY <1>1 DEF Settled
  <2>1. CASE o # op
    BY <1>1, <2>1 DEF Served, Settled, Reads
  <2>2. CASE o = op
    <3>1. c \notin timers'[op] /\ c \notin queue[op]
      BY <2>2 DEF Pending
    <3>2. At(op, c, "served") /\ ~Periodic(op)
      BY <2>2, <3>1, PeriodicRequeues
    <3>3. Reads(op, c, cr[c].spec, cr[c].deleting)
      BY <2>2, <3>1 DEF Served, OldCopyIsQueued
    <3>4. ~work[op][c].deleting
      BY <3>2 DEF At, TypeOK, CopyOK
    <3>5. c \notin contested => rel[c] = cr[c].spec
      BY <3>2, <3>3 DEF Served, ServedIsReleased, Reads
    <3>6. c \notin contested => \A other \in Operators : ~Working(other, c)'
      BY <1>1 DEF Served, AtWorkAlone, Working
    <3> QED
      BY <2>2, <3>2, <3>3, <3>4, <3>5, <3>6 DEF Reads
  <2> QED
    BY <2>1, <2>2
<1> QED
  BY <1>2, <1>3, <1>4, <1>5 DEF Served

-----------------------------------------------------------------------------
(* Init and the steps of users                                             *)

LEMMA InitIInv == Init => IInv
<1> SUFFICES ASSUME Init PROVE IInv
  OBVIOUS
<1>1. \A op \in Operators, c \in CRs : ~Working(op, c)
  BY DEF Init, Working
<1>2. TypeOK
  BY <1>1, OperatorsAssumption, NilAssumption DEF Init, TypeOK, Idle
<1>3. Loaded
  <2>1. ASSUME NEW op \in Operators
        PROVE  /\ controllers[op] = <<>> /\ phase[op] = "down"
               /\ setup[op].file \in Seq(ToSet(setup[op].file))
    BY OperatorsAssumption DEF Init
  <2> QED
    BY <2>1 DEF Init, Loaded, LoadedAs
<1>4. OneLeader /\ SpecsCounted
  BY DEF Init, OneLeader, SpecsCounted, Running
<1>5. ASSUME NEW c \in CRs PROVE Served(c)
  BY <1>1 DEF Init, Served, OldCopyIsQueued, AtWorkAlone, ServedIsReleased, Settled, At
<1> QED
  BY <1>2, <1>3, <1>4, <1>5 DEF IInv

(* Steps that leave the processes as they are.                             *)
LEMMA SameProcesses ==
    ASSUME IInv, UNCHANGED <<setup, phase, controllers>>
    PROVE  Loaded' /\ OneLeader'
<1>1. setup' = setup /\ phase' = phase /\ controllers' = controllers
  OBVIOUS
<1>2. Loaded'
  BY <1>1 DEF IInv, Loaded
<1>3. OneLeader'
  BY <1>1 DEF IInv, OneLeader, Running
<1> QED
  BY <1>2, <1>3

(* A write to c, of which every process hears that selects c afterwards,   *)
(* and which the workers' copies of c do not have.                         *)
LEMMA WriteIInv ==
    ASSUME IInv, NEW c \in CRs, NEW label \in Labels, Wake(Selecting(c, label), c),
           UNCHANGED <<setup, process, rel, drift, contested>>,
           edits' \in edits..MaxEdits, faults' \in 0..MaxFaults,
           cr' \in [CRs -> CustomResource \cup {Nil}],
           \A x \in CRs \ {c} : cr'[x] = cr[x],
           cr'[c] # Nil => cr'[c].label = label /\ cr'[c].spec <= edits',
           timers' \in [Operators -> SUBSET CRs],
           \A op \in Operators :
              /\ timers[op] \subseteq timers'[op]
              /\ phase[op] # "running" => timers'[op] = timers[op],
           work' \in [Operators -> [CRs -> Worker \cup {Nil}]],
           \A op \in Operators :
              /\ \A x \in CRs \ {c} : work'[op][x] = work[op][x]
              /\ Working(op, c)' =>
                    /\ Working(op, c) /\ CopyOK(op, c)'
                    /\ work'[op][c].spec = work[op][c].spec
                    /\ work'[op][c].at = "served" => work[op][c].at = "served"
    PROVE  IInv'
<1>1. /\ queue' \in [Operators -> SUBSET CRs]
      /\ \A op \in Operators :
            /\ queue[op] \subseteq queue'[op]
            /\ op \in Selecting(c, label) => c \in queue'[op]
            /\ phase[op] # "running" => queue'[op] = queue[op]
  BY HearersRun, WakeFacts DEF IInv
<1>2. ASSUME NEW op \in Operators, NEW x \in CRs \ {c}
      PROVE  /\ Working(op, x)' <=> Working(op, x)
             /\ CopyOK(op, x)' <=> CopyOK(op, x)
             /\ Selects(op, x)' <=> Selects(op, x)
  <2>1. /\ work'[op][x] = work[op][x] /\ cr'[x] = cr[x]
        /\ setup' = setup /\ phase' = phase
    BY DEF process
  <2>2. (Working(op, x)' <=> Working(op, x)) /\ (CopyOK(op, x)' <=> CopyOK(op, x))
    BY <2>1 DEF Working, CopyOK
  <2>3. Selects(op, x)' <=> Selects(op, x)
    BY <2>1 DEF Selects, Entries
  <2> QED
    BY <2>2, <2>3
<1>3. TypeOK'
  <2>1. ASSUME NEW op \in Operators, phase[op] # "running"
        PROVE  Idle(op)'
    BY <1>1, <1>2, <2>1 DEF IInv, TypeOK, Idle
  <2>2. ASSUME NEW op \in Operators, NEW x \in CRs, Working(op, x)'
        PROVE  CopyOK(op, x)'
    BY <1>2, <2>2 DEF IInv, TypeOK
  <2>3. edits' \in 0..MaxEdits
    BY OperatorsAssumption DEF IInv, TypeOK
  <2> QED
    BY <1>1, <2>1, <2>2, <2>3 DEF IInv, TypeOK, process
<1>4. Loaded' /\ OneLeader'
  BY SameProcesses DEF process
<1>5. SpecsCounted'
  <2>1. ASSUME NEW x \in CRs, x # c, cr'[x] # Nil PROVE cr'[x].spec <= edits'
    <3>1. cr[x].spec <= edits /\ cr[x].spec \in 0..MaxEdits
      BY <2>1 DEF IInv, SpecsCounted, TypeOK, CustomResource
    <3> QED
      BY <2>1, <3>1, OperatorsAssumption DEF IInv, TypeOK
  <2> QED
    BY <2>1 DEF SpecsCounted
<1>6. ASSUME NEW x \in CRs PROVE Served(x)'
  <2>1. Served(x)
    BY DEF IInv
  <2>2. CASE x # c
    <3>1. \A op \in Operators :
             /\ Selects(op, x)' => Selects(op, x)
             /\ work'[op][x] = work[op][x]
             /\ x \in queue[op] => x \in queue'[op]
             /\ x \in timers[op] => x \in timers'[op] \/ x \in queue'[op]
      BY <1>1, <1>2, <2>2
    <3> QED
      BY <2>1, <2>2, <3>1, ServedElsewhere
  <2>3. CASE x = c
    <3>1. ASSUME NEW op \in Operators, cr'[c] # Nil, Selects(op, c)' PROVE c \in queue'[op]
      <4>1. Wants(op, c, label)
        BY <3>1 DEF Selects, Wants, Entries, WatchNamespaces, process
      <4> QED
        BY <1>1, <4>1, WantsHears DEF IInv
    <3> QED
      BY <2>1, <2>3, <3>1, ServedIfQueued
  <2> QED
    BY <2>2, <2>3
<1> QED
  BY <1>3, <1>4, <1>5, <1>6 DEF IInv

(* So a user's write to c.                                                 *)
LEMMA UserWriteIInv ==
    ASSUME IInv, NEW c \in CRs, NEW label \in Labels, Wake(Selecting(c, label), c), Edit,
           UNCHANGED <<setup, process, timers, rel, drift, contested, faults>>,
           cr' = [cr EXCEPT ![c] = cr'[c]], cr'[c] \in CustomResource \cup {Nil},
           cr'[c] # Nil => cr'[c].label = label /\ cr'[c].spec <= edits + 1,
           work' = IF Unattended(c) THEN work ELSE Outdated(c)
    PROVE  IInv'
<1>1. edits' \in edits..MaxEdits /\ edits' = edits + 1 /\ faults' \in 0..MaxFaults
  BY OperatorsAssumption DEF Edit, IInv, TypeOK
<1>2. /\ cr' \in [CRs -> CustomResource \cup {Nil}]
      /\ \A x \in CRs \ {c} : cr'[x] = cr[x]
  BY DEF IInv, TypeOK
<1>3. /\ work' \in [Operators -> [CRs -> Worker \cup {Nil}]]
      /\ \A op \in Operators, x \in CRs \ {c} : work'[op][x] = work[op][x]
  BY OutdatedFacts DEF IInv, TypeOK
<1>4. ASSUME NEW op \in Operators, Working(op, c)'
      PROVE  /\ Working(op, c) /\ CopyOK(op, c)'
             /\ work'[op][c].spec = work[op][c].spec
             /\ work'[op][c].at = work[op][c].at
  <2>1. Working(op, c) /\ work' = Outdated(c)
    BY <1>4, OutdatedFacts DEF IInv, Unattended, Working
  <2>2. work'[op][c] = [work[op][c] EXCEPT !.fresh = FALSE] /\ work[op][c] \in Worker
    BY <2>1, OutdatedFacts DEF IInv, TypeOK, Working
  <2>3. CopyOK(op, c)
    BY <2>1 DEF IInv, TypeOK
  <2> QED
    BY <2>1, <2>2, <2>3 DEF CopyOK, Worker
<1>5. timers' \in [Operators -> SUBSET CRs]
  BY DEF IInv, TypeOK
<1> QED
  BY <1>1, <1>2, <1>3, <1>4, <1>5, WriteIInv

(* Nothing is outdated where nobody works.                                 *)
LEMMA UnattendedOutdated ==
    ASSUME TypeOK, NEW c \in CRs, Unattended(c)
    PROVE  Outdated(c) = work
<1>1. /\ Outdated(c) \in [Operators -> [CRs -> Worker \cup {Nil}]]
      /\ work \in [Operators -> [CRs -> Worker \cup {Nil}]]
  BY OutdatedFacts DEF TypeOK
<1>2. ASSUME NEW op \in Operators PROVE Outdated(c)[op] = work[op]
  <2>1. \A x \in CRs : Outdated(c)[op][x] = work[op][x]
    <3>1. ~Working(op, c)
      BY DEF Unattended
    <3> QED
      BY <3>1, OutdatedFacts DEF Working
  <2>2. Outdated(c)[op] \in [CRs -> Worker \cup {Nil}] /\ work[op] \in [CRs -> Worker \cup {Nil}]
    BY <1>1
  <2> QED
    BY <2>1, <2>2
<1> QED
  BY <1>1, <1>2

LEMMA CreateIInv ==
    ASSUME IInv, NEW c \in CRs, Create(c)
    PROVE  IInv'
<1>1. PICK label \in Labels :
         /\ cr' = [cr EXCEPT ![c] = [label |-> label, spec |-> 0, deleting |-> FALSE,
                                    finalizer |-> FALSE, status |-> Nil]]
         /\ Wake(Selecting(c, label), c)
  BY DEF Create
<1>2. cr' = [cr EXCEPT ![c] = cr'[c]] /\ cr'[c].label = label /\ cr'[c].spec = 0
  BY <1>1 DEF IInv, TypeOK
<1>3. cr'[c] \in CustomResource
  BY <1>1, OperatorsAssumption DEF CustomResource, Reports, IInv, TypeOK
<1>4. 0 <= edits + 1
  BY OperatorsAssumption DEF IInv, TypeOK
<1>5. /\ Edit /\ UNCHANGED <<setup, process, timers, rel, drift, contested, faults>>
      /\ work' = IF Unattended(c) THEN work ELSE Outdated(c)
  BY DEF Create
<1> QED
  BY <1>1, <1>2, <1>3, <1>4, <1>5, UserWriteIInv

(* What is stored is well formed, and no spec is beyond the edits.         *)
LEMMA StoredFacts ==
    ASSUME IInv, NEW c \in CRs, cr[c] # Nil
    PROVE  /\ cr[c] \in CustomResource /\ cr[c].label \in Labels
           /\ cr[c].spec \in 0..MaxEdits /\ cr[c].spec <= edits + 1
<1>1. cr[c] \in CustomResource /\ cr[c].spec <= edits
  BY DEF IInv, TypeOK, SpecsCounted
<1>2. cr[c].label \in Labels /\ cr[c].spec \in 0..MaxEdits
  BY <1>1 DEF CustomResource
<1> QED
  BY <1>1, <1>2, OperatorsAssumption DEF IInv, TypeOK

LEMMA EditSpecIInv ==
    ASSUME IInv, NEW c \in CRs, EditSpec(c)
    PROVE  IInv'
<1>1. /\ cr' = [cr EXCEPT ![c].spec = @ + 1] /\ cr[c] # Nil
      /\ Wake(Selecting(c, cr[c].label), c)
      /\ Edit /\ UNCHANGED <<setup, process, timers, rel, drift, contested, faults>>
      /\ work' = Outdated(c)
  BY DEF EditSpec
<1>2. cr[c].spec + 1 \in 0..MaxEdits /\ cr[c].spec + 1 <= edits + 1
  BY <1>1, StoredFacts, OperatorsAssumption DEF Edit, IInv, TypeOK, SpecsCounted
<1>3. cr' = [cr EXCEPT ![c] = cr'[c]] /\ cr'[c] = [cr[c] EXCEPT !.spec = @ + 1]
  BY <1>1 DEF IInv, TypeOK
<1>4. /\ cr'[c] \in CustomResource
      /\ cr'[c].label = cr[c].label /\ cr'[c].spec <= edits + 1
  BY <1>1, <1>2, <1>3, StoredFacts DEF CustomResource
<1>5. work' = IF Unattended(c) THEN work ELSE Outdated(c)
  BY <1>1, UnattendedOutdated DEF IInv
<1>6. cr[c].label \in Labels
  BY <1>1, StoredFacts
<1> QED
  BY <1>1, <1>3, <1>4, <1>5, <1>6, UserWriteIInv

LEMMA RelabelIInv ==
    ASSUME IInv, NEW c \in CRs, Relabel(c)
    PROVE  IInv'
<1>1. PICK label \in Labels :
         cr' = [cr EXCEPT ![c].label = label] /\ Wake(Selecting(c, label), c)
  BY DEF Relabel
<1>2. /\ Edit /\ UNCHANGED <<setup, process, timers, rel, drift, contested, faults>>
      /\ work' = Outdated(c) /\ cr[c] # Nil
  BY DEF Relabel
<1>3. cr' = [cr EXCEPT ![c] = cr'[c]] /\ cr'[c] = [cr[c] EXCEPT !.label = label]
  BY <1>1 DEF IInv, TypeOK
<1>4. cr'[c] \in CustomResource /\ cr'[c].label = label /\ cr'[c].spec <= edits + 1
  BY <1>2, <1>3, StoredFacts DEF CustomResource
<1>5. work' = IF Unattended(c) THEN work ELSE Outdated(c)
  BY <1>2, UnattendedOutdated DEF IInv
<1> QED
  BY <1>1, <1>2, <1>3, <1>4, <1>5, UserWriteIInv

LEMMA DeleteIInv ==
    ASSUME IInv, NEW c \in CRs, Delete(c)
    PROVE  IInv'
<1>1. /\ cr' = [cr EXCEPT ![c] = IF @.finalizer THEN [@ EXCEPT !.deleting = TRUE] ELSE Nil]
      /\ cr[c] # Nil /\ Wake(Selecting(c, cr[c].label), c)
      /\ Edit /\ UNCHANGED <<setup, process, timers, rel, drift, contested, faults>>
      /\ work' = Outdated(c)
  BY DEF Delete
<1>2. /\ cr' = [cr EXCEPT ![c] = cr'[c]]
      /\ cr'[c] = Nil \/ cr'[c] = [cr[c] EXCEPT !.deleting = TRUE]
  BY <1>1 DEF IInv, TypeOK
<1>3. /\ cr'[c] \in CustomResource \cup {Nil}
      /\ cr'[c] # Nil => cr'[c].label = cr[c].label /\ cr'[c].spec <= edits + 1
  <2>1. cr[c] \in CustomResource /\ cr[c].spec <= edits + 1
    BY <1>1, StoredFacts
  <2> DEFINE new == [cr[c] EXCEPT !.deleting = TRUE]
  <2>2. new \in CustomResource /\ new.label = cr[c].label /\ new.spec = cr[c].spec
    BY <2>1 DEF CustomResource
  <2> HIDE DEF new
  <2>3. cr'[c] = Nil \/ cr'[c] = new
    BY <1>2 DEF new
  <2> QED
    BY <2>1, <2>2, <2>3
<1>4. work' = IF Unattended(c) THEN work ELSE Outdated(c)
  BY <1>1, UnattendedOutdated DEF IInv
<1>5. cr[c].label \in Labels
  BY <1>1, StoredFacts
<1> QED
  BY <1>1, <1>2, <1>3, <1>4, <1>5, UserWriteIInv

(* Dependents are not the CR: the worker or the user who changes them, or  *)
(* wakes somebody, leaves all that is served as it is.                     *)
LEMMA DriftIInv ==
    ASSUME IInv, NEW c \in CRs, Drift(c)
    PROVE  IInv'
<1>1. /\ queue' \in [Operators -> SUBSET CRs]
      /\ \A op \in Operators :
            /\ queue[op] \subseteq queue'[op]
            /\ phase[op] # "running" => queue'[op] = queue[op]
  BY HearersRun, WakeFacts DEF Drift, IInv
<1>2. UNCHANGED <<setup, process, timers, work, cr, rel, contested, faults>>
  BY DEF Drift
<1>3. edits' \in 0..MaxEdits /\ edits <= edits'
  BY OperatorsAssumption DEF Drift, Edit, IInv, TypeOK
<1>4. TypeOK'
  <2>1. ASSUME NEW op \in Operators, phase[op] # "running" PROVE Idle(op)'
    BY <1>1, <1>2, <2>1 DEF IInv, TypeOK, Idle, Working
  <2>2. ASSUME NEW op \in Operators, NEW x \in CRs, Working(op, x)' PROVE CopyOK(op, x)'
    BY <1>2, <2>2 DEF IInv, TypeOK, Working, CopyOK
  <2>3. drift' \subseteq {x \in CRs : rel[x] # Nil}
    BY DEF Drift, IInv, TypeOK
  <2> QED
    BY <1>1, <1>2, <1>3, <2>1, <2>2, <2>3 DEF IInv, TypeOK, process
<1>5. Loaded' /\ OneLeader'
  BY <1>2, SameProcesses DEF process
<1>6. SpecsCounted'
  <2>1. ASSUME NEW x \in CRs, cr[x] # Nil PROVE cr[x].spec <= edits'
    BY <1>3, <2>1, StoredFacts, OperatorsAssumption DEF IInv, TypeOK, SpecsCounted
  <2> QED
    BY <1>2, <2>1 DEF SpecsCounted
<1>7. ASSUME NEW x \in CRs PROVE Served(x)'
  <2>1. \A op \in Operators :
           /\ Selects(op, x)' => Selects(op, x)
           /\ work'[op][x] = work[op][x]
           /\ x \in queue[op] => x \in queue'[op]
           /\ x \in timers[op] => x \in timers'[op] \/ x \in queue'[op]
    BY <1>1, <1>2 DEF Selects, Entries, process
  <2> QED
    BY <1>2, <2>1, ServedElsewhere DEF IInv
<1> QED
  BY <1>4, <1>5, <1>6, <1>7 DEF IInv

-----------------------------------------------------------------------------
(* The steps of processes                                                  *)

(* A step of one process that does not run, before or after: it has        *)
(* nothing to do with any CR.                                              *)
LEMMA LoadingIInv ==
    ASSUME IInv, NEW op \in Operators, phase[op] # "running",
           UNCHANGED <<setup, watching, queue, timers, work, cluster, contested, edits, faults>>,
           phase' \in [Operators -> {"down", "starting", "exited", "standby", "running"}],
           \A o \in Operators \ {op} : phase'[o] = phase[o] /\ controllers'[o] = controllers[o],
           controllers' = [o \in Operators |-> controllers'[o]],
           phase'[op] # "running", ToSet(controllers[op]) \subseteq ToSet(controllers'[op]),
           LoadedAs(setup[op], phase'[op], controllers'[op])
    PROVE  IInv'
<1>1. TypeOK'
  <2>1. ASSUME NEW o \in Operators
        PROVE  /\ watching[o] \subseteq {k.gvk : k \in ToSet(controllers'[o])}
               /\ phase'[o] # "running" => Idle(o)'
    BY DEF IInv, TypeOK, Idle, Working
  <2>2. ASSUME NEW o \in Operators, NEW x \in CRs, Working(o, x)' PROVE CopyOK(o, x)'
    BY <2>2 DEF IInv, TypeOK, Working, CopyOK, cluster
  <2> QED
    BY <2>1, <2>2 DEF IInv, TypeOK, cluster
<1>2. Loaded'
  BY DEF IInv, Loaded
<1>3. OneLeader'
  <2>1. Running' = Running
    BY DEF Running
  <2> QED
    BY <2>1 DEF IInv, OneLeader
<1>4. SpecsCounted'
  BY DEF IInv, SpecsCounted, cluster
<1>5. ASSUME NEW x \in CRs PROVE Served(x)'
  <2>1. \A o \in Operators : Selects(o, x)' => Selects(o, x)
    BY DEF Selects, Entries, cluster
  <2> QED
    BY <2>1, ServedElsewhere DEF IInv, cluster
<1> QED
  BY <1>1, <1>2, <1>3, <1>4, <1>5 DEF IInv

LEMMA StartIInv ==
    ASSUME IInv, NEW op \in Operators, Start(op)
    PROVE  IInv'
<1>1. /\ phase[op] = "down" /\ controllers' = controllers
      /\ UNCHANGED <<setup, watching, queue, timers, work, cluster, contested, edits, faults>>
  BY DEF Start
<1>2. /\ phase' \in [Operators -> {"down", "starting", "exited", "standby", "running"}]
      /\ \A o \in Operators \ {op} : phase'[o] = phase[o]
      /\ phase'[op] = IF ~Configured(setup[op]) THEN "exited"
                      ELSE IF Len(setup[op].file) = 0 THEN "standby" ELSE "starting"
  BY DEF Start, IInv, TypeOK
<1>3. LoadedAs(setup[op], phase'[op], controllers'[op])
  <2>1. LoadedAs(setup[op], "down", controllers[op])
    BY <1>1 DEF IInv, Loaded
  <2>2. controllers[op] = <<>> /\ Len(controllers[op]) = 0
    BY <2>1 DEF LoadedAs
  <2>3. Len(setup[op].file) \in Nat
    BY OperatorsAssumption DEF IInv, TypeOK
  <2> QED
    BY <1>1, <1>2, <2>1, <2>2, <2>3 DEF LoadedAs
<1>4. controllers' = [o \in Operators |-> controllers'[o]]
  BY <1>1 DEF IInv, Loaded
<1>5. phase'[op] # "running" /\ phase[op] # "running"
  BY <1>1, <1>2
<1> QED
  BY <1>1, <1>2, <1>3, <1>4, <1>5, LoadingIInv

(* The next entry gets a controller, of a name that is not in use.         *)
LEMMA SetUpIInv ==
    ASSUME IInv, NEW op \in Operators, SetUp(op)
    PROVE  IInv'
<1> DEFINE s == setup[op]
           ks == controllers[op]
           n == Len(ks) + 1
<1>1. /\ phase[op] = "starting"
      /\ UNCHANGED <<setup, watching, queue, timers, work, cluster, contested, edits, faults>>
  BY DEF SetUp
<1>2. LoadedAs(s, "starting", ks)
  BY <1>1 DEF IInv, Loaded
<1>3. /\ s.file \in Seq(ToSet(s.file)) /\ Len(s.file) \in Nat /\ DOMAIN s.file = 1..Len(s.file)
      /\ ks \in Seq({New(s, w) : w \in ToSet(s.file)})
      /\ Len(ks) \in Nat /\ Len(ks) < Len(s.file) /\ n \in DOMAIN s.file
      /\ DOMAIN ks = 1..Len(ks)
  <2>1. s.file \in Seq(ToSet(s.file))
    BY OperatorsAssumption DEF IInv, TypeOK
  <2> QED
    BY <1>2, <2>1 DEF LoadedAs
<1>4. CASE SetsUp(s, ks, s.file[n])
  <2>1. /\ controllers' = [controllers EXCEPT ![op] = Append(@, New(s, s.file[n]))]
        /\ phase' = [phase EXCEPT ![op] = IF n = Len(s.file) THEN "standby" ELSE "starting"]
    BY <1>4 DEF SetUp
  <2>2. /\ controllers' = [o \in Operators |-> controllers'[o]]
        /\ controllers'[op] = Append(ks, New(s, s.file[n]))
        /\ \A o \in Operators \ {op} : controllers'[o] = controllers[o]
    BY <2>1 DEF IInv, Loaded
  <2>3. /\ phase' \in [Operators -> {"down", "starting", "exited", "standby", "running"}]
        /\ phase'[op] = IF n = Len(s.file) THEN "standby" ELSE "starting"
        /\ \A o \in Operators \ {op} : phase'[o] = phase[o]
    BY <2>1 DEF IInv, TypeOK
  <2> DEFINE k == New(s, s.file[n])
             new == Append(ks, k)
  <2>4. k \in {New(s, w) : w \in ToSet(s.file)}
    BY <1>3 DEF ToSet
  <2>5. Configured(s)
    BY <1>1 DEF IInv, Loaded, LoadedAs
  <2>6. \A i \in 1..Len(ks) : ControllerName(ks[i].gvk) # ControllerName(k.gvk)
    <3>1. \A l \in ToSet(ks) : ControllerName(l.gvk) # ControllerName(s.file[n].gvk)
      BY <1>4 DEF SetsUp, SetupWithManager
    <3>2. k.gvk = s.file[n].gvk
      BY DEF New
    <3> QED
      BY <1>3, <3>1, <3>2 DEF ToSet
  <2> HIDE DEF k
  <2>7. /\ new \in Seq({New(s, w) : w \in ToSet(s.file)}) /\ Len(new) = n
        /\ DOMAIN new = 1..n /\ new[n] = k /\ \A i \in 1..Len(ks) : new[i] = ks[i]
    BY <1>3, <2>4
  <2>8. ToSet(ks) \subseteq ToSet(new)
    BY <1>3, <2>7 DEF ToSet
  <2>9. LoadedAs(s, phase'[op], new)
    <3>1. \A i \in 1..Len(new) : i = n \/ i \in 1..Len(ks)
      BY <1>3, <2>7
    <3>2. \A i \in 1..Len(new) : new[i] = New(s, s.file[i])
      BY <1>2, <2>7, <3>1 DEF LoadedAs, k
    <3>3. \A i, j \in 1..Len(new) :
             ControllerName(new[i].gvk) = ControllerName(new[j].gvk) => i = j
      BY <1>2, <2>6, <2>7, <3>1 DEF LoadedAs
    <3>4. Len(new) <= Len(s.file) /\ (n # Len(s.file) => Len(new) < Len(s.file))
      BY <1>3, <2>7
    <3> HIDE DEF new, n
    <3> QED
      BY <2>3, <2>5, <2>7, <3>2, <3>3, <3>4 DEF LoadedAs
  <2> QED
    BY <1>1, <2>2, <2>3, <2>8, <2>9, LoadingIInv DEF k
<1>5. CASE ~SetsUp(s, ks, s.file[n])
  <2>1. controllers' = controllers /\ phase' = [phase EXCEPT ![op] = "exited"]
    BY <1>5 DEF SetUp
  <2>2. /\ phase' \in [Operators -> {"down", "starting", "exited", "standby", "running"}]
        /\ phase'[op] = "exited" /\ \A o \in Operators \ {op} : phase'[o] = phase[o]
    BY <2>1 DEF IInv, TypeOK
  <2>3. LoadedAs(s, phase'[op], controllers'[op])
    BY <1>2, <2>1, <2>2 DEF LoadedAs
  <2>4. controllers' = [o \in Operators |-> controllers'[o]]
    BY <2>1 DEF IInv, Loaded
  <2> QED
    BY <1>1, <2>1, <2>2, <2>3, <2>4, LoadingIInv
<1> QED
  BY <1>4, <1>5

(* A process runs when its lease is free, and begins with all it selects.  *)
LEMMA RunIInv ==
    ASSUME IInv, NEW op \in Operators, Run(op)
    PROVE  IInv'
<1>1. /\ phase[op] = "standby"
      /\ UNCHANGED <<setup, controllers, watching, timers, work, cluster, contested, edits, faults>>
  BY DEF Run
<1>2. /\ phase'[op] = "running"
      /\ phase' \in [Operators -> {"down", "starting", "exited", "standby", "running"}]
      /\ \A o \in Operators \ {op} : phase'[o] = phase[o]
  BY DEF IInv, TypeOK, Run
<1>3. /\ queue' \in [Operators -> SUBSET CRs]
      /\ \A o \in Operators \ {op} : queue'[o] = queue[o]
      /\ \A c \in CRs : cr[c] # Nil /\ (\E k \in Controllers(op, c) : cr[c].label \in k.selector)
            => c \in queue'[op]
  BY DEF IInv, TypeOK, Run
<1>4. Idle(op)
  BY <1>1 DEF IInv, TypeOK
<1>5. TypeOK'
  <2>1. ASSUME NEW o \in Operators, phase'[o] # "running" PROVE Idle(o)'
    BY <1>1, <1>2, <1>3, <2>1 DEF IInv, TypeOK, Idle, Working
  <2>2. ASSUME NEW o \in Operators, NEW x \in CRs, Working(o, x)' PROVE CopyOK(o, x)'
    BY <1>1, <2>2 DEF IInv, TypeOK, Working, CopyOK, cluster
  <2> QED
    BY <1>1, <1>2, <1>3, <2>1, <2>2 DEF IInv, TypeOK, cluster
<1>6. Loaded'
  <2>1. LoadedAs(setup[op], "running", controllers[op])
    BY <1>1 DEF IInv, Loaded, LoadedAs
  <2> QED
    BY <1>1, <1>2, <2>1 DEF IInv, Loaded
<1>7. OneLeader'
  <2>1. Running' = Running \cup {op}
    BY <1>2 DEF Running
  <2>2. ASSUME NEW other \in Running, other # op,
               LeaderElection(setup[op]), LeaderElection(setup[other])
        PROVE  Lease(setup[other]) # Lease(setup[op])
    BY <2>2 DEF Run
  <2> QED
    BY <1>1, <2>1, <2>2 DEF IInv, OneLeader
<1>8. SpecsCounted'
  BY <1>1 DEF IInv, SpecsCounted, cluster
<1>9. ASSUME NEW c \in CRs PROVE Served(c)'
  <2>1. Served(c) /\ ~Working(op, c)
    BY <1>4 DEF IInv, Idle
  <2>2. ASSUME NEW o \in Operators
        PROVE  /\ Working(o, c)' <=> Working(o, c)
               /\ Periodic(o)' <=> Periodic(o)
               /\ o # op => (Selects(o, c)' <=> Selects(o, c)) /\ (Pending(o, c)' <=> Pending(o, c))
    BY <1>1, <1>2, <1>3 DEF Working, Periodic, Selects, Entries, Pending, cluster
  <2>3. ASSUME cr[c] # Nil, Selects(op, c)' PROVE c \in queue'[op]
    <3>1. PICK w \in Entries(op, c) : w.selector = Nil \/ cr[c].label \in w.selector
      BY <1>1, <2>3 DEF Selects, Entries, cluster
    <3>2. New(setup[op], w) \in Controllers(op, c)
      <4>1. LoadedAs(setup[op], "running", controllers[op])
        BY <1>1 DEF IInv, Loaded, LoadedAs
      <4>2. Namespace[c] \in WatchNamespaces(setup[op])
        BY <1>1, <2>3 DEF Selects
      <4> QED
        BY <3>1, <4>1, <4>2, EntryHasController DEF IInv
    <3>3. cr[c].label \in New(setup[op], w).selector
      BY <2>3, <3>1, StoredFacts DEF New, Selector
    <3> QED
      BY <1>3, <2>3, <3>2, <3>3
  <2>4. OldCopyIsQueued(c)'
    BY <1>1, <1>3, <2>1, <2>2 DEF Served, OldCopyIsQueued, Reads, cluster
  <2>5. AtWorkAlone(c)'
    BY <1>1, <2>1, <2>2 DEF Served, AtWorkAlone
  <2>6. ServedIsReleased(c)'
    BY <1>1, <2>1, <2>2 DEF Served, ServedIsReleased, At, cluster
  <2>7. Settled(c)'
    BY <1>1, <2>1, <2>2, <2>3 DEF Served, Settled, Reads, cluster, Pending
  <2> QED
    BY <2>4, <2>5, <2>6, <2>7 DEF Served
<1> QED
  BY <1>5, <1>6, <1>7, <1>8, <1>9 DEF IInv

(* A process that dies leaves nothing behind.                              *)
LEMMA DieIInv ==
    ASSUME IInv, NEW op \in Operators, Die(op)
    PROVE  IInv'
<1>1. UNCHANGED <<setup, cluster, contested, edits>> /\ faults' \in 0..MaxFaults
  BY OperatorsAssumption DEF Die, Fault, IInv, TypeOK
<1>2. /\ phase'[op] = "down"
      /\ phase' \in [Operators -> {"down", "starting", "exited", "standby", "running"}]
      /\ \A o \in Operators \ {op} : phase'[o] = phase[o]
  BY DEF IInv, TypeOK, Die
<1>3. /\ controllers' = [o \in Operators |-> controllers'[o]] /\ controllers'[op] = <<>>
      /\ \A o \in Operators \ {op} : controllers'[o] = controllers[o]
  BY DEF IInv, Loaded, Die
<1>4. /\ watching' \in [Operators -> SUBSET {Gvk[c] : c \in CRs}] /\ watching'[op] = {}
      /\ queue' \in [Operators -> SUBSET CRs] /\ queue'[op] = {}
      /\ timers' \in [Operators -> SUBSET CRs] /\ timers'[op] = {}
      /\ \A o \in Operators \ {op} :
            watching'[o] = watching[o] /\ queue'[o] = queue[o] /\ timers'[o] = timers[o]
  BY DEF IInv, TypeOK, Die
<1>5. /\ work' \in [Operators -> [CRs -> Worker \cup {Nil}]]
      /\ \A c \in CRs : work'[op][c] = Nil
      /\ \A o \in Operators \ {op} : work'[o] = work[o]
  BY DEF IInv, TypeOK, Die
<1>6. TypeOK'
  <2>1. ASSUME NEW o \in Operators
        PROVE  /\ watching'[o] \subseteq {k.gvk : k \in ToSet(controllers'[o])}
               /\ phase'[o] # "running" => Idle(o)'
    <3>1. CASE o = op
      BY <1>4, <1>5, <3>1 DEF Idle, Working
    <3>2. CASE o # op
      <4>1. /\ watching[o] \subseteq {k.gvk : k \in ToSet(controllers[o])}
            /\ phase[o] # "running" => Idle(o)
        BY DEF IInv, TypeOK
      <4>2. Idle(o) => Idle(o)'
        BY <1>4, <1>5, <3>2 DEF Idle, Working
      <4> QED
        BY <1>2, <1>3, <1>4, <3>2, <4>1, <4>2
    <3> QED
      BY <3>1, <3>2
  <2>2. ASSUME NEW o \in Operators, NEW x \in CRs, Working(o, x)' PROVE CopyOK(o, x)'
    <3>1. o # op /\ Working(o, x) /\ work'[o][x] = work[o][x]
      BY <1>5, <2>2 DEF Working
    <3>2. CopyOK(o, x)
      BY <3>1 DEF IInv, TypeOK
    <3> QED
      BY <1>1, <3>1, <3>2 DEF CopyOK, cluster
  <2> QED
    BY <1>1, <1>2, <1>4, <1>5, <2>1, <2>2 DEF IInv, TypeOK, cluster
<1>7. Loaded'
  <2>1. LoadedAs(setup[op], "down", <<>>)
    BY OperatorsAssumption DEF LoadedAs, IInv, TypeOK
  <2> QED
    BY <1>1, <1>2, <1>3, <2>1 DEF IInv, Loaded
<1>8. OneLeader'
  <2>1. Running' \subseteq Running
    BY <1>2 DEF Running
  <2> QED
    BY <1>1, <2>1 DEF IInv, OneLeader
<1>9. SpecsCounted'
  BY <1>1 DEF IInv, SpecsCounted, cluster
<1>10. ASSUME NEW c \in CRs PROVE Served(c)'
  <2>1. Served(c)
    BY DEF IInv
  <2>2. ~Working(op, c)' /\ ~Selects(op, c)'
    BY <1>2, <1>5 DEF Working, Selects
  <2>3. ASSUME NEW o \in Operators \ {op}
        PROVE  /\ work'[o][c] = work[o][c]
               /\ Working(o, c)' <=> Working(o, c)
               /\ Periodic(o)' <=> Periodic(o)
               /\ Selects(o, c)' <=> Selects(o, c)
               /\ Pending(o, c)' <=> Pending(o, c)
    BY <1>1, <1>2, <1>4, <1>5 DEF Working, Periodic, Selects, Entries, Pending, cluster
  <2>4. OldCopyIsQueued(c)'
    BY <1>1, <1>4, <2>1, <2>2, <2>3 DEF Served, OldCopyIsQueued, Reads, cluster
  <2>5. AtWorkAlone(c)'
    BY <1>1, <2>1, <2>2, <2>3 DEF Served, AtWorkAlone
  <2>6. ServedIsReleased(c)'
    BY <1>1, <2>1, <2>2, <2>3 DEF Served, ServedIsReleased, At, cluster
  <2>7. Settled(c)'
    BY <1>1, <2>1, <2>2, <2>3 DEF Served, Settled, Reads, cluster
  <2> QED
    BY <2>4, <2>5, <2>6, <2>7 DEF Served
<1> QED
  BY <1>6, <1>7, <1>8, <1>9, <1>10 DEF IInv

-----------------------------------------------------------------------------
(* The steps of workers                                                    *)

(* Only a process that runs works or has anything in its queue.            *)
LEMMA BusyMeansRunning ==
    ASSUME IInv, NEW op \in Operators, NEW c \in CRs,
           c \in queue[op] \cup timers[op] \/ Working(op, c)
    PROVE  phase[op] = "running" /\ op \in Running
BY DEF IInv, TypeOK, Idle, Running

(* What a worker has in its hands.                                         *)
LEMMA WorkerFacts ==
    ASSUME IInv, NEW op \in Operators, NEW c \in CRs, Working(op, c)
    PROVE  work[op][c] \in Worker /\ CopyOK(op, c) /\ op \in Running /\ phase[op] = "running"
BY BusyMeansRunning DEF IInv, TypeOK, Working

(* A step of op for c that leaves the CR as it is.                         *)
LEMMA WorkIInv ==
    ASSUME IInv, NEW op \in Operators, NEW c \in CRs, phase[op] = "running",
           UNCHANGED <<setup, phase, controllers, cr, edits>>, faults' \in 0..MaxFaults,
           watching' \in [Operators -> SUBSET {Gvk[x] : x \in CRs}],
           \A o \in Operators :
              watching'[o] \subseteq watching[o] \cup {k.gvk : k \in ToSet(controllers[o])},
           queue' \in [Operators -> SUBSET CRs],
           timers' \in [Operators -> SUBSET CRs],
           work' \in [Operators -> [CRs -> Worker \cup {Nil}]],
           \A o \in Operators :
              /\ phase[o] # "running" => queue'[o] = queue[o] /\ timers'[o] = timers[o]
              /\ \A x \in CRs \ {c} :
                    /\ x \in queue[o] => x \in queue'[o]
                    /\ x \in timers[o] => x \in timers'[o] \/ x \in queue'[o]
              /\ \A x \in CRs : o # op \/ x # c => work'[o][x] = work[o][x],
           Working(op, c)' => CopyOK(op, c)',
           rel' = [rel EXCEPT ![c] = rel'[c]], rel'[c] \in (0..MaxEdits) \cup {Nil},
           drift' \subseteq {x \in CRs : rel'[x] # Nil},
           contested' \in SUBSET CRs,
           \A x \in CRs \ {c} : x \in contested' <=> x \in contested,
           Served(c)'
    PROVE  IInv'
<1>1. rel' \in [CRs -> (0..MaxEdits) \cup {Nil}] /\ \A x \in CRs \ {c} : rel'[x] = rel[x]
  <2>1. rel \in [CRs -> (0..MaxEdits) \cup {Nil}]
    BY DEF IInv, TypeOK
  <2>2. rel' = [rel EXCEPT ![c] = rel'[c]] /\ rel'[c] \in (0..MaxEdits) \cup {Nil}
    OBVIOUS
  <2> QED
    BY <2>1, <2>2
<1>2. ASSUME NEW o \in Operators, NEW x \in CRs, o # op \/ x # c
      PROVE  /\ Working(o, x)' <=> Working(o, x)
             /\ CopyOK(o, x)' <=> CopyOK(o, x)
             /\ Selects(o, x)' <=> Selects(o, x)
  <2>1. work'[o][x] = work[o][x] /\ cr' = cr /\ setup' = setup /\ phase' = phase
    BY <1>2
  <2>2. (Working(o, x)' <=> Working(o, x)) /\ (CopyOK(o, x)' <=> CopyOK(o, x))
    BY <2>1 DEF Working, CopyOK
  <2>3. Selects(o, x)' <=> Selects(o, x)
    BY <2>1 DEF Selects, Entries
  <2> QED
    BY <2>2, <2>3
<1>3. TypeOK'
  <2>1. ASSUME NEW o \in Operators
        PROVE  /\ watching'[o] \subseteq {k.gvk : k \in ToSet(controllers[o])}
               /\ phase[o] # "running" => Idle(o)'
    <3>1. /\ watching[o] \subseteq {k.gvk : k \in ToSet(controllers[o])}
          /\ phase[o] # "running" => Idle(o)
      BY DEF IInv, TypeOK
    <3>2. phase[o] # "running" => (Idle(o) => Idle(o)')
      BY <1>2 DEF Idle
    <3> QED
      BY <3>1, <3>2
  <2>2. ASSUME NEW o \in Operators, NEW x \in CRs, Working(o, x)' PROVE CopyOK(o, x)'
    BY <1>2, <2>2 DEF IInv, TypeOK
  <2> QED
    BY <1>1, <2>1, <2>2 DEF IInv, TypeOK
<1>4. Loaded' /\ OneLeader'
  BY SameProcesses
<1>5. SpecsCounted'
  BY DEF IInv, SpecsCounted
<1>6. ASSUME NEW x \in CRs \ {c} PROVE Served(x)'
  <2>1. \A o \in Operators :
           /\ Selects(o, x)' => Selects(o, x)
           /\ work'[o][x] = work[o][x]
           /\ x \in queue[o] => x \in queue'[o]
           /\ x \in timers[o] => x \in timers'[o] \/ x \in queue'[o]
    BY <1>2
  <2> QED
    BY <1>1, <2>1, ServedElsewhere DEF IInv
<1> QED
  BY <1>3, <1>4, <1>5, <1>6 DEF IInv

LEMMA TimerFiresIInv ==
    ASSUME IInv, NEW op \in Operators, NEW c \in CRs, TimerFires(op, c)
    PROVE  IInv'
<1>1. phase[op] = "running"
  BY BusyMeansRunning DEF TimerFires
<1>2. /\ UNCHANGED <<setup, process, work, cluster, contested, edits, faults>>
      /\ c \in timers[op]
  BY DEF TimerFires
<1>3. /\ queue' \in [Operators -> SUBSET CRs] /\ timers' \in [Operators -> SUBSET CRs]
      /\ queue'[op] = queue[op] \cup {c} /\ timers'[op] = timers[op] \ {c}
      /\ \A o \in Operators \ {op} : queue'[o] = queue[o] /\ timers'[o] = timers[o]
  BY DEF TimerFires, IInv, TypeOK
<1>4. \A o \in Operators, x \in CRs :
         /\ Working(o, x)' <=> Working(o, x)
         /\ CopyOK(o, x)' <=> CopyOK(o, x)
  BY <1>2 DEF Working, CopyOK, cluster
<1>5. Served(c)'
  <2>1. \A o \in Operators :
           /\ Selects(o, c)' => Selects(o, c)
           /\ c \in queue[o] => c \in queue'[o]
           /\ c \in timers[o] => c \in timers'[o] \/ c \in queue'[o]
    BY <1>2, <1>3 DEF Selects, Entries, process, cluster
  <2> QED
    BY <1>2, <2>1, ServedElsewhere DEF IInv, cluster
<1>6. Working(op, c)' => CopyOK(op, c)'
  BY <1>4 DEF IInv, TypeOK
<1>7. /\ rel' = [rel EXCEPT ![c] = rel'[c]] /\ rel'[c] \in (0..MaxEdits) \cup {Nil}
      /\ drift' \subseteq {x \in CRs : rel'[x] # Nil}
  BY <1>2 DEF IInv, TypeOK, cluster
<1>8. /\ faults' \in 0..MaxFaults /\ contested' \in SUBSET CRs
      /\ watching' \in [Operators -> SUBSET {Gvk[x] : x \in CRs}]
      /\ work' \in [Operators -> [CRs -> Worker \cup {Nil}]]
  BY <1>2 DEF IInv, TypeOK, process
<1> QED
  BY <1>1, <1>2, <1>3, <1>5, <1>6, <1>7, <1>8, WorkIInv DEF process, cluster

LEMMA TakeIInv ==
    ASSUME IInv, NEW op \in Operators, NEW c \in CRs, Take(op, c)
    PROVE  IInv'
<1> DEFINE new ==
       [at |-> CASE cr[c].deleting -> "uninstall"
                 [] ~cr[c].deleting /\ ~cr[c].finalizer -> "addFinalizer"
                 [] OTHER -> "lookup",
        spec |-> cr[c].spec, deleting |-> cr[c].deleting,
        status |-> cr[c].status, fresh |-> TRUE]
<1>1. /\ c \in queue[op] /\ ~Working(op, c)
      /\ queue' = [queue EXCEPT ![op] = @ \ {c}]
      /\ UNCHANGED <<setup, process, timers, cluster, edits, faults>>
      /\ IF cr[c] = Nil THEN UNCHANGED <<work, contested>>
         ELSE /\ work' = [work EXCEPT ![op][c] = new]
              /\ contested' = IF Unattended(c) THEN contested ELSE contested \cup {c}
  BY DEF Take
<1>2. phase[op] = "running"
  BY <1>1, BusyMeansRunning
<1>3. /\ queue' \in [Operators -> SUBSET CRs] /\ queue'[op] = queue[op] \ {c}
      /\ \A o \in Operators \ {op} : queue'[o] = queue[o]
  BY <1>1 DEF IInv, TypeOK
<1>4. ASSUME cr[c] # Nil
      PROVE  /\ new \in Worker /\ new # Nil
             /\ new.spec = cr[c].spec /\ new.deleting = cr[c].deleting /\ new.at # "served"
             /\ new.deleting <=> new.at \in {"uninstall", "removeFinalizer"}
  <2>1. cr[c] \in CustomResource
    BY <1>4, StoredFacts
  <2>2. new \in Worker
    BY <2>1 DEF Worker, CustomResource
  <2>3. new # Nil
    BY <2>2, NilAssumption
  <2>4. new.deleting <=> new.at \in {"uninstall", "removeFinalizer"}
    BY <2>1 DEF CustomResource
  <2> QED
    BY <2>2, <2>3, <2>4
<1> HIDE DEF new
<1>5. /\ work' \in [Operators -> [CRs -> Worker \cup {Nil}]]
      /\ work'[op][c] = IF cr[c] = Nil THEN Nil ELSE new
      /\ \A o \in Operators, x \in CRs : o # op \/ x # c => work'[o][x] = work[o][x]
  <2>1. CASE cr[c] = Nil
    BY <1>1, <2>1 DEF IInv, TypeOK, Working
  <2>2. CASE cr[c] # Nil
    <3>1. work \in [Operators -> [CRs -> Worker \cup {Nil}]]
      BY DEF IInv, TypeOK
    <3>2. work' = [work EXCEPT ![op][c] = new] /\ new \in Worker
      BY <1>1, <1>4, <2>2
    <3> QED
      BY <2>2, <3>1, <3>2
  <2> QED
    BY <2>1, <2>2
<1>6. Working(op, c)' => CopyOK(op, c)'
  <2> SUFFICES ASSUME cr[c] # Nil PROVE CopyOK(op, c)'
    BY <1>5 DEF Working
  <2>1. work'[op][c] = new /\ cr' = cr
    BY <1>1, <1>5 DEF cluster
  <2> QED
    BY <1>4, <2>1 DEF CopyOK
<1>7. /\ rel' = [rel EXCEPT ![c] = rel'[c]] /\ rel'[c] \in (0..MaxEdits) \cup {Nil}
      /\ drift' \subseteq {x \in CRs : rel'[x] # Nil}
  BY <1>1 DEF IInv, TypeOK, cluster
<1>8. /\ contested' \in SUBSET CRs /\ \A x \in CRs \ {c} : x \in contested' <=> x \in contested
  BY <1>1 DEF IInv, TypeOK
<1>9. Served(c)'
  <2>1. Served(c)
    BY DEF IInv
  <2>2. /\ \A o \in Operators \ {op} :
              /\ work'[o][c] = work[o][c] /\ (Working(o, c)' <=> Working(o, c))
              /\ queue'[o] = queue[o] /\ timers'[o] = timers[o]
              /\ Pending(o, c)' <=> Pending(o, c)
        /\ \A o \in Operators :
              (Selects(o, c)' <=> Selects(o, c)) /\ (Periodic(o)' <=> Periodic(o))
        /\ Working(op, c)' <=> cr[c] # Nil
        /\ cr' = cr /\ rel' = rel
    BY <1>1, <1>3, <1>4, <1>5
       DEF Working, Pending, Selects, Entries, Periodic, process, cluster
  <2>3. OldCopyIsQueued(c)'
    BY <1>4, <1>5, <2>1, <2>2 DEF Served, OldCopyIsQueued, Reads
  <2>4. c \notin contested' =>
           c \notin contested /\ (cr[c] # Nil => \A o \in Operators : ~Working(o, c))
    BY <1>1 DEF Unattended
  <2>5. AtWorkAlone(c)'
    BY <1>1, <2>1, <2>2, <2>4 DEF Served, AtWorkAlone
  <2>6. ServedIsReleased(c)'
    BY <1>4, <1>5, <2>1, <2>2, <2>4 DEF Served, ServedIsReleased, At
  <2>7. Settled(c)'
    BY <1>4, <1>5, <2>1, <2>2, <2>4 DEF Served, Settled, Reads, Pending
  <2> QED
    BY <2>3, <2>5, <2>6, <2>7 DEF Served
<1>10. /\ faults' \in 0..MaxFaults /\ timers' \in [Operators -> SUBSET CRs]
       /\ watching' \in [Operators -> SUBSET {Gvk[x] : x \in CRs}]
  BY <1>1 DEF IInv, TypeOK, process
<1> QED
  BY <1>1, <1>2, <1>3, <1>5, <1>6, <1>7, <1>8, <1>9, <1>10, WorkIInv DEF process, cluster

(* A worker goes on.                                                       *)
LEMMA GoOnIInv ==
    ASSUME IInv, NEW op \in Operators, NEW c \in CRs, Working(op, c),
           UNCHANGED <<setup, phase, controllers, timers, cr, contested, edits>>,
           faults' \in 0..MaxFaults,
           watching' \in [Operators -> SUBSET {Gvk[x] : x \in CRs}],
           \A o \in Operators :
              watching'[o] \subseteq watching[o] \cup {k.gvk : k \in ToSet(controllers[o])},
           queue' \in [Operators -> SUBSET CRs],
           \A o \in Operators :
              queue[o] \subseteq queue'[o] /\ (phase[o] # "running" => queue'[o] = queue[o]),
           NEW w \in Worker, work' = [work EXCEPT ![op][c] = w],
           w.spec = work[op][c].spec, w.deleting = work[op][c].deleting,
           w.fresh = work[op][c].fresh,
           w.at # "failed" => (w.deleting <=> w.at \in {"uninstall", "removeFinalizer"}),
           rel' = [rel EXCEPT ![c] = rel'[c]], rel'[c] \in (0..MaxEdits) \cup {Nil},
           drift' \subseteq {x \in CRs : rel'[x] # Nil},
           \/ rel'[c] = rel[c] /\ w.at # "served"
           \/ rel'[c] = work[op][c].spec
           \/ work[op][c].deleting /\ w.at # "served"
    PROVE  IInv'
<1>1. phase[op] = "running" /\ CopyOK(op, c)
  BY WorkerFacts
<1>2. /\ work' \in [Operators -> [CRs -> Worker \cup {Nil}]]
      /\ work'[op][c] = w
      /\ \A o \in Operators, x \in CRs : o # op \/ x # c => work'[o][x] = work[o][x]
  <2>1. work \in [Operators -> [CRs -> Worker \cup {Nil}]]
    BY DEF IInv, TypeOK
  <2> QED
    BY <2>1
<1>3. Working(op, c)'
  BY <1>2, NilAssumption DEF Working
<1>4. CopyOK(op, c)'
  BY <1>1, <1>2 DEF CopyOK
<1>5. Served(c)'
  <2>1. /\ \A o \in Operators \ {op} : work'[o][c] = work[o][c]
        /\ work'[op][c].spec = work[op][c].spec
        /\ work'[op][c].deleting = work[op][c].deleting
        /\ \/ /\ rel'[c] = rel[c]
              /\ work'[op][c].at = "served" => work[op][c].at = "served"
           \/ rel'[c] = work[op][c].spec
           \/ work[op][c].deleting /\ work'[op][c].at # "served"
    BY <1>2
  <2>2. TypeOK /\ Served(c)
    BY DEF IInv
  <2> QED
    BY <1>3, <2>1, <2>2, ServedWhileWorking
<1>6. timers' \in [Operators -> SUBSET CRs] /\ contested' \in SUBSET CRs
  BY DEF IInv, TypeOK
<1> QED
  BY <1>1, <1>2, <1>4, <1>5, <1>6, WorkIInv

(* A worker ends without a write to the CR.                                *)
LEMMA EndIInv ==
    ASSUME IInv, NEW op \in Operators, NEW c \in CRs, Working(op, c),
           UNCHANGED <<setup, process, queue, cluster, contested, edits>>,
           faults' \in 0..MaxFaults,
           work' = [work EXCEPT ![op][c] = Nil],
           NEW later \in SUBSET {c}, timers' = [timers EXCEPT ![op] = @ \cup later],
           \/ later = {c}
           \/ /\ At(op, c, "served")
              /\ (\E k \in Controllers(op, c) : k.reconcilePeriod > 0) => later = {c}
    PROVE  IInv'
<1>1. phase[op] = "running"
  BY WorkerFacts
<1>2. /\ work' \in [Operators -> [CRs -> Worker \cup {Nil}]]
      /\ work'[op][c] = Nil
      /\ \A o \in Operators, x \in CRs : o # op \/ x # c => work'[o][x] = work[o][x]
  <2>1. work \in [Operators -> [CRs -> Worker \cup {Nil}]]
    BY DEF IInv, TypeOK
  <2> QED
    BY <2>1
<1>3. /\ timers' \in [Operators -> SUBSET CRs] /\ timers'[op] = timers[op] \cup later
      /\ \A o \in Operators \ {op} : timers'[o] = timers[o]
  BY DEF IInv, TypeOK
<1>4. Served(c)'
  <2>1. /\ TypeOK /\ Loaded /\ Served(c)
        /\ phase' = phase /\ cr' = cr /\ rel' = rel
    BY DEF IInv, process, cluster
  <2>2. \/ c \in timers'[op]
        \/ /\ At(op, c, "served")
           /\ (\E k \in Controllers(op, c) : k.reconcilePeriod > 0) => c \in timers'[op]
    BY <1>3
  <2>3. /\ \A o \in Operators : timers[o] \subseteq timers'[o]
        /\ \A o \in Operators \ {op} : work'[o][c] = work[o][c]
    BY <1>2, <1>3
  <2> QED
    BY <1>2, <2>1, <2>2, <2>3, ServedAtTheEnd
<1>5. ~Working(op, c)'
  BY <1>2 DEF Working
<1>6. /\ rel' = [rel EXCEPT ![c] = rel'[c]] /\ rel'[c] \in (0..MaxEdits) \cup {Nil}
      /\ drift' \subseteq {x \in CRs : rel'[x] # Nil}
      /\ contested' \in SUBSET CRs /\ queue' \in [Operators -> SUBSET CRs]
      /\ watching' \in [Operators -> SUBSET {Gvk[x] : x \in CRs}]
  BY DEF IInv, TypeOK, process, cluster
<1> QED
  BY <1>1, <1>2, <1>3, <1>4, <1>5, <1>6, WorkIInv DEF process, cluster

(* A worker whose copy is fresh writes to the CR.                          *)
LEMMA WorkerWriteIInv ==
    ASSUME IInv, NEW op \in Operators, NEW c \in CRs, Working(op, c), work[op][c].fresh,
           Wake(Selecting(c, cr[c].label), c),
           UNCHANGED <<setup, process, rel, drift, contested, edits, faults>>,
           cr' = [cr EXCEPT ![c] = cr'[c]], cr'[c] \in CustomResource \cup {Nil},
           cr'[c] # Nil => cr'[c].label = cr[c].label /\ cr'[c].spec = cr[c].spec,
           timers' = timers \/ timers' = [timers EXCEPT ![op] = @ \cup {c}],
           NEW w \in Worker \cup {Nil}, work' = [Outdated(c) EXCEPT ![op][c] = w],
           w # Nil => w.spec = work[op][c].spec /\ w.at # "served",
           Working(op, c)' => CopyOK(op, c)'
    PROVE  IInv'
<1>1. phase[op] = "running" /\ CopyOK(op, c)
  BY WorkerFacts
<1>2. /\ cr[c] # Nil /\ cr[c].label \in Labels
      /\ cr[c].spec <= edits
  BY <1>1, StoredFacts DEF CopyOK, IInv, SpecsCounted
<1>3. /\ cr' \in [CRs -> CustomResource \cup {Nil}]
      /\ \A x \in CRs \ {c} : cr'[x] = cr[x]
  <2>1. cr \in [CRs -> CustomResource \cup {Nil}]
    BY DEF IInv, TypeOK
  <2> QED
    BY <2>1
<1>4. /\ work' \in [Operators -> [CRs -> Worker \cup {Nil}]]
      /\ work'[op][c] = w
      /\ \A o \in Operators, x \in CRs : o # op \/ x # c => work'[o][x] = Outdated(c)[o][x]
  <2>1. Outdated(c) \in [Operators -> [CRs -> Worker \cup {Nil}]]
    BY OutdatedFacts DEF IInv
  <2> QED
    BY <2>1
<1>5. \A o \in Operators, x \in CRs \ {c} : work'[o][x] = work[o][x]
  BY <1>4, OutdatedFacts DEF IInv
<1>6. ASSUME NEW o \in Operators, Working(o, c)'
      PROVE  /\ Working(o, c) /\ CopyOK(o, c)'
             /\ work'[o][c].spec = work[o][c].spec
             /\ work'[o][c].at = "served" => work[o][c].at = "served"
  <2>1. CASE o = op
    BY <1>4, <1>6, <2>1 DEF Working
  <2>2. CASE o # op
    <3>1. Working(o, c) /\ work'[o][c] = [work[o][c] EXCEPT !.fresh = FALSE]
      BY <1>4, <1>6, <2>2, OutdatedFacts DEF IInv, Working
    <3>2. work[o][c] \in Worker /\ CopyOK(o, c)
      BY <3>1, WorkerFacts
    <3> QED
      BY <3>1, <3>2 DEF CopyOK, Worker
  <2> QED
    BY <2>1, <2>2
<1>7. /\ timers' \in [Operators -> SUBSET CRs]
      /\ \A o \in Operators :
            /\ timers[o] \subseteq timers'[o]
            /\ phase[o] # "running" => timers'[o] = timers[o]
  BY <1>1 DEF IInv, TypeOK
<1>8. edits' \in edits..MaxEdits /\ faults' \in 0..MaxFaults
  BY OperatorsAssumption DEF IInv, TypeOK
<1>9. cr'[c] # Nil => cr'[c].label = cr[c].label /\ cr'[c].spec <= edits'
  BY <1>2
<1> QED
  BY <1>2, <1>3, <1>4, <1>5, <1>6, <1>7, <1>8, <1>9, WriteIInv

LEMMA ConflictIInv ==
    ASSUME IInv, NEW op \in Operators, NEW c \in CRs, Working(op, c), Retry(op, c),
           UNCHANGED <<setup, process, queue, cluster, contested, edits>>,
           faults' \in 0..MaxFaults
    PROVE  IInv'
<1>1. /\ work' = [work EXCEPT ![op][c] = Nil]
      /\ timers' = [timers EXCEPT ![op] = @ \cup {c}]
  BY DEF Retry
<1> QED
  BY <1>1, EndIInv

LEMMA AddFinalizerIInv ==
    ASSUME IInv, NEW op \in Operators, NEW c \in CRs, AddFinalizer(op, c)
    PROVE  IInv'
<1>1. /\ Working(op, c) /\ work[op][c].at = "addFinalizer"
      /\ UNCHANGED <<setup, process, rel, drift, contested, edits, faults>>
  BY DEF AddFinalizer, At
<1>2. work[op][c] \in Worker /\ CopyOK(op, c)
  BY <1>1, WorkerFacts
<1>3. CASE /\ work[op][c].fresh
           /\ cr' = [cr EXCEPT ![c].finalizer = TRUE]
           /\ work' = [Outdated(c) EXCEPT ![op][c] = [work[op][c] EXCEPT !.at = "lookup"]]
           /\ Wake(Selecting(c, cr[c].label), c)
           /\ UNCHANGED timers
  <2> DEFINE w == [work[op][c] EXCEPT !.at = "lookup"]
  <2>1. cr[c] # Nil /\ cr[c] \in CustomResource
    BY <1>2, <1>3, StoredFacts DEF CopyOK
  <2>2. cr' = [cr EXCEPT ![c] = cr'[c]] /\ cr'[c] = [cr[c] EXCEPT !.finalizer = TRUE]
    BY <1>3 DEF IInv, TypeOK
  <2>3. /\ cr'[c] \in CustomResource /\ cr'[c].label = cr[c].label
        /\ cr'[c].spec = cr[c].spec /\ cr'[c].deleting = cr[c].deleting
    BY <2>1, <2>2 DEF CustomResource
  <2>4. w \in Worker /\ w.spec = work[op][c].spec /\ w.at # "served"
    BY <1>2 DEF Worker
  <2>5. CopyOK(op, c)'
    <3>1. ~work[op][c].deleting /\ work[op][c].spec = cr[c].spec /\ cr[c].deleting = FALSE
      BY <1>1, <1>2, <1>3, <2>1 DEF CopyOK, Worker
    <3>2. w.deleting = FALSE /\ w.at = "lookup" /\ cr'[c] # Nil
      BY <1>2, <2>3, <3>1, NilAssumption DEF Worker
    <3>3. work'[op][c] = w
      <4>1. Outdated(c) \in [Operators -> [CRs -> Worker \cup {Nil}]]
        BY OutdatedFacts DEF IInv
      <4> QED
        BY <1>3, <4>1
    <3> QED
      BY <2>3, <2>4, <3>1, <3>2, <3>3 DEF CopyOK
  <2> HIDE DEF w
  <2>6. work' = [Outdated(c) EXCEPT ![op][c] = w]
    BY <1>3 DEF w
  <2> QED
    BY <1>1, <1>3, <2>2, <2>3, <2>4, <2>5, <2>6, WorkerWriteIInv
<1>4. CASE Conflict(op, c)
  <2>1. faults' \in 0..MaxFaults /\ UNCHANGED cluster
    BY <1>1, <1>4 DEF Conflict, IInv, TypeOK, cluster
  <2> QED
    BY <1>1, <1>4, <2>1, ConflictIInv DEF Conflict
<1> QED
  BY <1>3, <1>4 DEF AddFinalizer

LEMMA RemoveFinalizerIInv ==
    ASSUME IInv, NEW op \in Operators, NEW c \in CRs, RemoveFinalizer(op, c)
    PROVE  IInv'
<1>1. /\ Working(op, c)
      /\ UNCHANGED <<setup, process, rel, drift, contested, edits, faults>>
  BY DEF RemoveFinalizer, At
<1>2. CASE /\ work[op][c].fresh
           /\ cr' = [cr EXCEPT ![c] = Nil]
           /\ work' = [Outdated(c) EXCEPT ![op][c] = Nil]
           /\ Wake(Selecting(c, cr[c].label), c)
           /\ UNCHANGED timers
  <2>1. cr' = [cr EXCEPT ![c] = cr'[c]] /\ cr'[c] = Nil
    BY <1>2 DEF IInv, TypeOK
  <2>2. ~Working(op, c)'
    <3>1. Outdated(c) \in [Operators -> [CRs -> Worker \cup {Nil}]]
      BY OutdatedFacts DEF IInv
    <3> QED
      BY <1>2, <3>1 DEF Working
  <2> QED
    BY <1>1, <1>2, <2>1, <2>2, WorkerWriteIInv
<1>3. CASE Conflict(op, c)
  <2>1. faults' \in 0..MaxFaults /\ UNCHANGED cluster
    BY <1>1, <1>3 DEF Conflict, IInv, TypeOK, cluster
  <2> QED
    BY <1>1, <1>3, <2>1, ConflictIInv DEF Conflict
<1> QED
  BY <1>2, <1>3 DEF RemoveFinalizer

LEMMA LookupReleaseIInv ==
    ASSUME IInv, NEW op \in Operators, NEW c \in CRs, LookupRelease(op, c)
    PROVE  IInv'
<1> DEFINE w == [work[op][c] EXCEPT !.status = IF @ = rel[c] THEN @ ELSE Nil, !.at = "serve"]
<1>1. /\ Working(op, c) /\ work[op][c].at = "lookup"
      /\ UNCHANGED <<setup, process, queue, timers, cluster, contested, edits, faults>>
      /\ work' = [work EXCEPT ![op][c] = w]
  BY DEF LookupRelease, At
<1>2. work[op][c] \in Worker /\ CopyOK(op, c)
  BY <1>1, WorkerFacts
<1>3. /\ w \in Worker /\ w.spec = work[op][c].spec /\ w.deleting = work[op][c].deleting
      /\ w.fresh = work[op][c].fresh /\ w.at = "serve"
  BY <1>2 DEF Worker, Reports
<1>4. w.deleting <=> w.at \in {"uninstall", "removeFinalizer"}
  BY <1>1, <1>2, <1>3 DEF CopyOK
<1> HIDE DEF w
<1>5. /\ rel' = [rel EXCEPT ![c] = rel'[c]] /\ rel'[c] \in (0..MaxEdits) \cup {Nil}
      /\ rel'[c] = rel[c] /\ drift' \subseteq {x \in CRs : rel'[x] # Nil}
  BY <1>1 DEF IInv, TypeOK, cluster
<1>6. /\ faults' \in 0..MaxFaults /\ queue' \in [Operators -> SUBSET CRs]
      /\ watching' \in [Operators -> SUBSET {Gvk[x] : x \in CRs}]
  BY <1>1 DEF IInv, TypeOK, process
<1> QED
  BY <1>1, <1>3, <1>4, <1>5, <1>6, GoOnIInv DEF process, cluster

LEMMA GoToFacts ==
    ASSUME IInv, NEW op \in Operators, NEW c \in CRs, Working(op, c), NEW place,
           GoTo(op, c, place),
           place \in {"addFinalizer", "lookup", "serve", "served", "failed", "uninstall",
                      "removeFinalizer"}
    PROVE  \E w \in Worker :
              /\ work' = [work EXCEPT ![op][c] = w] /\ w.at = place
              /\ w.spec = work[op][c].spec /\ w.deleting = work[op][c].deleting
              /\ w.fresh = work[op][c].fresh
<1> DEFINE w == [work[op][c] EXCEPT !.at = place]
<1>1. work \in [Operators -> [CRs -> Worker \cup {Nil}]] /\ work[op][c] \in Worker
  BY WorkerFacts DEF IInv, TypeOK
<1>2. work' = [work EXCEPT ![op][c] = w]
  BY <1>1 DEF GoTo
<1>3. /\ w \in Worker /\ w.at = place
      /\ w.spec = work[op][c].spec /\ w.deleting = work[op][c].deleting
      /\ w.fresh = work[op][c].fresh
  BY <1>1 DEF Worker
<1> QED
  BY <1>2, <1>3

LEMMA ServeIInv ==
    ASSUME IInv, NEW op \in Operators, NEW c \in CRs, Serve(op, c)
    PROVE  IInv'
<1>1. /\ Working(op, c) /\ work[op][c].at = "serve" /\ GoTo(op, c, "served")
      /\ rel' = [rel EXCEPT ![c] = work[op][c].spec] /\ drift' = drift \ {c}
      /\ UNCHANGED <<setup, phase, controllers, timers, cr, contested, edits, faults>>
      /\ watching' = [watching EXCEPT ![op] =
            IF \A k \in Controllers(op, c) : k.skipDependentWatches THEN @
            ELSE @ \cup {Gvk[c]}]
  BY DEF Serve, At
<1>2. work[op][c] \in Worker /\ CopyOK(op, c) /\ phase[op] = "running"
  BY <1>1, WorkerFacts
<1>3. PICK w \in Worker :
         /\ work' = [work EXCEPT ![op][c] = w] /\ w.at = "served"
         /\ w.spec = work[op][c].spec /\ w.deleting = work[op][c].deleting
         /\ w.fresh = work[op][c].fresh
  BY <1>1, GoToFacts
<1>4. PICK ops \in SUBSET Running : Wake(ops, c)
  BY HearersRun DEF Serve
<1>5. /\ queue' \in [Operators -> SUBSET CRs]
      /\ \A o \in Operators :
            queue[o] \subseteq queue'[o] /\ (phase[o] # "running" => queue'[o] = queue[o])
  BY <1>4, WakeFacts DEF IInv
<1>6. /\ watching' \in [Operators -> SUBSET {Gvk[x] : x \in CRs}]
      /\ \A o \in Operators :
            watching'[o] \subseteq watching[o] \cup {k.gvk : k \in ToSet(controllers[o])}
  <2>1. watching \in [Operators -> SUBSET {Gvk[x] : x \in CRs}]
    BY DEF IInv, TypeOK
  <2>2. CASE \A k \in Controllers(op, c) : k.skipDependentWatches
    BY <1>1, <2>1, <2>2
  <2>3. CASE \E k \in Controllers(op, c) : ~k.skipDependentWatches
    <3>1. Gvk[c] \in {k.gvk : k \in ToSet(controllers[op])}
      BY <2>3 DEF Controllers
    <3>2. watching' = [watching EXCEPT ![op] = @ \cup {Gvk[c]}]
      BY <1>1, <2>3
    <3> QED
      BY <2>1, <3>1, <3>2
  <2> QED
    BY <2>2, <2>3
<1>7. /\ rel' = [rel EXCEPT ![c] = rel'[c]] /\ rel'[c] = work[op][c].spec
      /\ rel'[c] \in (0..MaxEdits) \cup {Nil}
  BY <1>1, <1>2 DEF IInv, TypeOK, Worker
<1>8. drift' \subseteq {x \in CRs : rel'[x] # Nil}
  BY <1>1, <1>7 DEF IInv, TypeOK
<1>9. w.deleting <=> w.at \in {"uninstall", "removeFinalizer"}
  BY <1>1, <1>2, <1>3 DEF CopyOK
<1>10. faults' \in 0..MaxFaults
  BY <1>1 DEF IInv, TypeOK
<1> QED
  BY <1>1, <1>3, <1>5, <1>6, <1>7, <1>8, <1>9, <1>10, GoOnIInv

LEMMA UninstallIInv ==
    ASSUME IInv, NEW op \in Operators, NEW c \in CRs, Uninstall(op, c)
    PROVE  IInv'
<1>1. /\ Working(op, c) /\ work[op][c].at = "uninstall" /\ GoTo(op, c, "removeFinalizer")
      /\ rel' = [rel EXCEPT ![c] = Nil] /\ drift' = drift \ {c}
      /\ UNCHANGED <<setup, process, timers, cr, contested, edits, faults>>
  BY DEF Uninstall, At
<1>2. CopyOK(op, c) /\ work[op][c].deleting
  BY <1>1, WorkerFacts DEF CopyOK
<1>3. PICK w \in Worker :
         /\ work' = [work EXCEPT ![op][c] = w] /\ w.at = "removeFinalizer"
         /\ w.spec = work[op][c].spec /\ w.deleting = work[op][c].deleting
         /\ w.fresh = work[op][c].fresh
  BY <1>1, GoToFacts
<1>4. PICK ops \in SUBSET Running : Wake(ops, c)
  BY HearersRun DEF Uninstall
<1>5. /\ queue' \in [Operators -> SUBSET CRs]
      /\ \A o \in Operators :
            queue[o] \subseteq queue'[o] /\ (phase[o] # "running" => queue'[o] = queue[o])
  BY <1>4, WakeFacts DEF IInv
<1>6. /\ rel' = [rel EXCEPT ![c] = rel'[c]] /\ rel'[c] \in (0..MaxEdits) \cup {Nil}
      /\ drift' \subseteq {x \in CRs : rel'[x] # Nil}
  BY <1>1 DEF IInv, TypeOK
<1>7. /\ faults' \in 0..MaxFaults
      /\ watching' \in [Operators -> SUBSET {Gvk[x] : x \in CRs}]
  BY <1>1 DEF IInv, TypeOK, process
<1> QED
  BY <1>1, <1>2, <1>3, <1>5, <1>6, <1>7, GoOnIInv DEF process

LEMMA FailIInv ==
    ASSUME IInv, NEW op \in Operators, NEW c \in CRs, Fail(op, c)
    PROVE  IInv'
<1>1. /\ Working(op, c) /\ UNCHANGED <<setup, process, queue, cluster, contested, edits>>
      /\ faults' \in 0..MaxFaults
  BY OperatorsAssumption DEF Fail, Fault, IInv, TypeOK
<1>2. CASE Retry(op, c)
  BY <1>1, <1>2, ConflictIInv
<1>3. CASE GoTo(op, c, "failed") /\ UNCHANGED timers
  <2>1. PICK w \in Worker :
           /\ work' = [work EXCEPT ![op][c] = w] /\ w.at = "failed"
           /\ w.spec = work[op][c].spec /\ w.deleting = work[op][c].deleting
           /\ w.fresh = work[op][c].fresh
    BY <1>1, <1>3, GoToFacts
  <2>2. /\ rel' = [rel EXCEPT ![c] = rel'[c]] /\ rel'[c] \in (0..MaxEdits) \cup {Nil}
        /\ rel'[c] = rel[c] /\ drift' \subseteq {x \in CRs : rel'[x] # Nil}
        /\ queue' \in [Operators -> SUBSET CRs]
        /\ watching' \in [Operators -> SUBSET {Gvk[x] : x \in CRs}]
    BY <1>1 DEF IInv, TypeOK, process, cluster
  <2> QED
    BY <1>1, <1>3, <2>1, <2>2, GoOnIInv DEF process, cluster
<1> QED
  BY <1>2, <1>3 DEF Fail

(* What Return leaves for later.                                           *)
LEMMA ReturnFacts ==
    ASSUME IInv, NEW op \in Operators, NEW c \in CRs, Return(op, c),
           At(op, c, "served") \/ At(op, c, "failed")
    PROVE  \E later \in SUBSET {c} :
              /\ timers' = [timers EXCEPT ![op] = @ \cup later]
              /\ \/ later = {c}
                 \/ /\ At(op, c, "served")
                    /\ (\E k \in Controllers(op, c) : k.reconcilePeriod > 0) => later = {c}
<1>1. CASE timers' = [timers EXCEPT ![op] = @ \cup {c}]
  BY <1>1
<1>2. CASE /\ At(op, c, "served") /\ Requeue(op, c)
           /\ ~\E k \in Controllers(op, c) : k.reconcilePeriod > 0
  <2>1. timers' = [timers EXCEPT ![op] = @ \cup {}]
    BY <1>2 DEF Requeue, IInv, TypeOK
  <2> WITNESS {} \in SUBSET {c}
  <2> QED
    BY <1>2, <2>1
<1>3. CASE Requeue(op, c) /\ \E k \in Controllers(op, c) : k.reconcilePeriod > 0
  BY <1>1, <1>3 DEF Requeue
<1> QED
  BY <1>1, <1>2, <1>3 DEF Return

LEMMA ApplyIInv ==
    ASSUME IInv, NEW op \in Operators, NEW c \in CRs, Apply(op, c)
    PROVE  IInv'
<1> DEFINE w == work[op][c]
           report == IF w.at = "failed" THEN Failed ELSE w.spec
<1>1. /\ Working(op, c) /\ (At(op, c, "served") \/ At(op, c, "failed"))
      /\ UNCHANGED <<setup, process, rel, drift, contested, edits, faults>>
      /\ faults' \in 0..MaxFaults
  BY DEF Apply, At, IInv, TypeOK
<1>2. w \in Worker /\ CopyOK(op, c)
  BY <1>1, WorkerFacts DEF At
<1>3. ASSUME work' = [work EXCEPT ![op][c] = Nil], Return(op, c), UNCHANGED <<queue, cr>>
      PROVE  IInv'
  <2>1. PICK later \in SUBSET {c} :
           /\ timers' = [timers EXCEPT ![op] = @ \cup later]
           /\ \/ later = {c}
              \/ /\ At(op, c, "served")
                 /\ (\E k \in Controllers(op, c) : k.reconcilePeriod > 0) => later = {c}
    BY <1>1, <1>3, ReturnFacts
  <2>2. Working(op, c) /\ UNCHANGED cluster
    BY <1>1, <1>3 DEF At, cluster
  <2> QED
    BY <1>1, <1>3, <2>1, <2>2, EndIInv
<1>4. CASE /\ w.fresh /\ cr' = [cr EXCEPT ![c].status = report] /\ Return(op, c)
           /\ work' = [IF cr' = cr THEN work ELSE Outdated(c) EXCEPT ![op][c] = Nil]
           /\ Wake(IF cr' = cr THEN {} ELSE Selecting(c, cr[c].label), c)
  <2>1. CASE cr' = cr
    <3>1. queue' = queue
      BY <1>4, <2>1 DEF Wake, IInv, TypeOK
    <3> QED
      BY <1>3, <1>4, <2>1, <3>1
  <2>2. CASE cr' # cr
    <3>1. cr[c] # Nil /\ cr[c] \in CustomResource
      BY <1>2, <1>4, StoredFacts DEF CopyOK
    <3>2. cr' = [cr EXCEPT ![c] = cr'[c]] /\ cr'[c] = [cr[c] EXCEPT !.status = report]
      BY <1>4 DEF IInv, TypeOK
    <3>3. report \in Reports
      BY <1>2 DEF Worker, Reports
    <3>4. /\ cr'[c] \in CustomResource /\ cr'[c].label = cr[c].label
          /\ cr'[c].spec = cr[c].spec
      BY <3>1, <3>2, <3>3 DEF CustomResource
    <3>5. work' = [Outdated(c) EXCEPT ![op][c] = Nil]
      BY <1>4, <2>2
    <3>6. ~Working(op, c)'
      <4>1. Outdated(c) \in [Operators -> [CRs -> Worker \cup {Nil}]]
        BY OutdatedFacts DEF IInv
      <4> QED
        BY <3>5, <4>1 DEF Working
    <3>7. PICK later \in SUBSET {c} : timers' = [timers EXCEPT ![op] = @ \cup later]
      BY <1>1, <1>4, ReturnFacts
    <3>8. timers' = timers \/ timers' = [timers EXCEPT ![op] = @ \cup {c}]
      <4>1. later = {} \/ later = {c}
        OBVIOUS
      <4> QED
        BY <3>7, <4>1 DEF IInv, TypeOK
    <3>9. Working(op, c) /\ work[op][c].fresh /\ Wake(Selecting(c, cr[c].label), c)
      BY <1>1, <1>4, <2>2 DEF At
    <3> QED
      BY <1>1, <3>2, <3>4, <3>5, <3>6, <3>8, <3>9, WorkerWriteIInv
  <2> QED
    BY <2>1, <2>2
<1>5. CASE Conflict(op, c)
  <2>1. Working(op, c) /\ UNCHANGED cluster
    BY <1>1, <1>5 DEF Conflict, At, cluster
  <2> QED
    BY <1>1, <1>5, <2>1, ConflictIInv DEF Conflict
<1> QED
  BY <1>3, <1>4, <1>5 DEF Apply

LEMMA StutterIInv ==
    ASSUME IInv, UNCHANGED vars
    PROVE  IInv'
<1>1. TypeOK'
  BY DEF IInv, TypeOK, Idle, Working, CopyOK, vars, process, cluster
<1>2. Loaded' /\ OneLeader'
  BY SameProcesses DEF vars, process
<1>3. SpecsCounted'
  BY DEF IInv, SpecsCounted, vars, cluster
<1>4. ASSUME NEW c \in CRs PROVE Served(c)'
  <2>1. \A op \in Operators : Selects(op, c)' => Selects(op, c)
    BY DEF Selects, Entries, vars, process, cluster
  <2> QED
    BY <2>1, ServedElsewhere DEF IInv, vars, process, cluster
<1> QED
  BY <1>1, <1>2, <1>3, <1>4 DEF IInv

-----------------------------------------------------------------------------
(* The theorems                                                            *)

LEMMA NextIInv == IInv /\ [Next]_vars => IInv'
<1> SUFFICES ASSUME IInv, [Next]_vars PROVE IInv'
  OBVIOUS
<1>1. CASE UNCHANGED vars
  BY <1>1, StutterIInv
<1>2. ASSUME NEW c \in CRs,
             Create(c) \/ EditSpec(c) \/ Relabel(c) \/ Delete(c) \/ Drift(c)
      PROVE  IInv'
  BY <1>2, CreateIInv, EditSpecIInv, RelabelIInv, DeleteIInv, DriftIInv
<1>3. ASSUME NEW op \in Operators, Start(op) \/ SetUp(op) \/ Run(op) \/ Die(op)
      PROVE  IInv'
  BY <1>3, StartIInv, SetUpIInv, RunIInv, DieIInv
<1>4. ASSUME NEW op \in Operators, NEW c \in CRs, Work(op, c)
      PROVE  IInv'
  BY <1>4, AddFinalizerIInv, LookupReleaseIInv, ServeIInv, ApplyIInv, UninstallIInv,
     RemoveFinalizerIInv DEF Work
<1>5. ASSUME NEW op \in Operators, NEW c \in CRs,
             Take(op, c) \/ Fail(op, c) \/ TimerFires(op, c)
      PROVE  IInv'
  BY <1>5, TakeIInv, FailIInv, TimerFiresIInv
<1> QED
  BY <1>1, <1>2, <1>3, <1>4, <1>5 DEF Next

LEMMA Invariance == Spec => []IInv
BY InitIInv, NextIInv, PTL DEF Spec

(* What a process has, its queue and its workers, it has only while it     *)
(* runs; and what its workers have read fits what they do and, as long as  *)
(* it is fresh, what is stored.                                            *)
THEOREM TypeCorrect == Spec => []TypeOK
<1>1. IInv => TypeOK
  BY DEF IInv
<1> QED
  BY <1>1, Invariance, PTL

(* Of the entries of its watches file a process serves all, with one       *)
(* controller for each, or none.                                           *)
THEOREM AllEntries == Spec => []AllOrNothing
<1>1. IInv => AllOrNothing
  <2> SUFFICES ASSUME IInv, NEW op \in Operators, phase[op] \in {"standby", "running"}
               PROVE  LET file == setup[op].file
                          ks == controllers[op]
                      IN  /\ Len(ks) = Len(file)
                          /\ \A i \in DOMAIN file :
                                /\ ks[i].gvk = file[i].gvk
                                /\ \A j \in DOMAIN file :
                                      ControllerName(ks[i].gvk) = ControllerName(ks[j].gvk)
                                        => i = j
    BY DEF AllOrNothing
  <2> DEFINE file == setup[op].file
             ks == controllers[op]
  <2>1. LoadedAs(setup[op], phase[op], ks)
    BY DEF IInv, Loaded
  <2>2. file \in Seq(ToSet(file)) /\ Len(ks) = Len(file)
    BY <2>1, OperatorsAssumption DEF IInv, TypeOK, LoadedAs
  <2>3. DOMAIN file = 1..Len(ks)
    BY <2>2
  <2>4. ASSUME NEW i \in 1..Len(ks) PROVE ks[i].gvk = file[i].gvk
    <3>1. ks[i] = New(setup[op], file[i])
      BY <2>1 DEF LoadedAs
    <3> QED
      BY <3>1 DEF New
  <2>5. ASSUME NEW i \in 1..Len(ks), NEW j \in 1..Len(ks),
               ControllerName(ks[i].gvk) = ControllerName(ks[j].gvk)
        PROVE  i = j
    BY <2>1, <2>5 DEF LoadedAs
  <2> QED
    BY <2>2, <2>3, <2>4, <2>5
<1> QED
  BY <1>1, Invariance, PTL

(* Two replicas that ask for the same lease, each in its own way, never    *)
(* work on one CR at a time, however often they die and start again.       *)
THEOREM OneWorker == Spec => []WorkedByOne
<1>1. IInv => WorkedByOne
  <2> SUFFICES ASSUME IInv, NEW op \in Operators, NEW other \in Operators, NEW c \in CRs,
                      op # other, AsksForLease(op), AsksForLease(other),
                      Lease(setup[op]) = Lease(setup[other]),
                      Working(op, c), Working(other, c)
               PROVE  FALSE
    BY DEF WorkedByOne
  <2>1. /\ op \in Running /\ other \in Running
        /\ phase[op] = "running" /\ phase[other] = "running"
    BY BusyMeansRunning
  <2>2. Configured(setup[op]) /\ Configured(setup[other])
    BY <2>1 DEF IInv, Loaded, LoadedAs
  <2>3. LeaderElection(setup[op]) /\ LeaderElection(setup[other])
    BY <2>2, AskingIsElecting
  <2> QED
    BY <2>1, <2>3 DEF IInv, OneLeader
<1> QED
  BY <1>1, Invariance, PTL

(* Whatever fails, dies or is refused, a process that selects a CR has it  *)
(* in its queue, in a timer or in the hands of a worker until it has done  *)
(* what the CR asks for; without a period, unless two processes have been  *)
(* at work on the CR at a time.                                            *)
THEOREM NoneForgotten == Spec => []NothingForgotten
<1>1. IInv => NothingForgotten
  <2> SUFFICES ASSUME IInv, NEW op \in Operators, NEW c \in CRs,
                      cr[c] # Nil, Selects(op, c), cr[c].deleting \/ rel[c] # cr[c].spec,
                      Periodic(op) \/ c \notin contested
               PROVE  Pending(op, c)
    BY DEF NothingForgotten, Pending
  <2>1. Settled(c)
    BY DEF IInv, Served
  <2> QED
    BY <2>1 DEF Settled
<1> QED
  BY <1>1, Invariance, PTL

=============================================================================
