---------------------------- MODULE MCOperators ----------------------------
(***************************************************************************)
(* Operators for TLC: two processes and two custom resources of one kind   *)
(* in two namespaces.                                                      *)
(***************************************************************************)
EXTENDS Operators

Nginx == [group |-> "demo", version |-> "v1", kind |-> "Nginx"]

MCGvk == [c \in CRs |-> Nginx]
MCNamespace == [c \in CRs |-> IF c = "x" THEN "ns1" ELSE "ns2"]

MCToLower(kind) == IF kind = "NGINX" THEN "nginx" ELSE IF kind = "Nginx" THEN "nginx" ELSE kind

Entry == [gvk |-> Nginx, chart |-> "chart", overrideValues |-> "ok",
          watchDependentResources |-> Nil, selector |-> Nil]

Process(flags, file) ==
    [flags |-> flags, OPERATOR_NAME |-> "", WATCH_NAMESPACE |-> <<>>, file |-> file]

(* Two processes, started with p and with q.                               *)
Pair(p, q) == [op \in Operators |-> IF op = "one" THEN p ELSE q]

(* They share a lease, named by a flag and by the environment.             *)
LeaseByFlag ==
    [Process("leader-elect" :> TRUE @@ "leader-election-id" :> "lease", <<Entry>>)
       EXCEPT !.WATCH_NAMESPACE = <<"ns1", "">>]
LeaseByEnvironment ==
    [Process("enable-leader-election" :> TRUE, <<Entry>>)
       EXCEPT !.WATCH_NAMESPACE = <<"ns1">>, !.OPERATOR_NAME = "lease"]

(* One that serves all CRs, one at a time.                                 *)
OneByOne == Process("max-concurrent-reconciles" :> 1 @@ "reconcile-period" :> 0, <<Entry>>)

(* A shard serves the CRs of one colour, with a period or not, and with or *)
(* without watches on dependents.                                          *)
Shard(colour, period, watch) ==
    [Process("reconcile-period" :> period,
             <<[Entry EXCEPT !.selector = {colour}, !.watchDependentResources = watch]>>)
       EXCEPT !.WATCH_NAMESPACE = <<"ns1">>]

(* What a process refuses to start with.                                   *)
Refused ==
    {Process(<<>>, file) : file \in
        {<<Entry, Entry>>, <<Entry, [Entry EXCEPT !.gvk.kind = "NGINX"]>>}
        \cup {<<w>> : w \in {[Entry EXCEPT !.gvk.version = ""], [Entry EXCEPT !.chart = Nil],
                             [Entry EXCEPT !.overrideValues = "unparsable"],
                             [Entry EXCEPT !.overrideValues = "inapplicable"],
                             [Entry EXCEPT !.selector = Malformed]}}}
    \cup {Process(flags, <<Entry>>) : flags \in
        {"leader-elect" :> TRUE, "max-concurrent-reconciles" :> 0, "reconcile-period" :> -1,
         "leader-elect" :> TRUE @@ "enable-leader-election" :> TRUE}}

AllSetups ==
    {Pair(LeaseByFlag, LeaseByEnvironment),
     Pair(OneByOne, Process(<<>>, <<[Entry EXCEPT !.chart = Nil]>>)),
     Pair(Shard("blue", 0, TRUE), Shard("green", 0, TRUE)),
     Pair(Shard("blue", 0, FALSE), Shard("green", 60, TRUE))}
    \cup {Pair(r, r) : r \in Refused}

(* One process whose entry says nothing of dependents, without a period.    *)
NoPeriod == {[op \in Operators |-> Process("reconcile-period" :> 0, <<Entry>>)]}
=============================================================================
