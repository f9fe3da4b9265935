------------------------ MODULE MCGlobalAccelerator ------------------------
(***************************************************************************)
(* Instances of GlobalAccelerator for TLC.                                 *)
(***************************************************************************)
EXTENDS GlobalAccelerator, TLC

CONSTANTS svc, ing, w1, w2, l1, l2, gcp, api, a1, a2, a3

\* An object that asks for an accelerator: its hostnames, name and one port.
Managed(lbs, name, port) ==
  [eligible |-> TRUE, managed |-> TRUE, lbs |-> lbs,
   name |-> name, ports |-> <<port>>, protocol |-> "tcp"]

OneService == [k \in {svc} |-> "service"]
TwoServiceWorkers == [w \in {w1, w2} |-> "service"]
OneIngress == [k \in {ing} |-> "ingress"]
ServiceWorker == [w \in {w1} |-> "service"]
IngressWorker == [w \in {w1} |-> "ingress"]
ServiceAndIngress == [k \in {svc, ing} |-> IF k = svc THEN "service" ELSE "ingress"]
WorkerEach == [w \in {w1, w2} |-> IF w = w1 THEN "service" ELSE "ingress"]

MCClusters == {"here", "elsewhere"}
MCNames == {"default", "chosen"}
MCPorts == {80, 443}

\* Two load balancers, a hostname of another cloud, an AWS one that is none.
MCHostKind == [l \in {l1, l2, gcp, api} |->
  CASE l = gcp -> "otherCloud" [] l = api -> "otherAws" [] OTHER -> "elb"]

\* An accelerator of the same object name in another cluster of the account.
OneForeign == [a \in {a1, a2, a3} |->
  IF a # a3 THEN NoAcc
  ELSE [managed |-> TRUE, owner |-> CHOOSE k \in Keys : TRUE, cluster |-> "elsewhere", host |-> l1,
        name |-> "default", enabled |-> TRUE,
        listener |-> [ports |-> <<80>>, protocol |-> "tcp"], group |-> {l1}]]

Fresh == Managed(<<>>, "default", 80)          \* no load balancer yet
Ready == Managed(<<l1>>, "default", 80)
Moved == Managed(<<l2>>, "chosen", 443)        \* everything different
Both  == Managed(<<gcp, l1, l2>>, "default", 80)
Odd   == Managed(<<api>>, "default", 80)
Plain == [Ready EXCEPT !.managed = FALSE]      \* annotation removed
FreshPlain == [Fresh EXCEPT !.managed = FALSE]
Other == [Ready EXCEPT !.eligible = FALSE]     \* e.g. a ClusterIP service

MCVersions == {Fresh, Ready, Moved, Both, Odd, Plain, FreshPlain, Other}

Between(V) == {e \in V \X V : e[1] # e[2]}

\* Whatever users do.
AnyEdit == Between({NoObj, Ready, Moved, Both, Odd, Plain, Other})

\* Users who never take the eligibility away, and objects that get a load
\* balancer status after their creation and keep it until their deletion; they
\* are not created, or unmanaged, without one.
Orderly ==
  {<<NoObj, Fresh>>} \union ({Fresh} \X {Ready, Both})
    \union Between({Ready, Moved, Both, Plain})
    \union ({Fresh, Ready, Moved, Both, Plain} \X {NoObj})

\* An object that is deleted and created again.
Recreated == {<<NoObj, Fresh>>, <<Fresh, Ready>>, <<Ready, NoObj>>,
              <<NoObj, FreshPlain>>, <<FreshPlain, Plain>>}

\* The two workers do the same, and a1 and a2 start alike.
Interchangeable == Permutations({w1, w2}) \union Permutations({a1, a2})

\* Every call may fail but the two whose errors the code takes for answers and
\* the one whose error it drops (README, "Known deviations").
MCFaultSites ==
  (Kinds \X (Sites \ {"read", "changed", "describe"}))
    \ {<<"ingress", "createListener">>}
IngressListenerFault == {<<"ingress", "createListener">>}
DescribeFault == {<<"service", "describe">>}
=============================================================================
