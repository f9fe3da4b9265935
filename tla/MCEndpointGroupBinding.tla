----------------------- MODULE MCEndpointGroupBinding -----------------------
(***************************************************************************)
(* Instances of EndpointGroupBinding for TLC.                              *)
(***************************************************************************)
EXTENDS EndpointGroupBinding, TLC

CONSTANTS b1, b2, w1, w2, r1, r2, l1, l2, api, g1, g2

Asks(g, r, weight) == [group |-> g, ref |-> r, weight |-> weight]

Light == Asks(g1, r1, "light")
Heavy == Asks(g1, r1, "heavy")
Second == Asks(g1, r2, "light")      \* another service on the same group
Elsewhere == Asks(g2, r1, "light")   \* what the webhook stops

Between(V) == {e \in V \X V : e[1] # e[2]}

\* Whatever users ask for, and whatever becomes of the service.
AnyEdit == Between({NoObj, Light, Heavy}) \union {<<Light, Elsewhere>>}
AnyHosts == {<<l1>>, <<l1, l2>>}
AnyRefEdit == Between({<<>>, <<l1>>, <<l2>>, <<l1, l2>>})
                \union {<<<<l1>>, <<api>>>>, <<<<l1>>, NoObj>>}

\* Users who create, reweigh and delete a binding; a load balancer that comes
\* and is replaced by one that is active.
OrderlyEdits == Between({NoObj, Light, Heavy})
NoService == {NoObj}
Replaced == {<<NoObj, <<>>>>, <<<<>>, <<l1>>>>, <<<<l1>>, <<l2>>>>}

\* Two bindings of one group, a load balancer each.
TwoServices == {<<NoObj, Light>>, <<NoObj, Second>>}
OneBalancer == {<<l1>>, <<l2>>}
NoRefEdit == {}

\* A binding with a load balancer, which goes.
Lost == {<<<<l1>>, <<>>>>}

Interchangeable == Permutations({w1, w2})

MCFaultSites == Sites \ {"read"}
=============================================================================
