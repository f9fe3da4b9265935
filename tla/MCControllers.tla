--------------------------- MODULE MCControllers ---------------------------
(***************************************************************************)
(* An instance of Controllers for TLC.                                     *)
(***************************************************************************)
EXTENDS Controllers, TLC

CONSTANTS svc, w1, rw1, l1, l2, a1, a2, h1, z1

JustService == [k \in {svc} |-> "service"]
OneWorker == [w \in {w1} |-> "service"]
OneRecordWorker == [w \in {rw1} |-> "service"]
AllElb == [l \in {l1, l2} |-> "elb"]
OneZone == [h \in {h1} |-> z1]
NoDns == [h \in {h1} |-> [txt |-> None, a |-> None]]

Ready == [eligible |-> TRUE, managed |-> TRUE, lbs |-> <<l1>>, name |-> "default",
          ports |-> <<80>>, protocol |-> "tcp", dns |-> <<h1>>]
Fresh == [Ready EXCEPT !.lbs = <<>>]       \* no load balancer yet
Moved == [Ready EXCEPT !.lbs = <<l2>>, !.ports = <<443>>]
NoName == [Ready EXCEPT !.dns = None]      \* the Route53 annotation removed

MCVersions == {Fresh, Ready, Moved, NoName}

\* A service that gets its load balancer once, and is not created again.
Orderly ==
  {<<NoObj, Fresh>>, <<Fresh, Ready>>, <<Ready, Moved>>, <<Moved, Ready>>,
   <<Ready, NoName>>, <<NoName, Ready>>}
    \union ({Ready, Moved, NoName} \X {NoObj})

\* Calls that fail before there is an accelerator, and after it is complete.
\* One that fails in between has it deleted and made again under another name,
\* which the records do not follow (README, "Known deviations").
MCFaultSites ==
  {"service"} \X
    {"loadBalancer", "list", "tags", "create", "update", "tagResource",
     "getListener", "newListener", "updateListener",
     "getEndpointGroup", "newEndpointGroup", "updateEndpointGroup",
     "relatedListener", "relatedEndpointGroup",
     "deleteEndpointGroup", "deleteListener", "disable", "poll", "delete"}
=============================================================================
