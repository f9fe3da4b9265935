----------------------------- MODULE MCRoute53 -----------------------------
(***************************************************************************)
(* Instances of Route53 for TLC.                                           *)
(***************************************************************************)
EXTENDS Route53, TLC

CONSTANTS svc, ing, w1, w2, l1, l2, gcp, a1, a2, h1, h2, taken, z1, z2

MCKindOf == [k \in {svc, ing} |-> IF k = svc THEN "service" ELSE "ingress"]
MCQueueOf == [w \in {w1, w2} |-> IF w = w1 THEN "service" ELSE "ingress"]
JustService == [k \in {svc} |-> "service"]
ServiceWorker == [w \in {w1} |-> "service"]
MCHostKind == [l \in {l1, l2, gcp} |-> IF l = gcp THEN "otherCloud" ELSE "elb"]

MCAccelerators ==
  [managed : BOOLEAN, cluster : {"here", "elsewhere"}, host : {l1, l2}]

Ours(l) == [managed |-> TRUE, cluster |-> "here", host |-> l]
Theirs == [Ours(l1) EXCEPT !.cluster = "elsewhere"]

\* A hostname of each zone, and one with a plain address and without a TXT.
MCZoneOf == [h \in {h1, h2, taken} |-> IF h = h1 THEN z1 ELSE z2]
MCFirstDns == [h \in {h1, h2, taken} |->
  [txt |-> None, a |-> IF h = taken THEN Plain ELSE None]]

Wants(lbs, names) == [eligible |-> TRUE, lbs |-> lbs, dns |-> names]

Fresh == Wants(<<>>, <<h1>>)
One == Wants(<<l1>>, <<h1>>)
Two == Wants(<<gcp, l1>>, <<h2, h1>>)
Taken == Wants(<<l1>>, <<taken>>)
Bare == Wants(<<l1>>, None)     \* annotation removed

MCVersions == {Fresh, One, Two, Taken, Bare}

Between(V) == {e \in V \X V : e[1] # e[2]}

\* Objects come, change their hostnames, lose the annotation and go.
AnyEdit == Between({NoObj, One, Two, Bare}) \union {<<NoObj, Taken>>, <<One, Taken>>}
Created == {<<NoObj, One>>}

\* The accelerators come and go, or are retagged.
MCAccEdits ==
  {<<NoAcc, Ours(l1)>>, <<Ours(l1), NoAcc>>, <<NoAcc, Theirs>>}
Appears == {<<NoAcc, Ours(l1)>>}

MCFaultSites == Kinds \X (Sites \ {"read"})
=============================================================================
