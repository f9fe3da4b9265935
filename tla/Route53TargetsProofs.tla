------------------------- MODULE Route53TargetsProofs -------------------------
(***************************************************************************)
(* Proofs about where the Route53 controller's aliases lead: if the tags   *)
(* of the accelerators in AWS lead from an object's load balancers only    *)
(* into a set S, then so do the findings of the object's worker and the    *)
(* aliases it writes.  Which set that is, is up to whoever writes the tags *)
(* (see ControllersProofs).                                                *)
(***************************************************************************)
EXTENDS Route53AtRestProofs

\* A worker with job j has found accelerators of S only.
Led(j, S) == j.found \subseteq S /\ (j.arn \in Arns => j.arn \in S)

\* The load balancers of version v are only those of accelerators in S.
LeadsInto(v, S) ==
  v # NoObj => \A n \in DOMAIN v.lbs : \A a \in Arns :
                 Exists(a) /\ TagsMatch(acc[a], v.lbs[n]) => a \in S

\* The aliases of object k lead into S.
AliasesIn(k, S) == \A h \in Hostnames : OwnsAlias(k, h) => dns[h].a \in S \union {Foreign}

\* A job on the same object, with the copy of it that the worker has or reads.
SameTask(w, j, S) ==
  /\ j \in Jobs /\ Led(j, S)
  /\ j.key = job[w].key /\ j.view \in {job[w].view, cache[job[w].key]}

\* Worker w is done with its key, or goes on with findings in S.
GoesOn(w, S) ==
  \/ \E res : Finish(w, res)
  \/ \E site, j : site # "idle" /\ SameTask(w, j, S) /\ Goto(w, site, j)

-----------------------------------------------------------------------------
(* What a worker goes on with *)

\* The loop over the status hostnames goes on.
LEMMA EnsureFromGoesOn ==
  ASSUME NEW w, NEW S, NEW j, SameTask(w, j, S), NEW i \in Nat, EnsureFrom(w, j, i)
  PROVE  GoesOn(w, S)
<1>1. ASSUME NEW n \in i .. Len(j.view.lbs),
             Goto(w, "list", [j EXCEPT !.i = n, !.arn = None])
      PROVE  GoesOn(w, S)
  <2>1. n \in Nat
    OBVIOUS
  <2>2. SameTask(w, [j EXCEPT !.i = n, !.arn = None], S)
    BY <2>1, NullAssumption DEF SameTask, Led, Jobs, Targets
  <2> QED BY <1>1, <2>2 DEF GoesOn
<1> QED BY <1>1 DEF EnsureFrom, GoesOn

\* One hostname is done.
LEMMA NextNameGoesOn ==
  ASSUME NEW w, NEW S, NEW j, SameTask(w, j, S), j.names # <<>>, NextName(w, j)
  PROVE  GoesOn(w, S)
<1>1. j.i + 1 \in Nat /\ Tail(j.names) \in Seq(Hostnames)
  BY DEF SameTask, Jobs
<1>2. SameTask(w, [j EXCEPT !.names = Tail(j.names)], S)
  BY <1>1 DEF SameTask, Led, Jobs
<1> QED BY <1>1, <1>2, EnsureFromGoesOn DEF NextName, GoesOn

\* One zone is done.
LEMMA NextZoneGoesOn ==
  ASSUME NEW w, NEW S, NEW j, SameTask(w, j, S), NextZone(w, j)
  PROVE  GoesOn(w, S)
<1>1. ASSUME NEW z \in j.zones
      PROVE  SameTask(w, [j EXCEPT !.zones = j.zones \ {z}, !.zone = z, !.todo = {}], S)
  BY <1>1 DEF SameTask, Led, Jobs
<1> QED BY <1>1 DEF NextZone, GoesOn

\* The tags of all accelerators are read.
LEMMA ListedGoesOn ==
  ASSUME NEW w, NEW S, NEW j, SameTask(w, j, S), j.view \in Versions, j.view.dns # None,
         Listed(w, j)
  PROVE  GoesOn(w, S)
<1>1. ASSUME NEW a \in Arns, j.found = {a}
      PROVE  SameTask(w, [j EXCEPT !.arn = a, !.names = j.view.dns], S)
  <2>1. j.view.dns \in Seq(Hostnames) /\ a \in S
    BY <1>1, VersionAssumption DEF SameTask, Led
  <2> QED BY <2>1 DEF SameTask, Led, Jobs
<1>2. j.i + 1 \in Nat
  BY DEF SameTask, Jobs
<1> QED BY <1>1, <1>2, EnsureFromGoesOn DEF Listed, GoesOn

\* Every call goes on with what the tags lead to.
LEMMA WorkGoesOn ==
  ASSUME RInv, NEW w \in Workers, Work(w), NEW S, Led(job[w], S), LeadsInto(job[w].view, S)
  PROVE  GoesOn(w, S)
<1> DEFINE j == job[w]
<1>1. pc[w] # "idle" /\ j \in Jobs /\ OnTask(pc[w], j)
  <2>1. pc[w] # "idle"
    BY DEF Work, Ensures, CleansUp, Read, ListAccelerators, ListTags, FindZone, ListRecords,
       CreateTxt, CreateA, UpsertA, ListZones, FindOwnedA, DeleteA, FindOwnedTxt, DeleteTxt, At
  <2> QED BY <2>1, Busy
<1>2. SameTask(w, j, S)
  BY <1>1 DEF SameTask
<1>3. ASSUME NEW site, site # "idle", NEW j2, SameTask(w, j2, S), Goto(w, site, j2)
      PROVE  GoesOn(w, S)
  BY <1>3 DEF GoesOn
<1>4. ASSUME NEW res, Finish(w, res)
      PROVE  GoesOn(w, S)
  BY <1>4 DEF GoesOn
<1>5. CASE Read(w)
  <2> DEFINE j2 == [j EXCEPT !.view = cache[j.key]]
  <2>1. cache[j.key] \in Versions \union {NoObj}
    BY <1>1 DEF RInv, OwnTypeOK, Jobs
  <2>2. SameTask(w, j2, S)
    BY <1>1, <2>1 DEF SameTask, Led, Jobs
  <2>3. Goto(w, "listZones", j2) \/ EnsureFrom(w, j2, 1)
    BY <1>5 DEF Read
  <2> HIDE DEF j2
  <2> QED BY <1>3, <2>2, <2>3, EnsureFromGoesOn
<1>6. CASE ListAccelerators(w) \/ ListTags(w)
  <2>1. j.view \in Versions /\ j.view.dns # None /\ j.i \in DOMAIN j.view.lbs
    BY <1>1, <1>6 DEF ListAccelerators, ListTags, At, OnTask, EnsureSites
  <2>2. \/ \E res : Finish(w, res)
        \/ \E l \in SUBSET Arns, f \in SUBSET S :
             LET j2 == [j EXCEPT !.listed = l, !.found = f]
             IN  f \subseteq Arns /\ (Listed(w, j2) \/ Goto(w, "tags", j2))
    <3>1. CASE ListAccelerators(w)
      BY <3>1 DEF ListAccelerators
    <3>2. CASE ListTags(w)
      <4>1. PICK a \in j.listed :
              LET f == IF TagsMatch(acc[a], Host(j)) THEN j.found \union {a} ELSE j.found
                  j2 == [j EXCEPT !.listed = j.listed \ {a}, !.found = f]
              IN  \/ Exists(a) /\ (Listed(w, j2) \/ Goto(w, "tags", j2))
                  \/ Finish(w, "err")
        BY <3>2 DEF ListTags, Answers
      <4> DEFINE f == IF TagsMatch(acc[a], Host(j)) THEN j.found \union {a} ELSE j.found
      <4>2. a \in Arns /\ j.listed \ {a} \in SUBSET Arns /\ j.found \in SUBSET Arns
        BY <1>1 DEF Jobs
      <4>3. Exists(a) => f \in SUBSET S /\ f \subseteq Arns
        BY <2>1, <4>2, NullAssumption DEF LeadsInto, Led, Host
      <4> HIDE DEF f
      <4>4. \/ Exists(a) /\ \/ Listed(w, [j EXCEPT !.listed = j.listed \ {a}, !.found = f])
                            \/ Goto(w, "tags", [j EXCEPT !.listed = j.listed \ {a}, !.found = f])
            \/ Finish(w, "err")
        BY <4>1 DEF f
      <4> QED BY <4>2, <4>3, <4>4
    <3> QED BY <1>6, <3>1, <3>2
  <2>3. ASSUME NEW l \in SUBSET Arns, NEW f \in SUBSET S, f \subseteq Arns,
               NEW j2, j2 = [j EXCEPT !.listed = l, !.found = f],
               Listed(w, j2) \/ Goto(w, "tags", j2)
        PROVE  GoesOn(w, S)
    <3>1. SameTask(w, j2, S) /\ j2.view = j.view
      BY <1>1, <2>3 DEF SameTask, Led, Jobs
    <3> QED BY <1>3, <2>1, <2>3, <3>1, ListedGoesOn
  <2> QED BY <1>4, <2>2, <2>3
<1>7. CASE FindZone(w) \/ ListRecords(w) \/ CreateTxt(w) \/ CreateA(w) \/ UpsertA(w)
  <2>1. j.names # <<>>
    BY <1>1, <1>7 DEF FindZone, ListRecords, CreateTxt, CreateA, UpsertA, At, OnTask
  <2>2. \/ \E res : Finish(w, res)
        \/ \E site : site # "idle" /\ Goto(w, site, j)
        \/ NextName(w, j)
    BY <1>7 DEF FindZone, ListRecords, CreateTxt, CreateA, UpsertA
  <2> QED BY <1>2, <1>3, <1>4, <2>1, <2>2, NextNameGoesOn
<1>8. CASE CleansUp(w)
  <2> DEFINE Lists == SUBSET (Hostnames \X Targets)
  <2>1. ASSUME NEW j2, SameTask(w, j2, S),
               (\E site : site # "idle" /\ Goto(w, site, j2)) \/ NextZone(w, j2)
        PROVE  GoesOn(w, S)
    BY <1>3, <2>1, NextZoneGoesOn
  <2>2. ASSUME NEW t \in Lists
        PROVE  SameTask(w, [j EXCEPT !.todo = t], S)
    BY <1>1 DEF SameTask, Led, Jobs
  <2>3. CASE ListZones(w)
    <3>1. SameTask(w, [j EXCEPT !.zones = Zones], S)
      BY <1>1 DEF SameTask, Led, Jobs
    <3> QED BY <1>4, <2>1, <2>3, <3>1 DEF ListZones
  <2>4. CASE FindOwnedA(w) \/ FindOwnedTxt(w)
    <3>1. PICK t \in Lists :
            \/ \E res : Finish(w, res)
            \/ Goto(w, "ownedTxt", j) \/ NextZone(w, j)
            \/ Goto(w, "deleteA", [j EXCEPT !.todo = t])
            \/ Goto(w, "deleteTxt", [j EXCEPT !.todo = t])
      <4>1. {<<h, dns[h].a>> : h \in {g \in InZone(j.zone) : OwnsAlias(j.key, g)}} \in Lists
        BY DEF InZone, OwnsAlias
      <4>2. {<<h, Foreign>> : h \in {g \in InZone(j.zone) : dns[g].txt = j.key}} \in Lists
        BY DEF InZone, Targets
      <4> QED BY <2>4, <4>1, <4>2 DEF FindOwnedA, FindOwnedTxt
    <3> QED BY <1>2, <1>4, <2>1, <2>2, <3>1
  <2>5. CASE DeleteA(w) \/ DeleteTxt(w)
    <3>1. PICK t \in j.todo :
            \/ \E res : Finish(w, res)
            \/ \E site \in {"ownedTxt", "deleteA", "deleteTxt"} :
                 Goto(w, site, [j EXCEPT !.todo = j.todo \ {t}])
            \/ NextZone(w, [j EXCEPT !.todo = j.todo \ {t}])
      BY <2>5 DEF DeleteA, DeleteTxt
    <3>2. SameTask(w, [j EXCEPT !.todo = j.todo \ {t}], S)
      <4>1. j.todo \ {t} \in Lists
        BY <1>1 DEF Jobs
      <4> QED BY <2>2, <4>1
    <3> QED BY <1>4, <2>1, <3>1, <3>2
  <2> QED BY <1>8, <2>3, <2>4, <2>5 DEF CleansUp
<1> QED BY <1>5, <1>6, <1>7, <1>8 DEF Work, Ensures

-----------------------------------------------------------------------------
(* What a worker writes *)

\* Where the aliases of an object lead, once its worker knows where to.
LEMMA WorkWrites ==
  ASSUME RInv, NEW w \in Workers, Work(w), NEW S, Led(job[w], S),
         NEW k, k = job[w].key, AliasesIn(k, S)
  PROVE  AliasesIn(k, S)'
<1> DEFINE j == job[w]
<1>1. j \in Jobs /\ OnTask(pc[w], j) /\ k \in Keys
  <2>1. pc[w] # "idle"
    BY DEF Work, Ensures, CleansUp, Read, ListAccelerators, ListTags, FindZone, ListRecords,
       CreateTxt, CreateA, UpsertA, ListZones, FindOwnedA, DeleteA, FindOwnedTxt, DeleteTxt, At
  <2> QED BY <2>1, Busy
<1>2. dns \in DnsType /\ \A h \in Hostnames : dns[h] \in RecordSets
  BY DEF RInv, OwnTypeOK, DnsType
<1>3. CASE dns' = dns
  BY <1>3 DEF AliasesIn, OwnsAlias
<1>4. CASE dns' # dns /\ CreateTxt(w)
  <2>1. /\ dns[Head(j.names)].txt = None
        /\ dns' = [dns EXCEPT ![Head(j.names)].txt = j.key]
    BY <1>4 DEF CreateTxt, Answers, Fails
  <2>2. ASSUME NEW h \in Hostnames, OwnsAlias(k, h)'
        PROVE  dns'[h].a \in S \union {Foreign}
    <3>1. CASE h # Head(j.names)
      BY <1>2, <2>1, <2>2, <3>1 DEF DnsType, AliasesIn, OwnsAlias
    <3>2. CASE h = Head(j.names)
      <4>1. dns'[h].a = dns[h].a
        BY <1>2, <2>1, <3>2 DEF DnsType, RecordSets
      <4>2. dns[h].a \notin Arns
        BY <2>1, <3>2, NullAssumption DEF RInv, NoOrphanRecord
      <4> QED BY <2>2, <4>1, <4>2 DEF OwnsAlias, Targets
    <3> QED BY <3>1, <3>2
  <2> QED BY <2>2 DEF AliasesIn
<1>5. CASE dns' # dns /\ (CreateA(w) \/ UpsertA(w))
  <2>1. dns' = [dns EXCEPT ![Head(j.names)].a = j.arn] /\ j.arn \in S
    BY <1>1, <1>5 DEF CreateA, UpsertA, At, Answers, Fails, OnTask, Led
  <2>2. ASSUME NEW h \in Hostnames, OwnsAlias(k, h)'
        PROVE  dns'[h].a \in S \union {Foreign}
    <3>1. CASE h # Head(j.names)
      BY <1>2, <2>1, <2>2, <3>1 DEF DnsType, AliasesIn, OwnsAlias
    <3>2. CASE h = Head(j.names)
      BY <1>2, <2>1, <3>2 DEF DnsType, RecordSets
    <3> QED BY <3>1, <3>2
  <2> QED BY <2>2 DEF AliasesIn
<1>6. CASE dns' # dns /\ (DeleteA(w) \/ DeleteTxt(w))
  <2>1. PICK g \in Hostnames : \/ dns' = [dns EXCEPT ![g].a = None]
                               \/ dns' = [dns EXCEPT ![g].txt = None]
    BY <1>1, <1>6 DEF DeleteA, DeleteTxt, Answers, Fails, Jobs
  <2>2. ASSUME NEW h \in Hostnames, OwnsAlias(k, h)'
        PROVE  OwnsAlias(k, h) /\ dns'[h].a = dns[h].a
    BY <1>1, <1>2, <2>1, <2>2, NullAssumption DEF OwnsAlias, DnsType, RecordSets
  <2> QED BY <2>2 DEF AliasesIn
<1>7. CASE dns' # dns /\ ~(CreateTxt(w) \/ CreateA(w) \/ UpsertA(w) \/ DeleteA(w) \/ DeleteTxt(w))
  BY <1>7 DEF Work, Ensures, CleansUp, Read, ListAccelerators, ListTags, FindZone, ListRecords,
     ListZones, FindOwnedA, FindOwnedTxt, Answers, Fails
<1> QED BY <1>3, <1>4, <1>5, <1>6, <1>7

-----------------------------------------------------------------------------
(* Where an object's records lead *)

\* All that the Route53 controller knows and wrote of object k leads into S.
Points(k, S) ==
  /\ AliasesIn(k, S)
  /\ \A w \in Workers : Holds(w, k) => Led(job[w], S)

\* A call moves one worker, which stays with its key and with its copy of the
\* object, unless it reads it.
LEMMA WorkMoves ==
  ASSUME RInv, NEW w \in Workers, Work(w)
  PROVE  /\ pc[w] # "idle" /\ job[w].key \in Keys
         /\ \A v \in Workers \ {w} : pc'[v] = pc[v] /\ job'[v] = job[v]
         /\ \/ pc'[w] = "idle"
            \/ /\ job'[w].key = job[w].key
               /\ job'[w].view \in {job[w].view, cache[job[w].key]}
<1>1. pc[w] # "idle"
  BY DEF Work, Ensures, CleansUp, Read, ListAccelerators, ListTags, FindZone, ListRecords,
     CreateTxt, CreateA, UpsertA, ListZones, FindOwnedA, DeleteA, FindOwnedTxt, DeleteTxt, At
<1>2. job[w] \in Jobs /\ job[w].key \in Keys
  BY <1>1, Busy
<1>3. Led(job[w], Arns) /\ LeadsInto(job[w].view, Arns)
  BY <1>2 DEF Led, LeadsInto, Jobs
<1>4. GoesOn(w, Arns)
  BY <1>3, WorkGoesOn
<1> QED BY <1>1, <1>2, <1>4, Moves DEF GoesOn, SameTask

\* A call leads no object's records out of S, if no tag that its worker can read
\* does.
LEMMA WorkPoints ==
  ASSUME RInv, RInv', Ledger, NEW w \in Workers, Work(w), NEW k \in Keys, NEW S,
         Points(k, S), k = job[w].key => LeadsInto(job[w].view, S)
  PROVE  Points(k, S)'
<1>1. /\ pc[w] # "idle" /\ job[w].key \in Keys
      /\ \A v \in Workers \ {w} : pc'[v] = pc[v] /\ job'[v] = job[v]
      /\ pc'[w] = "idle" \/ job'[w].key = job[w].key
  BY WorkMoves
<1>2. CASE k # job[w].key
  <2>1. RecordsOf(k)' = RecordsOf(k)
    <3>1. Call(w)
      BY WorkSteps DEF Steps
    <3> QED BY <1>2, <3>1 DEF Call
  <2>2. ASSUME NEW h \in Hostnames, OwnsAlias(k, h)'
        PROVE  OwnsAlias(k, h) /\ dns'[h].a = dns[h].a
    <3>1. <<h, dns'[h].a>> \in RecordsOf(k)
      BY <2>1, <2>2 DEF RecordsOf, OwnsAlias
    <3>2. dns[h].txt = k /\ dns'[h].a = dns[h].a
      BY <3>1 DEF RecordsOf
    <3> QED BY <2>2, <3>2 DEF OwnsAlias
  <2>3. AliasesIn(k, S)'
    BY <2>2 DEF Points, AliasesIn
  <2>4. \A v \in Workers : Holds(v, k)' => Led(job'[v], S)
    BY <1>1, <1>2 DEF Points, Holds
  <2> QED BY <2>3, <2>4 DEF Points, Led
<1>3. CASE k = job[w].key
  <2>1. Led(job[w], S)
    BY <1>1, <1>3 DEF Points, Holds
  <2>2. AliasesIn(k, S)'
    BY <1>3, <2>1, WorkWrites DEF Points
  <2>3. pc'[w] = "idle" \/ Led(job'[w], S)
    <3>1. GoesOn(w, S)
      BY <1>3, <2>1, WorkGoesOn
    <3> QED BY <3>1, Moves DEF GoesOn, SameTask
  <2>4. \A v \in Workers : Holds(v, k)' => Led(job'[v], S)
    BY <1>1, <2>3 DEF Points, Holds
  <2> QED BY <2>2, <2>4 DEF Points, Led
<1> QED BY <1>2, <1>3

\* An object that the controller is done with has no records that could lead
\* anywhere once it is there again.
LEMMA DonePoints ==
  ASSUME RInv, RestInv, ServicesEligible, spent.crashes = 0, NEW k \in Keys,
         obj[k] = NoObj, watch[k] = <<>>,
         k \notin queue[KindOf[k]].pending, k \notin queue[KindOf[k]].processing, NEW S
  PROVE  Points(k, S)
<1>1. ASSUME NEW w \in Workers, Holds(w, k)
      PROVE  FALSE
  BY <1>1 DEF RInv, NoStaleFinding, OneWorkerPerKey, Holds
<1>2. cache[k] = NoObj
  BY DEF RestInv, Told
<1>3. RecordsOf(k) = {}
  BY <1>1, <1>2, ServicesEligible DEF RestInv, Ledger, Waiting, Settled, Unwanted
<1>4. \A h \in Hostnames : ~OwnsAlias(k, h)
  BY <1>3 DEF RecordsOf, OwnsAlias
<1> QED BY <1>1, <1>4 DEF Points, AliasesIn
=============================================================================
