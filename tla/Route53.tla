------------------------------ MODULE Route53 ------------------------------
(***************************************************************************)
(* The Route53 controller: pkg/controller/route53 with the workflow of     *)
(* pkg/cloudprovider/aws/route53.go, one AWS call per step, against the    *)
(* API server, the accelerators (which it only reads) and the hosted       *)
(* zones, in a process that may crash at any point.                        *)
(*                                                                         *)
(* Objects, versions and accelerators are those of GlobalAccelerator.  Of  *)
(* a version this controller reads: eligible, lbs, and dns, the hostnames  *)
(* of the route53-hostname annotation (None without it).  An accelerator's *)
(* ARN stands for its DNS name too.                                        *)
(*                                                                         *)
(* Each hostname has at most one TXT record set, naming the owner, and one *)
(* A record set: an alias of an accelerator, an alias of something else,   *)
(* or a plain address.                                                     *)
(***************************************************************************)
EXTENDS Integers, Sequences, FiniteSets, Reconcile

CONSTANTS
  Keys, KindOf, Workers, QueueOf, LBs, HostKind, Versions, Edits,
  Arns, Clusters, ClusterName,        \* all as in GlobalAccelerator
  Accelerators, \* what an accelerator can be
  AccEdits,    \* what becomes of one: <<old, new>>
  Hostnames,   \* the names an annotation can list
  Zones,       \* hosted zones
  ZoneOf,      \* the nearest zone that encloses a hostname, or None
  FirstDns,    \* the record sets at the start, none of them an object's
  FaultSites,  \* <<kind, call>>: the calls that may fail
  MaxFaults, MaxChanges, MaxCrashes,   \* bounds of a run
  NoObj, NoAcc, NoJob, None, Foreign, Plain

Kinds == {"service", "ingress"}

Targets == Arns \union {Foreign}   \* what an alias points to

RecordSets == [txt : Keys \union {Foreign, None}, a : Targets \union {Plain, None}]

EnsureSites == {"list", "tags", "findZone", "listRecords", "createTxt",
                "createA", "upsertA"}
CleanupSites == {"listZones", "ownedA", "deleteA", "ownedTxt", "deleteTxt"}
Sites == {"read"} \union EnsureSites \union CleanupSites

\* What a worker is on: the key, the copy of its object, the load balancer the
\* loop is at; the accelerators whose tags are still to be read and those found
\* to be the load balancer's; the accelerator, and the hostnames still to be
\* seen to; in a cleanup the zones still to be seen to, the current one, and
\* the record sets listed in it that are still to be deleted.
Jobs == [key : Keys, view : Versions \union {NoObj}, i : Nat,
         listed : SUBSET Arns, found : SUBSET Arns,
         arn : Arns \union {None}, names : Seq(Hostnames),
         zones : SUBSET Zones, zone : Zones \union {None},
         todo : SUBSET (Hostnames \X Targets)]

ASSUME KindAssumption == KindOf \in [Keys -> Kinds] /\ QueueOf \in [Workers -> Kinds]
ASSUME HostAssumption == HostKind \in [LBs -> {"elb", "otherAws", "otherCloud"}]
ASSUME VersionAssumption == \A v \in Versions :
  v.eligible \in BOOLEAN /\ v.lbs \in Seq(LBs) /\ v.dns \in Seq(Hostnames) \union {None}
ASSUME EditAssumption ==
  /\ Edits \subseteq (Versions \union {NoObj}) \X (Versions \union {NoObj})
  /\ AccEdits \subseteq (Accelerators \union {NoAcc}) \X (Accelerators \union {NoAcc})
ASSUME AcceleratorAssumption == \A r \in Accelerators :
  r.managed \in BOOLEAN /\ r.cluster \in Clusters /\ r.host \in LBs
ASSUME ZoneAssumption == ZoneOf \in [Hostnames -> Zones \union {None}]
ASSUME FirstDnsAssumption ==
  FirstDns \in [Hostnames -> [txt : {Foreign, None}, a : {Foreign, Plain, None}]]
ASSUME NullAssumption ==
  /\ NoObj \notin Versions
  /\ NoAcc \notin Accelerators
  /\ NoJob \notin Jobs
  /\ None \notin Keys \union Targets \union Zones \union {Plain} \union Seq(Hostnames)
  /\ Foreign \notin Keys \union Arns
  /\ Plain \notin Targets
ASSUME BoundAssumption ==
  MaxFaults \in Nat /\ MaxChanges \in Nat /\ MaxCrashes \in Nat

VARIABLES
  obj,      \* the objects in the API server
  watch,    \* the versions the informer has not been told of yet
  cache,    \* the informer's cache
  acc,      \* the accelerators in AWS
  queue, pc, job,
  dns,      \* the record sets of each hostname
  spent     \* how much of the bounds is used up

outside == <<obj, watch, cache, acc>>
vars == <<obj, watch, cache, acc, queue, pc, job, dns, spent>>

-----------------------------------------------------------------------------
(* Informer and environment *)

\* Mistake: the handlers look at the annotation of the new version only.
NotifiesAnnotated(k, old, new) ==
  LET counts(v) == KindOf[k] = "service" => v.eligible
  IN  IF new = NoObj
      THEN old # NoObj /\ counts(old)
      ELSE old # new /\ counts(new) /\ new.dns # None

\* Whether the handlers enqueue a key when its cached object goes from old to
\* new.  Those of the ingresses do not look at the ingress class.
Notifies(k, old, new) ==
  LET counts(v) == KindOf[k] = "service" => v.eligible
  IN  IF new = NoObj
      THEN old # NoObj /\ counts(old)
      ELSE IF old = NoObj
      THEN counts(new) /\ new.dns # None
      ELSE /\ old # new /\ counts(new)
           /\ new.dns # None \/ old.dns # None

\* The informer moves from its copy to version "new".
Notified(k, new) ==
  queue' = IF Notifies(k, cache[k], new)
           THEN [queue EXCEPT ![KindOf[k]] = Add(@, k)]
           ELSE queue

Change(k, v) ==
  /\ spent.changes < MaxChanges
  /\ <<obj[k], v>> \in Edits
  /\ obj' = [obj EXCEPT ![k] = v]
  /\ watch' = [watch EXCEPT ![k] = Append(@, v)]
  /\ spent' = [spent EXCEPT !.changes = @ + 1]
  /\ UNCHANGED <<cache, acc, queue, pc, job, dns>>

\* The next watch event, or a relist that skips to the newest version.
Deliver(k) ==
  /\ watch[k] # <<>>
  /\ \E n \in {1, Len(watch[k])} :
       /\ cache' = [cache EXCEPT ![k] = watch[k][n]]
       /\ watch' = [watch EXCEPT ![k] = SubSeq(@, n + 1, Len(@))]
       /\ Notified(k, watch[k][n])
  /\ UNCHANGED <<obj, acc, pc, job, dns, spent>>

\* Whatever becomes of the accelerators: the Global Accelerator controller.
AcceleratorChanges(a, r) ==
  /\ spent.changes < MaxChanges
  /\ <<acc[a], r>> \in AccEdits
  /\ acc' = [acc EXCEPT ![a] = r]
  /\ spent' = [spent EXCEPT !.changes = @ + 1]
  /\ UNCHANGED <<obj, watch, cache, queue, pc, job, dns>>

\* The workers and queues of a process that starts from a fresh list.
Restarted ==
  /\ queue' = [kind \in Kinds |->
                 [EmptyQueue EXCEPT !.pending =
                    {k \in Keys : KindOf[k] = kind /\ obj[k] # NoObj
                                    /\ Notifies(k, NoObj, obj[k])}]]
  /\ pc' = [w \in Workers |-> "idle"]
  /\ job' = [w \in Workers |-> NoJob]

Crash ==
  /\ spent.crashes < MaxCrashes
  /\ spent' = [spent EXCEPT !.crashes = @ + 1]
  /\ cache' = obj
  /\ watch' = [k \in Keys |-> <<>>]
  /\ Restarted
  /\ UNCHANGED <<obj, acc, dns>>

-----------------------------------------------------------------------------
(* Steps of a worker, as in GlobalAccelerator; what they write is dns *)

At(w, site) == pc[w] = site /\ UNCHANGED outside

Goto(w, site, j) ==
  /\ pc' = [pc EXCEPT ![w] = site]
  /\ job' = [job EXCEPT ![w] = j]
  /\ UNCHANGED queue

\* Mistake: the worker keeps what it knew of the last key.
FinishKeepingJob(w, res) ==
  /\ pc' = [pc EXCEPT ![w] = "idle"]
  /\ queue' = [queue EXCEPT ![QueueOf[w]] = Finished(@, job[w].key, res)]
  /\ UNCHANGED job

Finish(w, res) ==
  /\ pc' = [pc EXCEPT ![w] = "idle"]
  /\ job' = [job EXCEPT ![w] = NoJob]
  /\ queue' = [queue EXCEPT ![QueueOf[w]] = Finished(@, job[w].key, res)]

Answers(allowed, new) == allowed /\ dns' = new /\ UNCHANGED spent

Fails(w, allowed, new) ==
  \/ ~allowed /\ UNCHANGED <<dns, spent>>
  \/ /\ allowed
     /\ <<QueueOf[w], pc[w]>> \in FaultSites
     /\ spent.faults < MaxFaults
     /\ dns' \in {dns, new}
     /\ spent' = [spent EXCEPT !.faults = @ + 1]

Exists(a) == acc[a] # NoAcc

Host(j) == j.view.lbs[j.i]

\* tagsContainsAllValues with the tags of ListGlobalAcceleratorByHostname.
TagsMatch(r, l) == r.managed /\ r.host = l /\ r.cluster = ClusterName

\* FindOwneredARecordSets: the alias at a hostname whose TXT names the object.
OwnsAlias(k, h) == dns[h].txt = k /\ dns[h].a \in Targets

Take(w, k) ==
  /\ At(w, "idle")
  /\ KindOf[k] = QueueOf[w]
  /\ CanGet(queue[QueueOf[w]], k)
  /\ queue' = [queue EXCEPT ![QueueOf[w]] = Get(@, k)]
  /\ pc' = [pc EXCEPT ![w] = "read"]
  /\ job' = [job EXCEPT ![w] =
       [key |-> k, view |-> NoObj, i |-> 0, listed |-> {}, found |-> {},
        arn |-> None, names |-> <<>>, zones |-> {}, zone |-> None, todo |-> {}]]
  /\ UNCHANGED <<dns, spent>>

\* The loop over the status hostnames, from the i-th on.
EnsureFrom(w, j, i) ==
  LET rest == i .. Len(j.view.lbs)
      ours(n) == HostKind[j.view.lbs[n]] # "otherCloud"
  IN  \/ (\A n \in rest : ~ours(n)) /\ Finish(w, "ok")
      \/ \E n \in rest :
           /\ ours(n) /\ \A m \in i .. (n - 1) : ~ours(m)
           /\ IF HostKind[j.view.lbs[n]] = "elb"
              THEN Goto(w, "list", [j EXCEPT !.i = n, !.arn = None])
              ELSE Finish(w, "err")

\* keyToService / keyToIngress, and the head of the process functions: without
\* the annotation the records are deleted whatever else the object is.
Read(w) ==
  /\ At(w, "read")
  /\ LET v == cache[job[w].key]
         j == [job[w] EXCEPT !.view = v]
     IN  \/ v = NoObj /\ Goto(w, "listZones", j)
         \/ v # NoObj /\ v.dns = None /\ Goto(w, "listZones", j)
         \/ v # NoObj /\ v.dns # None /\ EnsureFrom(w, j, 1)
  /\ UNCHANGED <<dns, spent>>

-----------------------------------------------------------------------------
(* ensureRoute53 *)

\* Mistake: a missing accelerator is not waited for.
ListedOnce(w, j) ==
  IF Cardinality(j.found) # 1 THEN Finish(w, "ok")
  ELSE \E a \in j.found :
         Goto(w, "findZone", [j EXCEPT !.arn = a, !.names = j.view.dns])

\* The tags of all accelerators are read: exactly one must be the load
\* balancer's, otherwise the object waits a minute.
Listed(w, j) ==
  \/ /\ Cardinality(j.found) # 1
     /\ Finish(w, "after")
  \/ \E a \in Arns :
       /\ j.found = {a}
       /\ IF j.view.dns = <<>>
          THEN EnsureFrom(w, j, j.i + 1)
          ELSE Goto(w, "findZone", [j EXCEPT !.arn = a, !.names = j.view.dns])

ListAccelerators(w) ==
  /\ At(w, "list")
  /\ LET all == {a \in Arns : Exists(a)}
         j == [job[w] EXCEPT !.listed = all, !.found = {}]
     IN  \/ /\ Answers(TRUE, dns)
            /\ IF all = {} THEN Listed(w, j) ELSE Goto(w, "tags", j)
         \/ Fails(w, TRUE, dns) /\ Finish(w, "err")

ListTags(w) ==
  /\ At(w, "tags")
  /\ \E a \in job[w].listed :
       LET rest == job[w].listed \ {a}
           j == [job[w] EXCEPT !.listed = rest,
                   !.found = IF TagsMatch(acc[a], Host(job[w])) THEN @ \union {a} ELSE @]
       IN  \/ /\ Answers(Exists(a), dns)
              /\ IF rest = {} THEN Listed(w, j) ELSE Goto(w, "tags", j)
           \/ Fails(w, Exists(a), dns) /\ Finish(w, "err")

\* The hostname at hand is done.
NextName(w, j) ==
  IF Tail(j.names) = <<>>
  THEN EnsureFrom(w, j, j.i + 1)
  ELSE Goto(w, "findZone", [j EXCEPT !.names = Tail(@)])

\* GetHostedZone: up the labels of the hostname until a zone has that name.
FindZone(w) ==
  /\ At(w, "findZone")
  /\ LET j == job[w]
         found == ZoneOf[Head(j.names)] # None
     IN  \/ Answers(found, dns) /\ Goto(w, "listRecords", j)
         \/ Fails(w, found, dns) /\ Finish(w, "err")

\* FindOwneredARecordSets, findARecord and needRecordsUpdate.
ListRecords(w) ==
  /\ At(w, "listRecords")
  /\ LET j == job[w]
         h == Head(j.names)
     IN  \/ /\ Answers(TRUE, dns)
            /\ \/ ~OwnsAlias(j.key, h) /\ Goto(w, "createTxt", j)
               \/ OwnsAlias(j.key, h) /\ dns[h].a # j.arn /\ Goto(w, "upsertA", j)
               \/ OwnsAlias(j.key, h) /\ dns[h].a = j.arn /\ NextName(w, j)
         \/ Fails(w, TRUE, dns) /\ Finish(w, "err")

\* Mistake: the TXT record is written over the one that is there.
UpsertTxt(w) ==
  /\ At(w, "createTxt")
  /\ LET j == job[w]
         new == [dns EXCEPT ![Head(j.names)].txt = j.key]
     IN  \/ Answers(TRUE, new) /\ Goto(w, "createA", j)
         \/ Fails(w, TRUE, new) /\ Finish(w, "err")

\* createMetadataRecordSet.  CREATE is refused when there is a TXT record.
CreateTxt(w) ==
  /\ At(w, "createTxt")
  /\ LET j == job[w]
         h == Head(j.names)
         allowed == dns[h].txt = None
         new == [dns EXCEPT ![h].txt = j.key]
     IN  \/ Answers(allowed, new) /\ Goto(w, "createA", j)
         \/ Fails(w, allowed, new) /\ Finish(w, "err")

\* Mistake: an A record that could not be created is left for later.
CreateARegardless(w) ==
  /\ At(w, "createA")
  /\ LET j == job[w]
         h == Head(j.names)
         allowed == dns[h].a = None
         new == [dns EXCEPT ![h].a = j.arn]
     IN  \/ Answers(allowed, new) /\ NextName(w, j)
         \/ Fails(w, allowed, new) /\ NextName(w, j)

\* createRecordSet.
CreateA(w) ==
  /\ At(w, "createA")
  /\ LET j == job[w]
         h == Head(j.names)
         allowed == dns[h].a = None
         new == [dns EXCEPT ![h].a = j.arn]
     IN  \/ Answers(allowed, new) /\ NextName(w, j)
         \/ Fails(w, allowed, new) /\ Finish(w, "err")

\* updateRecordSet.
UpsertA(w) ==
  /\ At(w, "upsertA")
  /\ LET j == job[w]
         new == [dns EXCEPT ![Head(j.names)].a = j.arn]
     IN  \/ Answers(TRUE, new) /\ NextName(w, j)
         \/ Fails(w, TRUE, new) /\ Finish(w, "err")

-----------------------------------------------------------------------------
(* CleanupRecordSet *)

NextZone(w, j) ==
  \/ j.zones = {} /\ Finish(w, "ok")
  \/ \E z \in j.zones :
       Goto(w, "ownedA", [j EXCEPT !.zones = @ \ {z}, !.zone = z, !.todo = {}])

\* listAllHostedZone.
ListZones(w) ==
  /\ At(w, "listZones")
  /\ \/ Answers(TRUE, dns) /\ NextZone(w, [job[w] EXCEPT !.zones = Zones])
     \/ Fails(w, TRUE, dns) /\ Finish(w, "err")

InZone(z) == {h \in Hostnames : ZoneOf[h] = z}

\* FindOwneredARecordSets, for a whole zone.
FindOwnedA(w) ==
  /\ At(w, "ownedA")
  /\ LET j == job[w]
         found == {<<h, dns[h].a>> : h \in {g \in InZone(j.zone) : OwnsAlias(j.key, g)}}
     IN  \/ /\ Answers(TRUE, dns)
            /\ IF found = {}
               THEN Goto(w, "ownedTxt", j)
               ELSE Goto(w, "deleteA", [j EXCEPT !.todo = found])
         \/ Fails(w, TRUE, dns) /\ Finish(w, "err")

\* Mistake: an alias that could not be deleted is left for later.
DeleteARegardless(w) ==
  /\ At(w, "deleteA")
  /\ \E t \in job[w].todo :
       LET j == [job[w] EXCEPT !.todo = @ \ {t}]
           allowed == dns[t[1]].a = t[2]
           new == [dns EXCEPT ![t[1]].a = None]
       IN  /\ Answers(allowed, new) \/ Fails(w, allowed, new)
           /\ Goto(w, IF j.todo = {} THEN "ownedTxt" ELSE "deleteA", j)

\* DELETE names the record set as it was listed and is refused if it differs.
DeleteA(w) ==
  /\ At(w, "deleteA")
  /\ \E t \in job[w].todo :
       LET j == [job[w] EXCEPT !.todo = @ \ {t}]
           allowed == dns[t[1]].a = t[2]
           new == [dns EXCEPT ![t[1]].a = None]
       IN  \/ /\ Answers(allowed, new)
              /\ Goto(w, IF j.todo = {} THEN "ownedTxt" ELSE "deleteA", j)
           \/ Fails(w, allowed, new) /\ Finish(w, "err")

\* findOwneredMetadataRecordSets.  The records are only told apart by name.
FindOwnedTxt(w) ==
  /\ At(w, "ownedTxt")
  /\ LET j == job[w]
         found == {<<h, Foreign>> : h \in {g \in InZone(j.zone) : dns[g].txt = j.key}}
     IN  \/ /\ Answers(TRUE, dns)
            /\ IF found = {}
               THEN NextZone(w, j)
               ELSE Goto(w, "deleteTxt", [j EXCEPT !.todo = found])
         \/ Fails(w, TRUE, dns) /\ Finish(w, "err")

DeleteTxt(w) ==
  /\ At(w, "deleteTxt")
  /\ \E t \in job[w].todo :
       LET j == [job[w] EXCEPT !.todo = @ \ {t}]
           allowed == dns[t[1]].txt = j.key
           new == [dns EXCEPT ![t[1]].txt = None]
       IN  \/ /\ Answers(allowed, new)
              /\ IF j.todo = {} THEN NextZone(w, j) ELSE Goto(w, "deleteTxt", j)
           \/ Fails(w, allowed, new) /\ Finish(w, "err")

-----------------------------------------------------------------------------
(* The specification *)

Init ==
  /\ obj = [k \in Keys |-> NoObj]
  /\ watch = [k \in Keys |-> <<>>]
  /\ cache = [k \in Keys |-> NoObj]
  /\ acc = [a \in Arns |-> NoAcc]
  /\ queue = [kind \in Kinds |-> EmptyQueue]
  /\ pc = [w \in Workers |-> "idle"]
  /\ job = [w \in Workers |-> NoJob]
  /\ dns = FirstDns
  /\ spent = [changes |-> 0, faults |-> 0, crashes |-> 0]

Ensures(w) ==
  \/ ListAccelerators(w) \/ ListTags(w) \/ FindZone(w) \/ ListRecords(w)
  \/ CreateTxt(w) \/ CreateA(w) \/ UpsertA(w)

CleansUp(w) ==
  ListZones(w) \/ FindOwnedA(w) \/ DeleteA(w) \/ FindOwnedTxt(w) \/ DeleteTxt(w)

Work(w) == Read(w) \/ Ensures(w) \/ CleansUp(w)

Next ==
  \/ \E k \in Keys, v \in Versions \union {NoObj} : Change(k, v)
  \/ \E k \in Keys : Deliver(k)
  \/ \E a \in Arns, r \in Accelerators \union {NoAcc} : AcceleratorChanges(a, r)
  \/ \E w \in Workers, k \in Keys : Take(w, k)
  \/ \E w \in Workers : Work(w)
  \/ Crash

\* As in GlobalAccelerator.
Fairness ==
  /\ \A w \in Workers : WF_vars(Work(w))
  /\ \A k \in Keys : SF_vars(\E w \in Workers : Take(w, k))
  /\ \A k \in Keys : WF_vars(Deliver(k))

Spec == Init /\ [][Next]_vars

FairSpec == Spec /\ Fairness

-----------------------------------------------------------------------------
(* Properties *)

\* The types of the variables but the accelerators, which are somebody else's,
\* and what a worker that is idle or not knows.
OwnTypeOK ==
  /\ obj \in [Keys -> Versions \union {NoObj}]
  /\ watch \in [Keys -> Seq(Versions \union {NoObj})]
  /\ cache \in [Keys -> Versions \union {NoObj}]
  /\ queue \in [Kinds -> QueueOver(Keys)]
  /\ pc \in [Workers -> Sites \union {"idle"}]
  /\ job \in [Workers -> Jobs \union {NoJob}]
  /\ dns \in [Hostnames -> RecordSets]
  /\ spent \in [changes : Nat, faults : Nat, crashes : Nat]
  /\ \A w \in Workers : (pc[w] = "idle") <=> (job[w] = NoJob)

\* The types of all variables.
TypeOK == OwnTypeOK /\ acc \in [Arns -> Accelerators \union {NoAcc}]

\* No two workers have the same object, and the queue knows who has what.
OneWorkerPerKey ==
  /\ \A w \in Workers : pc[w] # "idle" =>
       /\ KindOf[job[w].key] = QueueOf[w]
       /\ job[w].key \in queue[QueueOf[w]].processing
  /\ \A v, w \in Workers :
       pc[v] # "idle" /\ pc[w] # "idle" /\ job[v].key = job[w].key => v = w

\* The hostnames whose TXT names object k, with what is at them.
RecordsOf(k) == {<<h, dns[h].a>> : h \in {g \in Hostnames : dns[g].txt = k}}

\* What a worker with job j knows at each call.
OnTask(site, j) ==
  /\ site \in EnsureSites =>
       j.view \in Versions /\ j.view.dns # None /\ j.i \in DOMAIN j.view.lbs
  /\ site \in {"findZone", "listRecords", "createTxt", "createA", "upsertA"} =>
       j.arn \in Arns /\ j.names # <<>>

\* What a worker found out, when "mine" are the records of its object: the name
\* it is at is the object's, the aliases still to be deleted are all there are
\* in the zone, and when the TXT records go no alias is left there.
FindingsHold(site, j, mine) ==
  LET aliases == mine \intersect (InZone(j.zone) \X Targets)
  IN  /\ site = "createA" => \E a \in Targets \union {Plain, None} : <<Head(j.names), a>> \in mine
      /\ site = "upsertA" => \E a \in Targets : <<Head(j.names), a>> \in mine
      /\ site = "deleteA" => aliases \subseteq j.todo /\ j.todo \subseteq mine
      /\ site \in {"ownedTxt", "deleteTxt"} => aliases = {}
      /\ site = "deleteTxt" => \A t \in j.todo : t[1] \in InZone(j.zone)

\* No two workers have the same object, and what one found out by listing the
\* records of its object still holds when it acts on it, although workers of
\* other objects write to the same zones and names meanwhile.
NoStaleFinding ==
  /\ OneWorkerPerKey
  /\ \A w \in Workers : pc[w] # "idle" =>
       /\ OnTask(pc[w], job[w])
       /\ FindingsHold(pc[w], job[w], RecordsOf(job[w].key))

\* An alias of an accelerator always has an object's TXT beside it: wherever the
\* controller fails or is stopped, the retry or the cleanup finds what it wrote.
NoOrphanRecord ==
  \A h \in Hostnames : dns[h].a \in Arns => dns[h].txt \in Keys

\* The record sets of a hostname whose TXT names an object change only while a
\* worker has that object, and those whose TXT is somebody else's, or that are
\* a plain address, never: two objects that want one hostname do not take it
\* from each other.
OnlyOwnerWritesRecords ==
  [][\A h \in Hostnames :
       /\ dns'[h] # dns[h] /\ dns[h].txt # None =>
            \E w \in Workers : pc[w] # "idle" /\ job[w].key = dns[h].txt
       /\ dns[h].a = Plain => dns'[h].a = Plain]_vars

\* Nothing queued, in a worker's hands or on its way to the informer.
Quiet ==
  /\ \A kind \in Kinds : Drained(queue[kind])
  /\ \A k \in Keys : watch[k] = <<>>

HasBalancer(v) == \E n \in DOMAIN v.lbs : HostKind[v.lbs[n]] = "elb"

\* Once the controller is at rest every hostname an object asks for has its TXT
\* and its alias: a hostname half written, taken by another object or without a
\* zone keeps a retry pending, whatever failed on the way.
QuiescentRecords ==
  Quiet => \A k \in Keys :
    LET v == obj[k]
    IN  v # NoObj /\ v.eligible /\ v.dns # None /\ HasBalancer(v) =>
          \A n \in DOMAIN v.dns :
            dns[v.dns[n]].txt = k /\ dns[v.dns[n]].a \in Arns

\* A TXT record that an interrupted pass left behind does not keep the object's
\* alias from being created for ever ("Create Route53 records associated with
\* the Global Accelerator", README.md:12).
WantedRecordsAppear ==
  <>[](\A k \in Keys :
         LET v == obj[k]
         IN  v # NoObj /\ v.eligible /\ v.dns # None /\ HasBalancer(v)
               /\ (\A n \in DOMAIN v.lbs :
                     Cardinality({a \in Arns : Exists(a) /\ TagsMatch(acc[a], v.lbs[n])}) = 1)
             => \A n \in DOMAIN v.dns : OwnsAlias(k, v.dns[n]))

\* Once the controller is at rest an object that is gone, or no longer has the
\* annotation, owns no record (local_e2e/e2e_test.go:342-366).
QuiescentNoRecords ==
  Quiet /\ spent.crashes = 0 => \A k \in Keys :
    obj[k] = NoObj \/ obj[k].dns = None =>
      \A h \in Hostnames : dns[h].txt # k
=============================================================================
