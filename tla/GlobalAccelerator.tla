------------------------- MODULE GlobalAccelerator -------------------------
(***************************************************************************)
(* The Global Accelerator controller: pkg/controller/globalaccelerator     *)
(* (the informer handlers, the service and ingress workers) together with  *)
(* the workflow of pkg/cloudprovider/aws/global_accelerator.go that a      *)
(* worker drives, one AWS call per step, against the API server, the AWS   *)
(* Global Accelerator service and a process that may crash at any point.   *)
(*                                                                         *)
(* A key is a Service or an Ingress.  Its object goes through "versions":  *)
(*   eligible   wasLoadBalancerService / wasALBIngress                     *)
(*   managed    the global-accelerator-managed annotation is present       *)
(*   lbs        status.loadBalancer.ingress, a sequence of hostnames       *)
(*   name       acceleratorName                                            *)
(*   ports, protocol   what listenerForService / listenerForIngress return *)
(* A hostname stands for its load balancer too: one names the other.       *)
(*                                                                         *)
(* The informer updates its cache and then calls the handler; the two are  *)
(* one step here (a worker that reads the newer cache before the handler   *)
(* has run is queued once more than in this model).                        *)
(***************************************************************************)
EXTENDS Integers, Sequences, FiniteSets, Reconcile

CONSTANTS
  Keys,        \* the objects, by kind/namespace/name
  KindOf,      \* the kind of each key: "service" or "ingress"
  Workers,     \* the worker goroutines
  QueueOf,     \* the kind whose queue a worker serves
  LBs,         \* the hostnames a load balancer status can show
  HostKind,    \* what the hostname parsers make of a hostname
  Names,       \* accelerator names
  Ports,       \* port numbers
  Versions,    \* the versions of an object
  Edits,       \* the edits users and other controllers make: <<old, new>>
  Arns,        \* accelerator ARNs; AWS never reuses one while it is taken
  Clusters, ClusterName,  \* values of the cluster tag, and this cluster's
  FirstAccs,   \* the accelerators at the start
  FaultSites,  \* <<kind, call>>: the calls that may fail
  MaxFaults, MaxChanges, MaxCrashes,   \* bounds of a run
  NoObj, NoAcc, NoJob, None

Kinds == {"service", "ingress"}

Listeners == [ports : Seq(Ports), protocol : {"tcp", "udp"}]

\* What this controller reads of a version; there may be more.
IsVersion(v) ==
  /\ v.eligible \in BOOLEAN /\ v.managed \in BOOLEAN /\ v.lbs \in Seq(LBs)
  /\ v.name \in Names /\ v.ports \in Seq(Ports) /\ v.protocol \in {"tcp", "udp"}

\* An accelerator, its listener if it has one, and the load balancers in the
\* listener's endpoint group, {} when there is no group.
Accelerators == [managed : BOOLEAN, owner : Keys, cluster : Clusters, host : LBs,
                 name : Names, enabled : BOOLEAN,
                 listener : Listeners \union {None},
                 group : SUBSET LBs]

\* The calls of a worker, in the order of the workflow.
\* Those about one accelerator to create or update, and to clean up.
UpdateSites == {"createListener", "createEndpointGroup", "changed", "update",
                "tagResource", "getListener", "newListener", "updateListener",
                "getEndpointGroup", "newEndpointGroup", "updateEndpointGroup"}
CleanupSites == {"describe", "relatedListener", "relatedEndpointGroup",
                 "deleteEndpointGroup", "deleteListener", "disable", "poll",
                 "delete"}
Sites == {"read", "loadBalancer", "list", "tags", "create"}
           \union UpdateSites \union CleanupSites

\* What a worker is on: the key, the copy of its object, the hostname the loop
\* is at, the ARNs whose tags are still to be read, those found to be the
\* object's own and not yet handled, the one being handled, and the purpose:
\* Ensure..., the cleanup loop, or the cleanup after a failed creation.
Jobs == [key : Keys, view : Versions \union {NoObj}, i : Nat,
         listed : SUBSET Arns, todo : SUBSET Arns,
         arn : Arns \union {None}, mode : {"ensure", "cleanup", "abort"}]

ASSUME KindAssumption == KindOf \in [Keys -> Kinds] /\ QueueOf \in [Workers -> Kinds]
ASSUME HostAssumption == HostKind \in [LBs -> {"elb", "otherAws", "otherCloud"}]
ASSUME VersionAssumption == \A v \in Versions : IsVersion(v)
ASSUME EditAssumption ==
  Edits \subseteq (Versions \union {NoObj}) \X (Versions \union {NoObj})
ASSUME ClusterAssumption == ClusterName \in Clusters
ASSUME FirstAccsAssumption ==   \* nothing of this cluster's at the start
  /\ FirstAccs \in [Arns -> Accelerators \union {NoAcc}]
  /\ \A a \in Arns : FirstAccs[a] # NoAcc =>
       ~FirstAccs[a].managed \/ FirstAccs[a].cluster # ClusterName
ASSUME NullAssumption ==
  /\ NoObj \notin Versions
  /\ NoAcc \notin Accelerators
  /\ NoJob \notin Jobs
  /\ None \notin Listeners \union Arns
ASSUME BoundAssumption ==
  MaxFaults \in Nat /\ MaxChanges \in Nat /\ MaxCrashes \in Nat

VARIABLES
  obj,      \* the objects in the API server
  watch,    \* the versions the informer has not been told of yet
  cache,    \* the informer's cache (what the lister returns)
  queue,    \* the work queues, one per kind
  pc,       \* the call each worker is about to make
  job,      \* and what it knows
  acc,      \* the accelerators in AWS, with their listener and endpoint group
  syncing,  \* the accelerators whose status is IN_PROGRESS
  active,   \* the load balancers in state active
  spent     \* how much of the bounds is used up

cluster == <<obj, watch, cache>>
aws == <<acc, syncing, active>>
vars == <<obj, watch, cache, queue, pc, job, acc, syncing, active, spent>>

-----------------------------------------------------------------------------
(* Tags and listeners *)

Exists(a) == acc[a] # NoAcc

\* Mistake: the cluster tag is not compared.
TagsMatchAnyCluster(r, k) == r.managed /\ r.owner = k

\* tagsContainsAllValues with the tags of ListGlobalAcceleratorByResource.
TagsMatch(r, k) == r.managed /\ r.owner = k /\ r.cluster = ClusterName

Owned(k) == {a \in Arns : Exists(a) /\ TagsMatch(acc[a], k)}

Wanted(v) == [ports |-> v.ports, protocol |-> v.protocol]

\* listenerPortChangedFrom...: a port that the listener and the object
\* together mention at most once.
PortChanged(have, want) ==
  LET both == have \o want
  IN  \E n \in DOMAIN both : \A m \in DOMAIN both : both[m] = both[n] => m = n

ListenerChanged(l, v) ==
  l.protocol # v.protocol \/ PortChanged(l.ports, v.ports)

\* What createAccelerator and its two followers write.
NewAccelerator(k, v, host) ==
  [managed |-> TRUE, owner |-> k, cluster |-> ClusterName, host |-> host,
   name |-> v.name, enabled |-> TRUE, listener |-> None, group |-> {}]

-----------------------------------------------------------------------------
(* Informer and environment *)

\* Mistake: updateServiceNotification without managedAnnotationChanged.
NotifiesManagedOnly(k, old, new) ==
  IF new = NoObj
  THEN old # NoObj /\ (KindOf[k] = "service" => old.eligible)
  ELSE old # new /\ new.eligible /\ new.managed

\* Whether the handlers enqueue a key when its cached object goes from old to
\* new; NoObj on one side is an Add or a Delete.
Notifies(k, old, new) ==
  IF new = NoObj
  THEN old # NoObj /\ (KindOf[k] = "service" => old.eligible)
  ELSE IF old = NoObj
  THEN new.eligible /\ new.managed
  ELSE old # new /\ new.eligible /\ (new.managed \/ old.managed # new.managed)

Change(k, v) ==
  /\ spent.changes < MaxChanges
  /\ <<obj[k], v>> \in Edits
  /\ obj' = [obj EXCEPT ![k] = v]
  /\ watch' = [watch EXCEPT ![k] = Append(@, v)]
  /\ spent' = [spent EXCEPT !.changes = @ + 1]
  /\ UNCHANGED <<cache, queue, pc, job, aws>>

\* The next watch event, or a relist that skips to the newest version (a
\* deletion then reaches the handler as a DeletedFinalStateUnknown).
Deliver(k) ==
  /\ watch[k] # <<>>
  /\ \E n \in {1, Len(watch[k])} :
       LET new == watch[k][n]
       IN  /\ cache' = [cache EXCEPT ![k] = new]
           /\ watch' = [watch EXCEPT ![k] = SubSeq(@, n + 1, Len(@))]
           /\ queue' = IF Notifies(k, cache[k], new)
                       THEN [queue EXCEPT ![KindOf[k]] = Add(@, k)]
                       ELSE queue
  /\ UNCHANGED <<obj, pc, job, aws, spent>>

Balancers == {l \in LBs : HostKind[l] = "elb"}

LBActivate(l) ==
  /\ l \in Balancers \ active
  /\ active' = active \union {l}
  /\ UNCHANGED <<cluster, queue, pc, job, acc, syncing, spent>>

AwsDeploys(a) ==
  /\ a \in syncing
  /\ syncing' = syncing \ {a}
  /\ UNCHANGED <<cluster, queue, pc, job, acc, active, spent>>

\* The process ends (a crash, a lost lease, any shutdown: no worker is waited
\* for) and the next leader starts from a fresh list of the objects.
Crash ==
  /\ spent.crashes < MaxCrashes
  /\ spent' = [spent EXCEPT !.crashes = @ + 1]
  /\ cache' = obj
  /\ watch' = [k \in Keys |-> <<>>]
  /\ queue' = [kind \in Kinds |->
                 [EmptyQueue EXCEPT !.pending =
                    {k \in Keys : KindOf[k] = kind /\ obj[k] # NoObj
                                    /\ Notifies(k, NoObj, obj[k])}]]
  /\ pc' = [w \in Workers |-> "idle"]
  /\ job' = [w \in Workers |-> NoJob]
  /\ UNCHANGED <<obj, aws>>

-----------------------------------------------------------------------------
(* Steps of a worker.  A call answers, or fails at one of the FaultSites: it  *)
(* may then have taken effect all the same (the answer was lost).  A call     *)
(* AWS refuses ("allowed" is false) has no effect and costs no fault.         *)

Goto(w, site, j) ==
  /\ pc' = [pc EXCEPT ![w] = site]
  /\ job' = [job EXCEPT ![w] = j]
  /\ UNCHANGED queue

\* Mistake: the worker keeps what it knew of the last key.
FinishKeepingJob(w, res) ==
  /\ pc' = [pc EXCEPT ![w] = "idle"]
  /\ queue' = [queue EXCEPT ![QueueOf[w]] = Finished(@, job[w].key, res)]
  /\ UNCHANGED job

\* The process function returns.
Finish(w, res) ==
  /\ pc' = [pc EXCEPT ![w] = "idle"]
  /\ job' = [job EXCEPT ![w] = NoJob]
  /\ queue' = [queue EXCEPT ![QueueOf[w]] = Finished(@, job[w].key, res)]

Answers(allowed, new) == allowed /\ acc' = new /\ UNCHANGED spent

Fails(w, allowed, new) ==
  \/ ~allowed /\ UNCHANGED <<acc, spent>>
  \/ /\ allowed
     /\ <<QueueOf[w], pc[w]>> \in FaultSites
     /\ spent.faults < MaxFaults
     /\ acc' \in {acc, new}
     /\ spent' = [spent EXCEPT !.faults = @ + 1]

\* Worker w makes this call, which leaves the API server, the informer and the
\* load balancers alone.
At(w, site) ==
  /\ pc[w] = site
  /\ UNCHANGED <<cluster, active>>

\* The loop over the status hostnames, from the i-th on: those that are not of
\* AWS are skipped, one that is not of a load balancer ends it with an error.
EnsureFrom(w, j, i) ==
  LET aws_(n) == HostKind[j.view.lbs[n]] # "otherCloud"
      rest == i .. Len(j.view.lbs)
  IN  \/ (\A n \in rest : ~aws_(n)) /\ Finish(w, "ok")
      \/ \E n \in rest :
           /\ aws_(n)
           /\ \A m \in i .. (n - 1) : ~aws_(m)
           /\ IF HostKind[j.view.lbs[n]] = "elb"
              THEN Goto(w, "loadBalancer", [j EXCEPT !.i = n, !.arn = None])
              ELSE Finish(w, "err")

Host(j) == j.view.lbs[j.i]

\* The next accelerator to update or to clean up.
NextAccelerator(w, j) ==
  \E a \in j.todo :
    Goto(w, IF j.mode = "ensure" THEN "changed" ELSE "describe",
         [j EXCEPT !.arn = a, !.todo = @ \ {a}])

\* The list is complete.
Listed(w, j) ==
  \/ j.todo # {} /\ NextAccelerator(w, j)
  \/ j.todo = {} /\ j.mode = "ensure" /\ Goto(w, "create", j)
  \/ j.todo = {} /\ j.mode = "cleanup" /\ Finish(w, "ok")

\* updateGlobalAccelerator... returned nil.
Updated(w, j) ==
  \/ j.todo # {} /\ NextAccelerator(w, j)
  \/ j.todo = {} /\ EnsureFrom(w, j, j.i + 1)

\* Mistake: the error of CleanupGlobalAccelerator is logged and dropped.
CleanedRegardless(w, j, ok) ==
  IF j.mode = "cleanup" /\ j.todo # {} THEN NextAccelerator(w, j)
  ELSE Finish(w, "ok")

\* CleanupGlobalAccelerator returned; its result is ignored after a failed
\* creation, whose error is the one returned.
Cleaned(w, j, ok) ==
  \/ ok /\ j.mode = "cleanup" /\ j.todo # {} /\ NextAccelerator(w, j)
  \/ ok /\ j.mode = "cleanup" /\ j.todo = {} /\ Finish(w, "ok")
  \/ ~(ok /\ j.mode = "cleanup") /\ Finish(w, "err")

-----------------------------------------------------------------------------
(* ProcessNextWorkItem: the key, then its object *)

Take(w, k) ==
  /\ At(w, "idle")
  /\ KindOf[k] = QueueOf[w]
  /\ CanGet(queue[QueueOf[w]], k)
  /\ queue' = [queue EXCEPT ![QueueOf[w]] = Get(@, k)]
  /\ pc' = [pc EXCEPT ![w] = "read"]
  /\ job' = [job EXCEPT ![w] =
       [key |-> k, view |-> NoObj, i |-> 0, listed |-> {}, todo |-> {},
        arn |-> None, mode |-> "ensure"]]
  /\ UNCHANGED <<acc, syncing, spent>>

\* keyToService / keyToIngress, and the head of the two process functions.
ReadObject(w) ==
  /\ At(w, "read")
  /\ LET v == cache[job[w].key]
         j == [job[w] EXCEPT !.view = v]
     IN  \/ v = NoObj /\ Goto(w, "list", [j EXCEPT !.mode = "cleanup"])
         \/ v # NoObj /\ v.lbs = <<>> /\ Finish(w, "ok")
         \/ /\ v # NoObj /\ v.lbs # <<>> /\ ~v.managed
            /\ Goto(w, "list", [j EXCEPT !.mode = "cleanup"])
         \/ /\ v # NoObj /\ v.lbs # <<>> /\ v.managed
            /\ EnsureFrom(w, j, 1)
  /\ UNCHANGED <<acc, syncing, spent>>

-----------------------------------------------------------------------------
(* EnsureGlobalAcceleratorForService / ForIngress *)

DescribeLoadBalancer(w) ==
  /\ At(w, "loadBalancer")
  /\ LET j == job[w]
     IN  \/ /\ Answers(TRUE, acc)
            /\ IF Host(j) \in active THEN Goto(w, "list", j) ELSE Finish(w, "after")
         \/ Fails(w, TRUE, acc) /\ Finish(w, "err")
  /\ UNCHANGED syncing

\* Mistake: only the first page of the list is read.
ListFirstPage(w) ==
  /\ At(w, "list")
  /\ \E a \in Arns :
       LET j == [job[w] EXCEPT !.listed = {a}, !.todo = {}]
       IN  Exists(a) /\ Answers(TRUE, acc) /\ Goto(w, "tags", j)
  /\ UNCHANGED syncing

ListAccelerators(w) ==
  /\ At(w, "list")
  /\ LET all == {a \in Arns : Exists(a)}
         j == [job[w] EXCEPT !.listed = all, !.todo = {}]
     IN  \/ /\ Answers(TRUE, acc)
            /\ IF all = {} THEN Listed(w, j) ELSE Goto(w, "tags", j)
         \/ Fails(w, TRUE, acc) /\ Finish(w, "err")
  /\ UNCHANGED syncing

\* ListTagsForResource, for one accelerator of the list.
ListTags(w) ==
  /\ At(w, "tags")
  /\ \E a \in job[w].listed :
       LET rest == job[w].listed \ {a}
           j == [job[w] EXCEPT !.listed = rest,
                   !.todo = IF TagsMatch(acc[a], job[w].key) THEN @ \union {a} ELSE @]
       IN  \/ /\ Answers(Exists(a), acc)
              /\ IF rest = {} THEN Listed(w, j) ELSE Goto(w, "tags", j)
           \/ Fails(w, Exists(a), acc) /\ Finish(w, "err")
  /\ UNCHANGED syncing

\* No ARN left stands for the account's quota of accelerators.
CreateAccelerator(w) ==
  /\ At(w, "create")
  /\ LET j == job[w]
         free == {a \in Arns : ~Exists(a)}
     IN  \/ free = {} /\ Fails(w, FALSE, acc) /\ Finish(w, "err")
         \/ \E a \in free :
              LET new == [acc EXCEPT ![a] = NewAccelerator(j.key, j.view, Host(j))]
              IN  \/ /\ Answers(TRUE, new)
                     /\ Goto(w, "createListener", [j EXCEPT !.arn = a])
                  \/ Fails(w, TRUE, new) /\ Finish(w, "err")
  /\ UNCHANGED syncing

\* A failure after the accelerator is there: the caller is handed its ARN and
\* cleans it up.
AbortCreate(w, j) == Goto(w, "describe", [j EXCEPT !.mode = "abort"])

\* Mistake: the error of the listener is dropped for services too.
CreateListenerRegardless(w) ==
  /\ At(w, "createListener")
  /\ LET j == job[w]
         new == [acc EXCEPT ![j.arn].listener = Wanted(j.view)]
     IN  \/ Answers(Exists(j.arn), new) /\ Goto(w, "createEndpointGroup", j)
         \/ Fails(w, Exists(j.arn), new) /\ EnsureFrom(w, j, j.i + 1)
  /\ UNCHANGED syncing

\* createGlobalAcceleratorForIngress returns nil for the error of its listener.
CreateListener(w) ==
  /\ At(w, "createListener")
  /\ LET j == job[w]
         allowed == Exists(j.arn)
         new == [acc EXCEPT ![j.arn].listener = Wanted(j.view)]
     IN  \/ Answers(allowed, new) /\ Goto(w, "createEndpointGroup", j)
         \/ /\ Fails(w, allowed, new)
            /\ IF QueueOf[w] = "service"
               THEN AbortCreate(w, j)
               ELSE EnsureFrom(w, j, j.i + 1)
  /\ UNCHANGED syncing

CreateEndpointGroup(w) ==
  /\ At(w, "createEndpointGroup")
  /\ LET j == job[w]
         allowed == Exists(j.arn) /\ acc[j.arn].listener # None
         new == [acc EXCEPT ![j.arn].group = {Host(j)}]
     IN  \/ Answers(allowed, new) /\ EnsureFrom(w, j, j.i + 1)
         \/ Fails(w, allowed, new) /\ AbortCreate(w, j)
  /\ UNCHANGED syncing

-----------------------------------------------------------------------------
(* updateGlobalAcceleratorForService / ForIngress *)

\* acceleratorChanged.  Enabled and Name are those of the list; only the worker
\* that has the key writes them, so they are read here.  When the tags cannot
\* be read the accelerator counts as unchanged.
AcceleratorChanged(w) ==
  /\ At(w, "changed")
  /\ LET j == job[w]
         r == acc[j.arn]
         differs == ~r.enabled \/ r.name # j.view.name
         tagsDiffer == ~(r.managed /\ r.owner = j.key /\ r.host = Host(j))
     IN  \/ Exists(j.arn) /\ differs /\ Answers(TRUE, acc) /\ Goto(w, "update", j)
         \/ /\ Exists(j.arn) => ~differs
            /\ \/ /\ Answers(Exists(j.arn), acc)
                  /\ Goto(w, IF tagsDiffer THEN "update" ELSE "getListener", j)
               \/ Fails(w, Exists(j.arn), acc) /\ Goto(w, "getListener", j)
  /\ UNCHANGED syncing

\* updateAccelerator: UpdateAccelerator, then TagResource, which leaves the
\* cluster tag as it is.
UpdateAccelerator(w) ==
  /\ At(w, "update")
  /\ LET j == job[w]
         new == [acc EXCEPT ![j.arn].enabled = TRUE, ![j.arn].name = j.view.name]
     IN  \/ Answers(Exists(j.arn), new) /\ Goto(w, "tagResource", j)
         \/ Fails(w, Exists(j.arn), new) /\ Finish(w, "err")
  /\ UNCHANGED syncing

TagResource(w) ==
  /\ At(w, "tagResource")
  /\ LET j == job[w]
         new == [acc EXCEPT ![j.arn].managed = TRUE, ![j.arn].owner = j.key,
                            ![j.arn].host = Host(j)]
     IN  \/ Answers(Exists(j.arn), new) /\ Goto(w, "getListener", j)
         \/ Fails(w, Exists(j.arn), new) /\ Finish(w, "err")
  /\ UNCHANGED syncing

GetListener(w) ==
  /\ At(w, "getListener")
  /\ LET j == job[w]
         l == acc[j.arn].listener
     IN  \/ /\ Answers(Exists(j.arn), acc)
            /\ Goto(w, IF l = None THEN "newListener"
                       ELSE IF ListenerChanged(l, j.view) THEN "updateListener"
                       ELSE "getEndpointGroup", j)
         \/ Fails(w, Exists(j.arn), acc) /\ Finish(w, "err")
  /\ UNCHANGED syncing

\* createListener or updateListener: both leave a listener as the object wants.
PutListener(w) ==
  /\ At(w, "newListener") \/ At(w, "updateListener")
  /\ LET j == job[w]
         allowed == Exists(j.arn)
                      /\ (pc[w] = "updateListener" => acc[j.arn].listener # None)
         new == [acc EXCEPT ![j.arn].listener = Wanted(j.view)]
     IN  \/ Answers(allowed, new) /\ Goto(w, "getEndpointGroup", j)
         \/ Fails(w, allowed, new) /\ Finish(w, "err")
  /\ UNCHANGED syncing

GetEndpointGroup(w) ==
  /\ At(w, "getEndpointGroup")
  /\ LET j == job[w]
         allowed == Exists(j.arn) /\ acc[j.arn].listener # None
         g == acc[j.arn].group
     IN  \/ /\ Answers(allowed, acc)
            /\ \/ g = {} /\ Goto(w, "newEndpointGroup", j)
               \/ g # {} /\ Host(j) \notin g /\ Goto(w, "updateEndpointGroup", j)
               \/ g # {} /\ Host(j) \in g /\ Updated(w, j)
         \/ Fails(w, allowed, acc) /\ Finish(w, "err")
  /\ UNCHANGED syncing

\* createEndpointGroup or updateEndpointGroup: the list of endpoints is written
\* whole, with the one load balancer.
PutEndpointGroup(w) ==
  /\ At(w, "newEndpointGroup") \/ At(w, "updateEndpointGroup")
  /\ LET j == job[w]
         allowed == Exists(j.arn) /\ acc[j.arn].listener # None
                      /\ (pc[w] = "updateEndpointGroup" => acc[j.arn].group # {})
         new == [acc EXCEPT ![j.arn].group = {Host(j)}]
     IN  \/ Answers(allowed, new) /\ Updated(w, j)
         \/ Fails(w, allowed, new) /\ Finish(w, "err")
  /\ UNCHANGED syncing

-----------------------------------------------------------------------------
(* CleanupGlobalAccelerator *)

\* listRelatedGlobalAccelerator: three calls whose errors all read as "not
\* there".  Without an accelerator the cleanup has nothing to do.
DescribeAccelerator(w) ==
  /\ At(w, "describe")
  /\ LET j == job[w]
     IN  \/ Answers(Exists(j.arn), acc) /\ Goto(w, "relatedListener", j)
         \/ Fails(w, Exists(j.arn), acc) /\ Cleaned(w, j, TRUE)
  /\ UNCHANGED syncing

RelatedListener(w) ==
  /\ At(w, "relatedListener")
  /\ LET j == job[w]
         found == Exists(j.arn) /\ acc[j.arn].listener # None
     IN  \/ Answers(found, acc) /\ Goto(w, "relatedEndpointGroup", j)
         \/ Fails(w, found, acc) /\ Goto(w, "disable", j)
  /\ UNCHANGED syncing

\* Mistake: the listener is deleted without looking for its endpoint group.
RelatedListenerOnly(w) ==
  /\ At(w, "relatedEndpointGroup")
  /\ Answers(TRUE, acc)
  /\ Goto(w, "deleteListener", job[w])
  /\ UNCHANGED syncing

RelatedEndpointGroup(w) ==
  /\ At(w, "relatedEndpointGroup")
  /\ LET j == job[w]
         found == Exists(j.arn) /\ acc[j.arn].group # {}
     IN  \/ Answers(found, acc) /\ Goto(w, "deleteEndpointGroup", j)
         \/ Fails(w, found, acc) /\ Goto(w, "deleteListener", j)
  /\ UNCHANGED syncing

DeleteEndpointGroup(w) ==
  /\ At(w, "deleteEndpointGroup")
  /\ LET j == job[w]
         allowed == Exists(j.arn) /\ acc[j.arn].group # {}
         new == [acc EXCEPT ![j.arn].group = {}]
     IN  \/ Answers(allowed, new) /\ Goto(w, "deleteListener", j)
         \/ Fails(w, allowed, new) /\ Cleaned(w, j, FALSE)
  /\ UNCHANGED syncing

\* AWS refuses to delete a listener that has an endpoint group.
DeleteListener(w) ==
  /\ At(w, "deleteListener")
  /\ LET j == job[w]
         allowed == /\ Exists(j.arn)
                    /\ acc[j.arn].listener # None /\ acc[j.arn].group = {}
         new == [acc EXCEPT ![j.arn].listener = None]
     IN  \/ Answers(allowed, new) /\ Goto(w, "disable", j)
         \/ Fails(w, allowed, new) /\ Cleaned(w, j, FALSE)
  /\ UNCHANGED syncing

\* deleteAccelerator: disable, poll until DEPLOYED, delete.  The status matters
\* to nothing else, so only disabling sets it to IN_PROGRESS.
DisableAccelerator(w) ==
  /\ At(w, "disable")
  /\ LET j == job[w]
         new == [acc EXCEPT ![j.arn].enabled = FALSE]
     IN  \/ Answers(Exists(j.arn), new) /\ Goto(w, "poll", j)
         \/ Fails(w, Exists(j.arn), new) /\ Cleaned(w, j, FALSE)
  /\ syncing' = IF acc' = acc THEN syncing ELSE syncing \union {job[w].arn}

\* Not deployed: wait.Poll asks again, unless its three minutes are over (a
\* failure like any other).
PollAccelerator(w) ==
  /\ At(w, "poll")
  /\ LET j == job[w]
     IN  \/ j.arn \notin syncing /\ Answers(Exists(j.arn), acc) /\ Goto(w, "delete", j)
         \/ Fails(w, Exists(j.arn), acc) /\ Cleaned(w, j, FALSE)
  /\ UNCHANGED syncing

\* AWS refuses to delete an accelerator that is enabled, in progress or has a
\* listener.
DeleteAccelerator(w) ==
  /\ At(w, "delete")
  /\ LET j == job[w]
         allowed == /\ Exists(j.arn) /\ j.arn \notin syncing
                    /\ ~acc[j.arn].enabled /\ acc[j.arn].listener = None
         new == [acc EXCEPT ![j.arn] = NoAcc]
     IN  \/ Answers(allowed, new) /\ Cleaned(w, j, TRUE)
         \/ Fails(w, allowed, new) /\ Cleaned(w, j, FALSE)
  /\ UNCHANGED syncing

-----------------------------------------------------------------------------
(* The specification *)

Init ==
  /\ obj = [k \in Keys |-> NoObj]
  /\ watch = [k \in Keys |-> <<>>]
  /\ cache = [k \in Keys |-> NoObj]
  /\ queue = [kind \in Kinds |-> EmptyQueue]
  /\ pc = [w \in Workers |-> "idle"]
  /\ job = [w \in Workers |-> NoJob]
  /\ acc = FirstAccs
  /\ syncing = {}
  /\ active \in SUBSET Balancers
  /\ spent = [changes |-> 0, faults |-> 0, crashes |-> 0]

Ensures(w) ==
  \/ DescribeLoadBalancer(w) \/ ListAccelerators(w) \/ ListTags(w)
  \/ CreateAccelerator(w) \/ CreateListener(w) \/ CreateEndpointGroup(w)
  \/ AcceleratorChanged(w) \/ UpdateAccelerator(w) \/ TagResource(w)
  \/ GetListener(w) \/ PutListener(w)
  \/ GetEndpointGroup(w) \/ PutEndpointGroup(w)

CleansUp(w) ==
  \/ DescribeAccelerator(w) \/ RelatedListener(w) \/ RelatedEndpointGroup(w)
  \/ DeleteEndpointGroup(w) \/ DeleteListener(w)
  \/ DisableAccelerator(w) \/ PollAccelerator(w) \/ DeleteAccelerator(w)

Work(w) == ReadObject(w) \/ Ensures(w) \/ CleansUp(w)

Next ==
  \/ \E k \in Keys, v \in Versions \union {NoObj} : Change(k, v)
  \/ \E k \in Keys : Deliver(k)
  \/ \E l \in LBs : LBActivate(l)
  \/ \E a \in Arns : AwsDeploys(a)
  \/ \E w \in Workers, k \in Keys : Take(w, k)
  \/ \E w \in Workers : Work(w)
  \/ Crash

\* Workers are goroutines that only block on AWS, whose calls return; the work
\* queue is first in, first out behind bounded delays, so a waiting key is not
\* overtaken for ever; the watch delivers; load balancers become active and
\* accelerators deployed.  Nobody has to edit, fail or crash.
Fairness ==
  /\ \A w \in Workers : WF_vars(Work(w))
  /\ \A k \in Keys : SF_vars(\E w \in Workers : Take(w, k))
  /\ \A k \in Keys : WF_vars(Deliver(k))
  /\ \A l \in LBs : WF_vars(LBActivate(l))
  /\ \A a \in Arns : WF_vars(AwsDeploys(a))

Spec == Init /\ [][Next]_vars

FairSpec == Spec /\ Fairness

-----------------------------------------------------------------------------
(* Properties *)

\* The types of the variables, and what a worker that is idle or not knows.
TypeOK ==
  /\ obj \in [Keys -> Versions \union {NoObj}]
  /\ watch \in [Keys -> Seq(Versions \union {NoObj})]
  /\ cache \in [Keys -> Versions \union {NoObj}]
  /\ queue \in [Kinds -> QueueOver(Keys)]
  /\ pc \in [Workers -> Sites \union {"idle"}]
  /\ job \in [Workers -> Jobs \union {NoJob}]
  /\ acc \in [Arns -> Accelerators \union {NoAcc}]
  /\ syncing \in SUBSET Arns
  /\ active \in SUBSET LBs
  /\ spent \in [changes : Nat, faults : Nat, crashes : Nat]
  /\ \A w \in Workers : (pc[w] = "idle") <=> (job[w] = NoJob)

\* No two workers have the same object, and the queue knows who has what.
OneWorkerPerKey ==
  /\ \A w \in Workers : pc[w] # "idle" =>
       /\ KindOf[job[w].key] = QueueOf[w]
       /\ job[w].key \in queue[QueueOf[w]].processing
  /\ \A v, w \in Workers :
       pc[v] # "idle" /\ pc[w] # "idle" /\ job[v].key = job[w].key => v = w

\* The purpose a worker with job j has at each call, and its hostname.
OnTask(site, j) ==
  /\ site \in {"read", "loadBalancer", "create"} \union UpdateSites =>
       j.mode = "ensure"
  /\ site \in CleanupSites => j.mode # "ensure"
  /\ site \in {"list", "tags"} => j.mode # "abort"
  /\ site # "read" /\ j.mode = "ensure" =>
       j.view \in Versions /\ j.i \in DOMAIN j.view.lbs

\* What a worker found out by earlier calls, when "mine" are the accelerators
\* of its object: the list leaves none of them out, the ones picked from it are
\* there and still the object's, and there is none when one is created.
FindingsHold(site, j, mine) ==
  /\ site = "tags" => j.todo \subseteq mine /\ mine \subseteq j.listed \union j.todo
  /\ site = "create" => mine = {} /\ j.todo = {}
  /\ site \in UpdateSites \union CleanupSites =>
       j.arn \in mine /\ j.todo \subseteq mine \ {j.arn}

\* However workers, retries after lost answers and restarts interleave, an
\* object never has two accelerators: the list, the decision to create and the
\* creation are separate calls, and creation has no guard of its own
\* (global_accelerator.go:132-149; local_e2e/e2e_test.go:194 expects one).
AtMostOneAccelerator ==
  \A k \in Keys : \A a, b \in Owned(k) : a = b

\* The reason for it, and the inductive invariant of the proofs: one worker per
\* object, so that no worker ever acts on a finding that other workers, or its
\* own earlier calls, have made stale.
NoStaleFinding ==
  /\ OneWorkerPerKey
  /\ \A w \in Workers : pc[w] # "idle" =>
       /\ OnTask(pc[w], job[w])
       /\ FindingsHold(pc[w], job[w], Owned(job[w].key))

\* An accelerator that is there is only ever written or deleted while a worker
\* has the very object its tags name, and never when its tags name another
\* cluster or no owner: not after a stale list, not by a second worker.
OnlyOwnerWrites ==
  [][\A a \in Arns :
       acc[a] # NoAcc /\ acc'[a] # acc[a] =>
         /\ acc[a].managed /\ acc[a].cluster = ClusterName
         /\ \E w \in Workers : pc[w] # "idle" /\ acc[a].owner = job[w].key]_vars

\* Nothing queued, in a worker's hands or on its way to the informer.
Quiet ==
  /\ \A kind \in Kinds : Drained(queue[kind])
  /\ \A k \in Keys : watch[k] = <<>>

ElbHosts(v) == {n \in DOMAIN v.lbs : HostKind[v.lbs[n]] = "elb"}

\* The accelerator is complete and is what the version asks for; of several
\* load balancers the last one counts.
Serves(r, v) ==
  /\ r.enabled /\ r.name = v.name
  /\ r.listener # None /\ ~ListenerChanged(r.listener, v)
  /\ \E n \in ElbHosts(v) :
       (\A m \in ElbHosts(v) : m <= n) /\ r.host = v.lbs[n] /\ v.lbs[n] \in r.group

\* Once the controller has come to rest, an object that asks for an accelerator
\* has one, complete and up to date, whatever failed on the way: no failed
\* call, overtaken event or restart leaves an object with less and no retry
\* pending.
QuiescentSynced ==
  Quiet => \A k \in Keys :
    LET v == obj[k]
    IN  v # NoObj /\ v.eligible /\ v.managed /\ ElbHosts(v) # {}
          => \E a \in Owned(k) : Serves(acc[a], v)

\* Once the controller has come to rest, an object that is gone or is no longer
\* managed has no accelerator left (local_e2e/e2e_test.go:342-385).
QuiescentClean ==
  Quiet => \A k \in Keys :
    obj[k] = NoObj \/ ~obj[k].managed => Owned(k) = {}

\* An accelerator half built or half torn down is never forgotten: its object
\* is queued, in work, about to be reported, or waiting for its load balancer.
AbandonsNothing ==
  \A k \in Keys :
    (\E a \in Owned(k) : acc[a].listener = None \/ acc[a].group = {}
                           \/ ~acc[a].enabled)
      => \/ k \in queue[KindOf[k]].pending \union queue[KindOf[k]].processing
         \/ watch[k] # <<>>
         \/ obj[k] # NoObj /\ obj[k].lbs = <<>>

Stages ==
  [k \in Keys |-> [a \in Owned(k) |->
     [enabled |-> acc[a].enabled, listener |-> acc[a].listener # None,
      group |-> acc[a].group # {}]]]

Lifecycle == INSTANCE AcceleratorLifecycle WITH slot <- Stages

\* The controller implements AcceleratorLifecycle: whatever the interleaving,
\* the calls reach AWS in an order that keeps every object at one accelerator,
\* built and torn down stage by stage, and no call touches two objects'.
ImplementsLifecycle == Lifecycle!Spec

\* After the last edit and the last fault the controller comes to rest for good:
\* no cleanup, update or retry goes on for ever.  With QuiescentSynced and
\* QuiescentClean this is convergence.
EventuallyQuiet == <>[]Quiet
=============================================================================
