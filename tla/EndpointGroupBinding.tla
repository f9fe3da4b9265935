------------------------ MODULE EndpointGroupBinding ------------------------
(***************************************************************************)
(* The EndpointGroupBinding controller: pkg/controller/endpointgroupbinding*)
(* with the part of pkg/cloudprovider/aws/global_accelerator.go it drives  *)
(* and the validating webhook, one call per step, against the API server   *)
(* with its optimistic concurrency, AWS Global Accelerator, and a process  *)
(* that may crash or panic at any point.                                   *)
(*                                                                         *)
(* A binding asks for the load balancers of a Service or an Ingress (its   *)
(* ref) to be endpoints of an endpoint group it names.  log[k] holds the   *)
(* versions of binding k in the order the API server wrote them; a         *)
(* resourceVersion is a position in it.  "observed" stands for             *)
(* status.observedGeneration = metadata.generation.  A hostname stands for *)
(* its load balancer and the load balancer's ARN.                          *)
(*                                                                         *)
(* The worker is handed a pointer into the informer's cache and edits its  *)
(* array of endpoint ids in place: "cached" is that array, which may then  *)
(* differ from the version it was read from.                               *)
(***************************************************************************)
EXTENDS Integers, Sequences, FiniteSets, Reconcile

CONSTANTS
  Bindings,    \* the EndpointGroupBindings, by namespace/name
  Workers,     \* the worker goroutines
  Refs,        \* the services and ingresses a binding can name
  LBs,         \* the hostnames their status can show
  Elbs,        \* those that parse as an Elastic Load Balancing hostname
  Groups,      \* endpoint group ARNs
  Weights,     \* values of spec.weight, nil included
  Edits,       \* what users ask for: <<old, new>>, a spec or NoObj
  FirstHosts,  \* what a ref can show at the start: its hostnames or NoObj
  RefEdits,    \* what becomes of it: <<old, new>>
  MortalGroups,  \* the groups somebody may delete
  FirstActive, \* load balancers active from the start
  FaultSites,  \* the calls that may fail
  SpoilingFaults,  \* whether calls fail while the cached array is edited
  Patient,     \* whether edits wait until the status shows the last one done
  MaxFaults, MaxChanges, MaxCrashes,   \* bounds of a run
  NoObj, NoGroup, NoJob, None, Blank   \* Blank is the endpoint id ""

Specs == [group : Groups, ref : Refs \union {None}, weight : Weights]

Ids == Seq(LBs \union {Blank})

Objects == [spec : Specs, fin : BOOLEAN, deleting : BOOLEAN,
            ids : Seq(LBs), observed : BOOLEAN]

\* The calls of a worker, by the branch of reconcile that makes them.
DeleteSites == {"describeDeleted", "removeAll", "clearStatus", "removeFinalizer"}
UpdateSites == {"getLoadBalancer", "describe", "removeEndpoint", "checkActive",
                "addEndpoint", "updateWeight", "updateStatus"}
Sites == {"read", "addFinalizer"} \union DeleteSites \union UpdateSites

\* What a worker knows: the key, the version it read and that version's array
\* of ids; in reconcileDelete the index of the loop; in reconcileUpdate the
\* hostnames still to be looked up, the load balancers found, the ids to be
\* written to the status, and the endpoints whose weight is still to be set.
Jobs == [key : Bindings, at : Nat, ids : Ids, i : Nat, hosts : Seq(LBs),
         arns : SUBSET LBs, results : Ids, weigh : SUBSET LBs]

ASSUME EditAssumption ==
  /\ Edits \subseteq (Specs \union {NoObj}) \X (Specs \union {NoObj}) \ {<<NoObj, NoObj>>}
  /\ FirstHosts \subseteq Seq(LBs) \union {NoObj}
  /\ RefEdits \subseteq (Seq(LBs) \union {NoObj}) \X (Seq(LBs) \union {NoObj})
ASSUME BalancerAssumption == Elbs \subseteq LBs /\ FirstActive \subseteq Elbs
ASSUME NullAssumption ==
  /\ NoObj \notin Objects \union Specs \union Seq(LBs)
  /\ NoGroup \notin [LBs -> Weights \union {None}]
  /\ NoJob \notin Jobs
  /\ None \notin Refs \union Weights
  /\ Blank \notin LBs
ASSUME BoundAssumption ==
  /\ MaxFaults \in Nat /\ MaxChanges \in Nat /\ MaxCrashes \in Nat
  /\ SpoilingFaults \in BOOLEAN /\ Patient \in BOOLEAN
ASSUME ViewAssumption ==
  NoObj \notin [phase : {"fresh", "held", "ending"}, group : Groups, recorded : SUBSET LBs]

VARIABLES
  log,        \* the versions of each binding in the API server
  seen,       \* the position of the version the informer has cached
  cached,     \* the array of endpoint ids in the informer's copy
  balancers,  \* the hostnames each ref shows, as the listers return them
  queue, pc, job,
  groups,     \* the endpoint groups in AWS: the weight of each endpoint
  active,     \* the load balancers in state active
  spent       \* how much of the bounds is used up

vars == <<log, seen, cached, balancers, queue, pc, job, groups, active, spent>>

-----------------------------------------------------------------------------
(* The API server *)

Obj(k) == log[k][Len(log[k])]

\* A write that changes nothing makes no new version.
Commit(k, v) ==
  log' = IF v = Obj(k) THEN log ELSE [log EXCEPT ![k] = Append(@, v)]

\* Mistake: the group of a binding may be changed.
AdmitsAll(previous, new) == TRUE

\* The webhook: validate.
Admits(previous, new) == previous.group = new.group

\* What the API server makes of a user's edit of v: a new binding, a new spec,
\* or a deletion, which waits for the finalizer.
Edited(v, s) ==
  IF v = NoObj
  THEN [spec |-> s, fin |-> FALSE, deleting |-> FALSE, ids |-> <<>>, observed |-> FALSE]
  ELSE IF s # NoObj THEN [v EXCEPT !.spec = s, !.observed = FALSE]
  ELSE IF v.fin THEN [v EXCEPT !.deleting = TRUE, !.observed = FALSE]
  ELSE NoObj

SpecOf(v) == IF v = NoObj THEN NoObj ELSE v.spec

\* The load balancers a binding asks for.
Shown(ref) ==
  IF ref = None THEN {}
  ELSE IF balancers[ref] = NoObj THEN {}
  ELSE {balancers[ref][n] : n \in DOMAIN balancers[ref]}

IdSet(ids) == {ids[n] : n \in DOMAIN ids}

\* The status says that the binding has what it asks for.
Recorded(v) == v.observed /\ IdSet(v.ids) = Shown(v.spec.ref)

Waits(k) == Patient /\ Obj(k) # NoObj /\ ~Recorded(Obj(k))

Changes ==
  /\ spent.changes < MaxChanges
  /\ spent' = [spent EXCEPT !.changes = @ + 1]

EditBinding(k, s) ==
  LET v == Obj(k)
  IN  /\ <<SpecOf(v), s>> \in Edits
      /\ v # NoObj => ~v.deleting
      /\ v # NoObj /\ s # NoObj => Admits(v.spec, s)
      /\ ~Waits(k)
      /\ Commit(k, Edited(v, s))
      /\ Changes
      /\ UNCHANGED <<seen, cached, balancers, queue, pc, job, groups, active>>

\* The status of a service or an ingress, or its creation or deletion.  What
\* counts is what the lister returns, so this is the informer's copy.
ChangeRef(r, hosts) ==
  /\ <<balancers[r], hosts>> \in RefEdits
  /\ \A k \in Bindings : Obj(k) # NoObj /\ Obj(k).spec.ref = r => ~Waits(k)
  /\ balancers' = [balancers EXCEPT ![r] = hosts]
  /\ Changes
  /\ UNCHANGED <<log, seen, cached, queue, pc, job, groups, active>>

DeleteGroup(g) ==
  /\ g \in MortalGroups /\ groups[g] # NoGroup
  /\ groups' = [groups EXCEPT ![g] = NoGroup]
  /\ Changes
  /\ UNCHANGED <<log, seen, cached, balancers, queue, pc, job, active>>

LBActivate(l) ==
  /\ l \in Elbs \ active
  /\ active' = active \union {l}
  /\ UNCHANGED <<log, seen, cached, balancers, queue, pc, job, groups, spent>>

-----------------------------------------------------------------------------
(* The informer *)

\* AddFunc enqueues, UpdateFunc unless the group changed; there is no
\* DeleteFunc.
Notifies(old, new) ==
  /\ new # NoObj
  /\ old # NoObj => old.spec.group = new.spec.group

IdsOf(v) == IF v = NoObj THEN <<>> ELSE v.ids

\* The next watch event, or a relist that skips to the newest version.
Deliver(k) ==
  /\ seen[k] < Len(log[k])
  /\ \E n \in {seen[k] + 1, Len(log[k])} :
       /\ seen' = [seen EXCEPT ![k] = n]
       /\ cached' = [cached EXCEPT ![k] = IdsOf(log[k][n])]
       /\ queue' = IF Notifies(log[k][seen[k]], log[k][n]) THEN Add(queue, k) ELSE queue
  /\ UNCHANGED <<log, balancers, pc, job, groups, active, spent>>

\* Every 30 s the informer hands every cached binding to UpdateFunc again.
Resync(k) ==
  /\ log[k][seen[k]] # NoObj
  /\ queue' = Add(queue, k)
  /\ UNCHANGED <<log, seen, cached, balancers, pc, job, groups, active, spent>>

\* The process ends and the next leader starts from a fresh list.
Restart ==
  /\ seen' = [k \in Bindings |-> Len(log[k])]
  /\ cached' = [k \in Bindings |-> IdsOf(Obj(k))]
  /\ queue' = [EmptyQueue EXCEPT !.pending = {k \in Bindings : Obj(k) # NoObj}]
  /\ pc' = [w \in Workers |-> "idle"]
  /\ job' = [w \in Workers |-> NoJob]

Crash ==
  /\ spent.crashes < MaxCrashes
  /\ spent' = [spent EXCEPT !.crashes = @ + 1]
  /\ Restart
  /\ UNCHANGED <<log, balancers, groups, active>>

-----------------------------------------------------------------------------
(* Steps of a worker.  A call answers, or fails at one of the FaultSites: it  *)
(* may then have taken effect all the same.  A call that AWS or the API       *)
(* server refuses ("allowed" is false) has no effect and costs no fault.      *)

\* The worker edits the array of the version it read: the informer's copy, as
\* long as no event has replaced it.
EditsArray(j, array) ==
  cached' = IF seen[j.key] = j.at THEN [cached EXCEPT ![j.key] = array] ELSE cached

\* The informer's copy differs from the version it stands for.
Spoiled(k) == cached[k] # IdsOf(log[k][seen[k]])

Goto(w, site, j) ==
  /\ pc' = [pc EXCEPT ![w] = site]
  /\ job' = [job EXCEPT ![w] = j]
  /\ UNCHANGED <<seen, queue>>

\* syncHandler and processNextWorkItem: unlike the other controllers' loop, an
\* error does not put the key back.
Finish(w, res) ==
  /\ pc' = [pc EXCEPT ![w] = "idle"]
  /\ job' = [job EXCEPT ![w] = NoJob]
  /\ queue' = LET k == job[w].key
              IN  Done(IF res \in {"after", "requeue"} THEN Add(queue, k) ELSE queue, k)
  /\ UNCHANGED <<seen, cached>>

\* A panic ends the process: HandleCrash logs it and panics again.
Panic == Restart

Faulty(w) ==
  /\ pc[w] \in FaultSites
  /\ SpoilingFaults \/ ~Spoiled(job[w].key)
  /\ spent.faults < MaxFaults
  /\ spent' = [spent EXCEPT !.faults = @ + 1]

Answers(allowed, new) == allowed /\ groups' = new /\ UNCHANGED spent

Fails(w, allowed, new) ==
  \/ ~allowed /\ UNCHANGED <<groups, spent>>
  \/ allowed /\ Faulty(w) /\ groups' \in {groups, new}

\* A call to AWS: what else it leaves alone.
Call(w, site) ==
  /\ pc[w] = site
  /\ UNCHANGED <<log, balancers, active>>

\* Mistake: the write does not say which version it is based on.
WriteUnconditionally(w, v, res) ==
  /\ IF Obj(job[w].key) = NoObj
     THEN UNCHANGED log /\ Finish(w, "err")
     ELSE Commit(job[w].key, v) /\ Finish(w, res)
  /\ UNCHANGED <<balancers, groups, active, spent>>

\* Update and UpdateStatus end the pass.  The API server refuses them unless
\* the version the worker read is still the newest.
Write(w, v, res) ==
  /\ LET j == job[w]
         current == j.at = Len(log[j.key])
     IN  \/ current /\ Commit(j.key, v) /\ UNCHANGED spent /\ Finish(w, res)
         \/ ~current /\ UNCHANGED <<log, spent>> /\ Finish(w, "err")
         \/ /\ current /\ Faulty(w)
            /\ Commit(j.key, v) \/ UNCHANGED log
            /\ Finish(w, "err")
  /\ UNCHANGED <<balancers, groups, active>>

View(j) == log[j.key][j.at]

Group(j) == groups[View(j).spec.group]

-----------------------------------------------------------------------------
(* processNextWorkItem, syncHandler, reconcile *)

Take(w, k) ==
  /\ Call(w, "idle")
  /\ CanGet(queue, k)
  /\ queue' = Get(queue, k)
  /\ pc' = [pc EXCEPT ![w] = "read"]
  /\ job' = [job EXCEPT ![w] =
       [key |-> k, at |-> seen[k], ids |-> <<>>, i |-> 1, hosts |-> <<>>,
        arns |-> {}, results |-> <<>>, weigh |-> {}]]
  /\ UNCHANGED <<seen, cached, groups, spent>>

\* What reconcileUpdate has left to do.  "results" starts as the status it
\* read; removals come first, then additions, weights and the status.
StaleAt(j) == {p \in DOMAIN j.results : j.results[p] \notin j.arns}

\* The end of a list cut at p: results after slices.DeleteFunc.
Without(s, p) == SubSeq(s, 1, p - 1) \o SubSeq(s, p + 1, Len(s))

\* DeleteFunc and append work in the array of the cached object: it shows the
\* results, followed by "" where DeleteFunc cleared it.
Padded(j) ==
  [p \in DOMAIN j.ids |-> IF p \in DOMAIN j.results THEN j.results[p] ELSE Blank]

\* The next call of reconcileUpdate.  The removals go through the AWS client of
\* the last load balancer, and panic when there is none.
Proceed(w, j) ==
  LET clear == StaleAt(j) = {}
      added == j.arns \subseteq IdSet(j.results)
      to(site) == EditsArray(j, Padded(j)) /\ Goto(w, site, j)
  IN  \/ ~clear /\ j.arns = {} /\ Panic
      \/ ~clear /\ j.arns # {} /\ to("removeEndpoint")
      \/ clear /\ ~added /\ to("checkActive")
      \/ clear /\ added /\ j.weigh # {} /\ to("updateWeight")
      \/ clear /\ added /\ j.weigh = {} /\ to("updateStatus")

\* Mistake: a changed weight is not looked for.
PlansByIdsOnly(w, j) ==
  IF StaleAt(j) = {} /\ j.arns \subseteq IdSet(j.results)
  THEN Finish(w, "ok")
  ELSE Goto(w, "describe", j) /\ UNCHANGED cached

\* All load balancers are found: is there anything to do?
Plans(w, j) ==
  IF StaleAt(j) = {} /\ j.arns \subseteq IdSet(j.results) /\ View(j).observed
  THEN Finish(w, "ok")
  ELSE Goto(w, "describe", j) /\ UNCHANGED cached

\* getLoadBalancerHostName, then the loop over the hostnames.
Looks(w, j) ==
  LET ref == View(j).spec.ref
      hosts == IF ref = None THEN <<>> ELSE balancers[ref]
  IN  \/ hosts = NoObj /\ Finish(w, "err")
      \/ hosts = <<>> /\ Plans(w, j)
      \/ /\ hosts # NoObj /\ hosts # <<>>
         /\ Goto(w, "getLoadBalancer", [j EXCEPT !.hosts = hosts])
         /\ UNCHANGED cached

\* Mistake: the finalizer is left to a later pass.
ReadsWithoutFinalizer(w) ==
  /\ Call(w, "read")
  /\ LET k == job[w].key
         v == log[k][seen[k]]
         j == [job[w] EXCEPT !.at = seen[k], !.ids = cached[k], !.results = cached[k]]
     IN  \/ v = NoObj /\ Finish(w, "ok")
         \/ /\ v # NoObj /\ v.deleting
            /\ Goto(w, IF j.ids = <<>> THEN "removeFinalizer" ELSE "describeDeleted", j)
            /\ UNCHANGED cached
         \/ v # NoObj /\ ~v.deleting /\ Looks(w, j)
  /\ UNCHANGED <<groups, spent>>

\* The lister's answer and the branch of reconcile it leads to.
Read(w) ==
  /\ Call(w, "read")
  /\ LET k == job[w].key
         v == log[k][seen[k]]
         j == [job[w] EXCEPT !.at = seen[k], !.ids = cached[k], !.results = cached[k]]
         to(site) == Goto(w, site, j) /\ UNCHANGED cached
     IN  \/ v = NoObj /\ Finish(w, "ok")
         \/ /\ v # NoObj /\ v.deleting
            /\ to(IF j.ids = <<>> THEN "removeFinalizer" ELSE "describeDeleted")
         \/ v # NoObj /\ ~v.deleting /\ ~v.fin /\ to("addFinalizer")
         \/ v # NoObj /\ ~v.deleting /\ v.fin /\ Looks(w, j)
  /\ UNCHANGED <<groups, spent>>

-----------------------------------------------------------------------------
(* reconcileCreate and reconcileDelete *)

AddFinalizer(w) ==
  /\ pc[w] = "addFinalizer"
  /\ Write(w, [View(job[w]) EXCEPT !.fin = TRUE], "ok")

\* Without its last finalizer an object that is being deleted goes.
RemoveFinalizer(w) ==
  /\ pc[w] = "removeFinalizer"
  /\ Write(w, NoObj, "ok")

DescribeDeleted(w) ==
  /\ Call(w, "describeDeleted")
  /\ LET j == job[w]
         to(site) == Goto(w, site, j) /\ UNCHANGED cached
     IN  \/ Group(j) = NoGroup /\ Answers(TRUE, groups) /\ to("removeFinalizer")
         \/ Answers(Group(j) # NoGroup, groups) /\ to("removeAll")
         \/ Fails(w, TRUE, groups) /\ Finish(w, "err")

\* A group without endpoint e.
RemovedFrom(j, e) ==
  [groups EXCEPT ![View(j).spec.group] = [l \in LBs |-> IF l = e THEN None ELSE @[l]]]

\* One turn of the loop over the ids.  The loop runs to the length the list had
\* at first and cuts entry i out of a list that shrinks in place, so with two
\* ids or more it skips some and then panics.  The id "" has no region to parse.
RemoveAll(w) ==
  /\ Call(w, "removeAll")
  /\ LET j == job[w]
         n == Len(j.ids)
         left == n - j.i          \* entries after this turn's cut
         cut == [p \in 1 .. n |-> IF p >= j.i /\ p <= left THEN j.ids[p + 1] ELSE j.ids[p]]
         next == [j EXCEPT !.ids = cut, !.i = @ + 1]
         id == j.ids[j.i]
         allowed == Group(j) # NoGroup
     IN  \/ id = Blank /\ Panic /\ UNCHANGED <<groups, spent>>
         \/ /\ id # Blank
            /\ \/ /\ Answers(allowed, RemovedFrom(j, id))
                  /\ \/ j.i > left + 1 /\ Panic
                     \/ /\ j.i <= left + 1
                        /\ Goto(w, IF j.i < n THEN "removeAll" ELSE "clearStatus", next)
                        /\ EditsArray(j, cut)
               \/ Fails(w, allowed, RemovedFrom(j, id)) /\ Finish(w, "err")

\* The loop has ended without a panic, so it has emptied the list.
ClearStatus(w) ==
  /\ pc[w] = "clearStatus"
  /\ Write(w, [View(job[w]) EXCEPT !.ids = <<>>, !.observed = TRUE], "after")

-----------------------------------------------------------------------------
(* reconcileUpdate *)

\* One turn of the loop over the hostnames: parse, then GetLoadBalancer.
GetLoadBalancer(w) ==
  /\ Call(w, "getLoadBalancer")
  /\ LET j == job[w]
         l == Head(j.hosts)
         found == [j EXCEPT !.hosts = Tail(@), !.arns = @ \union {l}, !.weigh = @ \union {l}]
     IN  \/ /\ Answers(l \in Elbs, groups)
            /\ \/ Len(j.hosts) = 1 /\ Plans(w, found)
               \/ /\ Len(j.hosts) > 1
                  /\ Goto(w, "getLoadBalancer", found) /\ UNCHANGED cached
         \/ Fails(w, l \in Elbs, groups) /\ Finish(w, "err")

DescribeEndpointGroup(w) ==
  /\ Call(w, "describe")
  /\ LET j == job[w]
     IN  \/ Answers(Group(j) # NoGroup, groups) /\ Proceed(w, j)
         \/ Fails(w, Group(j) # NoGroup, groups) /\ Finish(w, "err")

\* removeEndpoint, for the first id of the status that is no longer wanted.
\* AWS takes the removal of an endpoint that is not there; what it says to the
\* id "" is not known.
RemoveEndpoint(w) ==
  /\ Call(w, "removeEndpoint")
  /\ LET j == job[w]
     IN  \E first \in StaleAt(j) :
           LET id == j.results[first]
               new == RemovedFrom(j, id)
               exists == Group(j) # NoGroup
           IN  /\ \A p \in StaleAt(j) : first <= p
               /\ \E allowed \in {exists, exists /\ id # Blank} :
                    \/ /\ Answers(allowed, new)
                       /\ Proceed(w, [j EXCEPT !.results = Without(@, first)])
                    \/ Fails(w, allowed, new) /\ Finish(w, "err")

\* Mistake: a load balancer is added whether the status has it or not.
AddsAny(w) ==
  /\ Call(w, "checkActive")
  /\ Answers(TRUE, groups)
  /\ \E l \in job[w].arns : Goto(w, "addEndpoint", [job[w] EXCEPT !.hosts = <<l>>])
  /\ UNCHANGED cached

\* AddLBToEndpointGroup: the load balancer is looked up again.  One that is not
\* active ends the pass, with the removals done and the status not written.
CheckActive(w) ==
  /\ Call(w, "checkActive")
  /\ LET j == job[w]
     IN  \/ /\ Answers(TRUE, groups)
            /\ \E l \in j.arns \ IdSet(j.results) :
                 IF l \in active
                 THEN Goto(w, "addEndpoint", [j EXCEPT !.hosts = <<l>>]) /\ UNCHANGED cached
                 ELSE Finish(w, "after")
         \/ Fails(w, TRUE, groups) /\ Finish(w, "err")

\* AddEndpoints; AWS takes an endpoint that is there already.
AddEndpoint(w) ==
  /\ Call(w, "addEndpoint")
  /\ LET j == job[w]
         l == Head(j.hosts)
         g == View(j).spec.group
         new == [groups EXCEPT ![g] = [m \in LBs |->
                   IF m = l THEN View(j).spec.weight ELSE @[m]]]
     IN  \/ /\ Answers(Group(j) # NoGroup, new)
            /\ Proceed(w, [j EXCEPT !.results = Append(@, l)])
         \/ Fails(w, Group(j) # NoGroup, new) /\ Finish(w, "err")

\* updateEndpointWeight: UpdateEndpointGroup takes the whole list of endpoints,
\* and is given this one only.
UpdateWeight(w) ==
  /\ Call(w, "updateWeight")
  /\ LET j == job[w]
         g == View(j).spec.group
     IN  \E l \in j.weigh :
           LET new == [groups EXCEPT ![g] = [m \in LBs |->
                         IF m = l THEN View(j).spec.weight ELSE None]]
           IN  \/ /\ Answers(Group(j) # NoGroup, new)
                  /\ Proceed(w, [j EXCEPT !.weigh = @ \ {l}])
               \/ Fails(w, Group(j) # NoGroup, new) /\ Finish(w, "err")

\* Mistake: what DeleteFunc cleared is written too.
UpdateStatusUncut(w) ==
  /\ pc[w] = "updateStatus"
  /\ LET j == job[w]
         uncut == Padded(j) \o SubSeq(j.results, Len(j.ids) + 1, Len(j.results))
     IN  Write(w, [View(j) EXCEPT !.ids = uncut, !.observed = TRUE], "ok")

UpdateStatus(w) ==
  /\ pc[w] = "updateStatus"
  /\ Write(w, [View(job[w]) EXCEPT !.ids = job[w].results, !.observed = TRUE], "ok")

-----------------------------------------------------------------------------
(* The specification *)

Init ==
  /\ log = [k \in Bindings |-> <<NoObj>>]
  /\ seen = [k \in Bindings |-> 1]
  /\ cached = [k \in Bindings |-> <<>>]
  /\ balancers \in [Refs -> FirstHosts]
  /\ queue = EmptyQueue
  /\ pc = [w \in Workers |-> "idle"]
  /\ job = [w \in Workers |-> NoJob]
  /\ groups = [g \in Groups |-> [l \in LBs |-> None]]
  /\ active = FirstActive
  /\ spent = [changes |-> 0, faults |-> 0, crashes |-> 0]

Creates(w) == AddFinalizer(w)

Deletes(w) ==
  DescribeDeleted(w) \/ RemoveAll(w) \/ ClearStatus(w) \/ RemoveFinalizer(w)

Updates(w) ==
  \/ GetLoadBalancer(w) \/ DescribeEndpointGroup(w) \/ RemoveEndpoint(w)
  \/ CheckActive(w) \/ AddEndpoint(w) \/ UpdateWeight(w) \/ UpdateStatus(w)

Work(w) == Read(w) \/ Creates(w) \/ Deletes(w) \/ Updates(w)

Next ==
  \/ \E k \in Bindings, s \in Specs \union {NoObj} : EditBinding(k, s)
  \/ \E r \in Refs : \E e \in RefEdits : ChangeRef(r, e[2])
  \/ \E g \in Groups : DeleteGroup(g)
  \/ \E l \in LBs : LBActivate(l)
  \/ \E k \in Bindings : Deliver(k) \/ Resync(k)
  \/ \E w \in Workers, k \in Bindings : Take(w, k)
  \/ \E w \in Workers : Work(w)
  \/ Crash

\* Workers only block on calls that return; the queue is first in, first out;
\* the watch delivers and the resync timer runs; load balancers become active.
Fairness ==
  /\ \A w \in Workers : WF_vars(Work(w))
  /\ \A k \in Bindings : SF_vars(\E w \in Workers : Take(w, k))
  /\ \A k \in Bindings : WF_vars(Deliver(k)) /\ WF_vars(Resync(k))
  /\ \A l \in LBs : WF_vars(LBActivate(l))

Spec == Init /\ [][Next]_vars

FairSpec == Spec /\ Fairness

-----------------------------------------------------------------------------
(* Properties *)

\* The types of the variables.  A version never lists the id "": what a worker
\* makes of the array it edits in place does not reach the API server.
TypeOK ==
  /\ log \in [Bindings -> Seq(Objects \union {NoObj}) \ {<<>>}]
  /\ seen \in [Bindings -> Nat \ {0}]
  /\ cached \in [Bindings -> Ids]
  /\ balancers \in [Refs -> Seq(LBs) \union {NoObj}]
  /\ queue \in QueueOver(Bindings)
  /\ pc \in [Workers -> Sites \union {"idle"}]
  /\ job \in [Workers -> Jobs \union {NoJob}]
  /\ groups \in [Groups -> [LBs -> Weights \union {None}] \union {NoGroup}]
  /\ active \in SUBSET LBs
  /\ spent \in [changes : Nat, faults : Nat, crashes : Nat]
  /\ \A k \in Bindings : seen[k] <= Len(log[k])
  /\ \A w \in Workers : (pc[w] = "idle") <=> (job[w] = NoJob)

\* A worker about to add an endpoint does so for a binding that exists and that
\* the finalizer holds, however old the version the worker goes by is: whatever
\* it adds, no deletion can pass it by unseen.
NeverAddsUnprotected ==
  \A w \in Workers : pc[w] = "addEndpoint" =>
    Obj(job[w].key) # NoObj /\ Obj(job[w].key).fin

\* The status names an endpoint at most once, although it is edited in the
\* array of the informer's copy and retried from there.
NamesOnce ==
  \A k \in Bindings : Obj(k) # NoObj =>
    \A m, n \in DOMAIN Obj(k).ids : Obj(k).ids[m] = Obj(k).ids[n] => m = n

\* What a reader of the API server sees of version v.
Image(v) ==
  IF v = NoObj THEN NoObj
  ELSE [phase |-> IF v.deleting THEN "ending" ELSE IF v.fin THEN "held" ELSE "fresh",
        group |-> v.spec.group, recorded |-> IdSet(v.ids)]

Lifecycle == INSTANCE BindingLifecycle WITH
  Endpoints <- LBs, Absent <- NoObj,
  binding <- [k \in Bindings |-> Image(Obj(k))],
  alive <- {g \in Groups : groups[g] # NoGroup}

\* The controller implements BindingLifecycle, whatever stale version a worker
\* goes by and wherever it fails: a binding goes only when its status is empty
\* or its group is gone, and never changes its group.
ImplementsBindingLifecycle == Lifecycle!Spec

\* The binding is served as it asks: one entry in the status, and in the group
\* the same load balancer with the binding's weight; or, without a load
\* balancer, none in either.
Settled(k) ==
  LET v == Obj(k)
      g == groups[v.spec.group]
  IN  IF v = NoObj
      THEN \A h \in Groups : groups[h] = NoGroup \/ \A l \in LBs : groups[h][l] = None
      ELSE /\ ~v.deleting /\ v.fin /\ v.observed
           /\ IdSet(v.ids) = Shown(v.spec.ref)
           /\ \A l \in LBs :
                g[l] = IF l \in Shown(v.spec.ref) THEN v.spec.weight ELSE None

Missing(k) == Obj(k) # NoObj /\ balancers[Obj(k).spec.ref] = NoObj

\* After the last edit a binding whose service or ingress exists gets what it
\* asks for, and one that is deleted leaves nothing behind, although an error is
\* not put back on the queue: the resync brings every key again.
BindingsSettle == <>[](\A k \in Bindings : Missing(k) \/ Settled(k))

\* "If status.endpointIds is not in the ARN, remove it from the endpoint group"
\* (reconcile.go:115): a load balancer that is no longer the service's or the
\* ingress's does not stay recorded for ever.
RemovesLost ==
  \A k \in Bindings, l \in LBs :
    (Obj(k) # NoObj /\ l \in IdSet(Obj(k).ids) \ Shown(Obj(k).spec.ref))
      ~> (Obj(k) = NoObj \/ l \notin IdSet(Obj(k).ids) \ Shown(Obj(k).spec.ref))

\* "you can bind multiple services (Load Balancers) to an Global Accelerator
\* Endpoint Group" (README.md:187): once no worker is busy, what the status of
\* a binding names is in its group.
RecordedIsBound ==
  (\A w \in Workers : pc[w] = "idle") =>
    \A k \in Bindings : Obj(k) # NoObj =>
      \A l \in IdSet(Obj(k).ids) :
        groups[Obj(k).spec.group] # NoGroup /\ groups[Obj(k).spec.group][l] # None
=============================================================================
