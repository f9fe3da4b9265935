--------------------- MODULE GlobalAcceleratorStaysProofs ---------------------
(***************************************************************************)
(* Proofs about GlobalAccelerator while an object is there: its            *)
(* accelerator is not taken away, replaced or given to a load balancer of  *)
(* somebody else.  This is what the Route53 controller, which is told of   *)
(* no accelerator, relies on.                                              *)
(***************************************************************************)
EXTENDS GlobalAcceleratorAtRestProofs

\* Users never take the managed annotation off an object that is there.
NeverUnmanaged == \A e \in Edits : e[2] # NoObj => e[2].managed

\* The two calls whose errors make the workflow delete what it has just made.
CreationAnswered ==
  /\ <<"service", "createListener">> \notin FaultSites
  /\ \A kind \in Kinds : <<kind, "createEndpointGroup">> \notin FaultSites

\* An object is created again only when the controller is done with the one that
\* had its key: every event delivered, the key not queued and in no worker's hands.
DoneWith(k) ==
  /\ watch[k] = <<>>
  /\ k \notin queue[KindOf[k]].pending \union queue[KindOf[k]].processing

CreatedAfresh == \A k \in Keys : obj[k] = NoObj /\ obj'[k] # NoObj => DoneWith(k)

-----------------------------------------------------------------------------
(* What a worker goes on with *)

\* A job on the same object, for the same purpose.
SameTask(w, j) ==
  /\ j \in Jobs
  /\ j.key = job[w].key /\ j.view = job[w].view /\ j.mode = job[w].mode

\* Worker w is done with its key, or goes on with it as before.
GoesOn(w) ==
  \/ \E res : Finish(w, res)
  \/ \E site, j : /\ site \notin {"idle", "createEndpointGroup"}
                  /\ SameTask(w, j) /\ Goto(w, site, j)

\* The loop over the status hostnames goes on.
LEMMA EnsureFromGoesOn ==
  ASSUME NEW w, NEW j, SameTask(w, j), NEW i \in Nat, EnsureFrom(w, j, i)
  PROVE  GoesOn(w)
<1>1. ASSUME NEW n \in i .. Len(j.view.lbs),
             Goto(w, "loadBalancer", [j EXCEPT !.i = n, !.arn = None])
      PROVE  GoesOn(w)
  <2>1. n \in Nat
    OBVIOUS
  <2>2. SameTask(w, [j EXCEPT !.i = n, !.arn = None])
    BY <2>1 DEF SameTask, Jobs
  <2> QED BY <1>1, <2>2 DEF GoesOn
<1> QED BY <1>1 DEF EnsureFrom, GoesOn

\* The next accelerator is gone on with.
LEMMA NextGoesOn ==
  ASSUME NEW w, NEW j, SameTask(w, j), NextAccelerator(w, j)
  PROVE  GoesOn(w)
<1>1. PICK a \in j.todo :
        Goto(w, IF j.mode = "ensure" THEN "changed" ELSE "describe",
             [j EXCEPT !.arn = a, !.todo = j.todo \ {a}])
  BY DEF NextAccelerator
<1>2. SameTask(w, [j EXCEPT !.arn = a, !.todo = j.todo \ {a}])
  BY DEF SameTask, Jobs
<1> QED BY <1>1, <1>2 DEF GoesOn

\* The list is complete.
LEMMA ListedGoesOn ==
  ASSUME NEW w, NEW j, SameTask(w, j), Listed(w, j)
  PROVE  GoesOn(w)
BY NextGoesOn DEF Listed, GoesOn

\* One update is complete.
LEMMA UpdatedGoesOn ==
  ASSUME NEW w, NEW j, SameTask(w, j), Updated(w, j)
  PROVE  GoesOn(w)
<1>1. j.i + 1 \in Nat
  BY DEF SameTask, Jobs
<1> QED BY <1>1, NextGoesOn, EnsureFromGoesOn DEF Updated

\* One cleanup is complete, or failed.
LEMMA CleanedGoesOn ==
  ASSUME NEW w, NEW j, SameTask(w, j), NEW ok, Cleaned(w, j, ok)
  PROVE  GoesOn(w)
BY NextGoesOn DEF Cleaned, GoesOn

\* Every call but three goes on for the same purpose.
LEMMA WorkGoesOn ==
  ASSUME IInv, NEW w \in Workers, Work(w),
         pc[w] \notin {"read", "createListener", "createEndpointGroup"}
  PROVE  GoesOn(w)
<1> DEFINE j == job[w]
           Follows(site) == site \notin {"idle", "createEndpointGroup"} /\ Goto(w, site, j)
<1>1. pc[w] # "idle" /\ j \in Jobs
  <2>1. pc[w] # "idle"
    BY DEF Work, Ensures, CleansUp, ReadObject, DescribeLoadBalancer, ListAccelerators,
       ListTags, CreateAccelerator, CreateListener, CreateEndpointGroup, AcceleratorChanged,
       UpdateAccelerator, TagResource, GetListener, PutListener, GetEndpointGroup,
       PutEndpointGroup, DescribeAccelerator, RelatedListener, RelatedEndpointGroup,
       DeleteEndpointGroup, DeleteListener, DisableAccelerator, PollAccelerator,
       DeleteAccelerator, At
  <2> QED BY <2>1 DEF IInv, TypeOK
<1>2. SameTask(w, j)
  BY <1>1 DEF SameTask
<1>3. ASSUME NEW site, Follows(site)
      PROVE  GoesOn(w)
  BY <1>2, <1>3 DEF GoesOn
<1>4. ASSUME NEW res, Finish(w, res)
      PROVE  GoesOn(w)
  BY <1>4 DEF GoesOn
<1>5. CASE DescribeLoadBalancer(w)
  <2>1. Follows("list") \/ \E res : Finish(w, res)
    BY <1>5 DEF DescribeLoadBalancer
  <2> QED BY <1>3, <1>4, <2>1
<1>6. CASE ListAccelerators(w) \/ ListTags(w)
  <2>1. PICK s \in SUBSET Arns, t \in SUBSET Arns :
          LET j2 == [j EXCEPT !.listed = s, !.todo = t]
          IN  \/ Listed(w, j2)
              \/ Goto(w, "tags", j2)
              \/ \E res : Finish(w, res)
    <3>1. CASE ListAccelerators(w)
      BY <3>1 DEF ListAccelerators
    <3>2. CASE ListTags(w)
      <4>1. PICK a \in j.listed :
              LET t == IF TagsMatch(acc[a], j.key) THEN j.todo \union {a} ELSE j.todo
                  j2 == [j EXCEPT !.listed = j.listed \ {a}, !.todo = t]
              IN  \/ Listed(w, j2)
                  \/ Goto(w, "tags", j2)
                  \/ \E res : Finish(w, res)
        BY <3>2 DEF ListTags
      <4>2. j.listed \ {a} \in SUBSET Arns /\ j.todo \in SUBSET Arns /\ a \in Arns
        BY <1>1 DEF Jobs
      <4> QED BY <4>1, <4>2
    <3> QED BY <1>6, <3>1, <3>2
  <2> DEFINE j2 == [j EXCEPT !.listed = s, !.todo = t]
  <2>2. SameTask(w, j2)
    BY <1>1 DEF SameTask, Jobs
  <2> QED BY <1>4, <2>1, <2>2, ListedGoesOn DEF GoesOn
<1>7. CASE CreateAccelerator(w)
  <2>1. \/ \E a \in Arns : Goto(w, "createListener", [j EXCEPT !.arn = a])
        \/ \E res : Finish(w, res)
    BY <1>7 DEF CreateAccelerator
  <2>2. \A a \in Arns : SameTask(w, [j EXCEPT !.arn = a])
    BY <1>1 DEF SameTask, Jobs
  <2> QED BY <1>4, <2>1, <2>2 DEF GoesOn
<1>8. CASE \/ AcceleratorChanged(w) \/ UpdateAccelerator(w) \/ TagResource(w)
           \/ GetListener(w) \/ PutListener(w)
  <2>1. (\E site : Follows(site)) \/ \E res : Finish(w, res)
    BY <1>8 DEF AcceleratorChanged, UpdateAccelerator, TagResource, GetListener, PutListener
  <2> QED BY <1>3, <1>4, <2>1
<1>9. CASE GetEndpointGroup(w) \/ PutEndpointGroup(w)
  <2>1. (\E site : Follows(site)) \/ (\E res : Finish(w, res)) \/ Updated(w, j)
    BY <1>9 DEF GetEndpointGroup, PutEndpointGroup
  <2> QED BY <1>2, <1>3, <1>4, <2>1, UpdatedGoesOn
<1>10. CASE CleansUp(w)
  <2>1. (\E site : Follows(site)) \/ \E ok : Cleaned(w, j, ok)
    BY <1>10 DEF CleansUp, DescribeAccelerator, RelatedListener, RelatedEndpointGroup,
       DeleteEndpointGroup, DeleteListener, DisableAccelerator, PollAccelerator,
       DeleteAccelerator
  <2> QED BY <1>2, <1>3, <2>1, CleanedGoesOn
<1>11. ~ReadObject(w) /\ ~CreateListener(w) /\ ~CreateEndpointGroup(w)
  BY DEF ReadObject, CreateListener, CreateEndpointGroup, At
<1> QED BY <1>5, <1>6, <1>7, <1>8, <1>9, <1>10, <1>11 DEF Work, Ensures

-----------------------------------------------------------------------------
(* The accelerators lead to their own objects' load balancers *)

\* Version v, if there is one, shows only load balancers that are object k's,
\* when "of" tells whose each is.
Shows(of, k, v) == v # NoObj => \A n \in DOMAIN v.lbs : of[v.lbs[n]] = k

\* Every copy of a version shows load balancers of its own object only, what the
\* workers know of it included, and no accelerator has the host of somebody else's.
CopiesApart(of) == \A k \in Keys :
  /\ Shows(of, k, obj[k]) /\ Shows(of, k, cache[k])
  /\ \A n \in DOMAIN watch[k] : Shows(of, k, watch[k][n])

ViewsApart(of) == \A w \in Workers : pc[w] # "idle" => Shows(of, job[w].key, job[w].view)

HostsApart(of) == \A k \in Keys : \A a \in Owned(k) : of[acc[a].host] = k

Apart(of) == CopiesApart(of) /\ ViewsApart(of) /\ HostsApart(of)

\* The host of an accelerator is what it was, or the load balancer the worker of
\* its object is at.
LEMMA HostsWritten ==
  ASSUME IInv, NEW w \in Workers, Work(w), NEW k \in Keys, NEW a \in Owned(k)'
  PROVE  \/ a \in Owned(k) /\ acc'[a].host = acc[a].host
         \/ /\ k = job[w].key /\ job[w].view \in Versions
            /\ job[w].i \in DOMAIN job[w].view.lbs
            /\ acc'[a].host = Host(job[w])
<1> DEFINE j == job[w]
           Same == a \in Owned(k) /\ acc'[a].host = acc[a].host
           Mine == /\ k = j.key /\ j.view \in Versions
                   /\ j.i \in DOMAIN j.view.lbs /\ acc'[a].host = Host(j)
<1>1. a \in Arns /\ acc'[a] # NoAcc /\ TagsMatch(acc'[a], k) /\ acc \in AccType
  BY DEF Owned, Exists, TagsMatch, IInv, TypeOK, AccType
<1>2. CASE acc' = acc
  BY <1>1, <1>2 DEF Owned, Exists
<1>3. CASE CreateAccelerator(w) /\ acc' # acc
  <2>1. pc[w] = "create"
    BY <1>3 DEF CreateAccelerator, At
  <2>2. j.key \in Keys /\ j.view \in Versions /\ j.i \in DOMAIN j.view.lbs
    BY <2>1, AtList
  <2>3. PICK b \in Arns : acc' = [acc EXCEPT ![b] = NewAccelerator(j.key, j.view, Host(j))]
    BY <1>3 DEF CreateAccelerator, Answers, Fails
  <2>4. CASE a = b
    <3>1. acc'[a] = NewAccelerator(j.key, j.view, Host(j))
      BY <1>1, <2>3, <2>4 DEF AccType
    <3>2. acc'[a].owner = j.key /\ acc'[a].host = Host(j)
      BY <3>1 DEF NewAccelerator
    <3> QED BY <1>1, <2>2, <3>2 DEF TagsMatch
  <2>5. CASE a # b
    <3>1. acc'[a] = acc[a]
      BY <1>1, <2>3, <2>5 DEF AccType
    <3> QED BY <1>1, <3>1 DEF Owned, Exists
  <2> QED BY <2>4, <2>5
<1>4. ASSUME NEW s \in Accelerators, s = acc[j.arn], pc[w] \in UpdateSites \union CleanupSites,
             NEW r, acc' = [acc EXCEPT ![j.arn] = r],
             r # NoAcc => /\ r.managed = s.managed /\ r.owner = s.owner
                          /\ r.cluster = s.cluster /\ r.host = s.host
      PROVE  Same
  <2>1. j.arn \in Arns /\ Exists(j.arn)
    BY <1>4, AtOwn
  <2>2. acc'[a] = IF a = j.arn THEN r ELSE acc[a]
    BY <1>1, <1>4, <2>1 DEF AccType
  <2> QED BY <1>1, <1>4, <2>1, <2>2 DEF Owned, Exists, TagsMatch
<1>5. ASSUME pc[w] \in UpdateSites \union CleanupSites
      PROVE  /\ j.arn \in Arns /\ acc[j.arn] \in Accelerators
  BY <1>5, AtOwn
<1>6. CASE acc' # acc /\ (CreateListener(w) \/ PutListener(w))
  <2>1. pc[w] \in UpdateSites /\ acc' = [acc EXCEPT ![j.arn].listener = Wanted(j.view)]
    BY <1>6 DEF CreateListener, PutListener, At, UpdateSites, Answers, Fails
  <2>2. acc' = [acc EXCEPT ![j.arn] = [acc[j.arn] EXCEPT !.listener = Wanted(j.view)]]
    BY <1>1, <2>1 DEF AccType
  <2> QED BY <1>4, <1>5, <2>1, <2>2 DEF Accelerators
<1>7. CASE acc' # acc /\ (CreateEndpointGroup(w) \/ PutEndpointGroup(w))
  <2>1. pc[w] \in UpdateSites /\ acc' = [acc EXCEPT ![j.arn].group = {Host(j)}]
    BY <1>7 DEF CreateEndpointGroup, PutEndpointGroup, At, UpdateSites, Answers, Fails
  <2>2. acc' = [acc EXCEPT ![j.arn] = [acc[j.arn] EXCEPT !.group = {Host(j)}]]
    BY <1>1, <2>1 DEF AccType
  <2> QED BY <1>4, <1>5, <2>1, <2>2 DEF Accelerators
<1>8. CASE acc' # acc /\ UpdateAccelerator(w)
  <2>1. /\ pc[w] \in UpdateSites
        /\ acc' = [[acc EXCEPT ![j.arn].enabled = TRUE] EXCEPT ![j.arn].name = j.view.name]
    BY <1>8 DEF UpdateAccelerator, At, UpdateSites, Answers, Fails
  <2>2. acc' = [acc EXCEPT ![j.arn] =
                  [acc[j.arn] EXCEPT !.enabled = TRUE, !.name = j.view.name]]
    BY <1>1, <1>5, <2>1 DEF AccType
  <2> QED BY <1>4, <1>5, <2>1, <2>2 DEF Accelerators
<1>9. CASE acc' # acc /\ TagResource(w)
  <2>1. /\ pc[w] \in UpdateSites
        /\ acc' = [[[acc EXCEPT ![j.arn].managed = TRUE] EXCEPT ![j.arn].owner = j.key]
                     EXCEPT ![j.arn].host = Host(j)]
    BY <1>9 DEF TagResource, At, UpdateSites, Answers, Fails
  <2>2. j.view \in Versions /\ j.i \in DOMAIN j.view.lbs
    BY <2>1, AtOwn
  <2>3. CASE a = j.arn
    <3>1. acc'[a].owner = j.key /\ acc'[a].host = Host(j)
      BY <1>1, <1>5, <2>1, <2>3 DEF AccType, Accelerators
    <3> QED BY <1>1, <2>2, <3>1 DEF TagsMatch
  <2>4. CASE a # j.arn
    <3>1. acc'[a] = acc[a]
      BY <1>1, <2>1, <2>4 DEF AccType
    <3> QED BY <1>1, <3>1 DEF Owned, Exists
  <2> QED BY <2>3, <2>4
<1>10. CASE acc' # acc /\ DeleteEndpointGroup(w)
  <2>1. pc[w] \in CleanupSites /\ acc' = [acc EXCEPT ![j.arn].group = {}]
    BY <1>10 DEF DeleteEndpointGroup, At, CleanupSites, Answers, Fails
  <2>2. acc' = [acc EXCEPT ![j.arn] = [acc[j.arn] EXCEPT !.group = {}]]
    BY <1>1, <2>1 DEF AccType
  <2> QED BY <1>4, <1>5, <2>1, <2>2 DEF Accelerators
<1>11. CASE acc' # acc /\ DeleteListener(w)
  <2>1. pc[w] \in CleanupSites /\ acc' = [acc EXCEPT ![j.arn].listener = None]
    BY <1>11 DEF DeleteListener, At, CleanupSites, Answers, Fails
  <2>2. acc' = [acc EXCEPT ![j.arn] = [acc[j.arn] EXCEPT !.listener = None]]
    BY <1>1, <2>1 DEF AccType
  <2> QED BY <1>4, <1>5, <2>1, <2>2 DEF Accelerators
<1>12. CASE acc' # acc /\ DisableAccelerator(w)
  <2>1. pc[w] \in CleanupSites /\ acc' = [acc EXCEPT ![j.arn].enabled = FALSE]
    BY <1>12 DEF DisableAccelerator, At, CleanupSites, Answers, Fails
  <2>2. acc' = [acc EXCEPT ![j.arn] = [acc[j.arn] EXCEPT !.enabled = FALSE]]
    BY <1>1, <2>1 DEF AccType
  <2> QED BY <1>4, <1>5, <2>1, <2>2 DEF Accelerators
<1>13. CASE acc' # acc /\ DeleteAccelerator(w)
  <2>1. pc[w] \in CleanupSites /\ acc' = [acc EXCEPT ![j.arn] = NoAcc]
    BY <1>13 DEF DeleteAccelerator, At, CleanupSites, Answers, Fails
  <2> QED BY <1>4, <1>5, <2>1
<1>14. CASE \/ ReadObject(w) \/ DescribeLoadBalancer(w) \/ ListAccelerators(w)
            \/ ListTags(w) \/ AcceleratorChanged(w) \/ GetListener(w)
            \/ GetEndpointGroup(w) \/ DescribeAccelerator(w) \/ RelatedListener(w)
            \/ RelatedEndpointGroup(w) \/ PollAccelerator(w)
  <2>1. acc' = acc
    BY <1>14 DEF ReadObject, DescribeLoadBalancer, ListAccelerators, ListTags,
       AcceleratorChanged, GetListener, GetEndpointGroup, DescribeAccelerator,
       RelatedListener, RelatedEndpointGroup, PollAccelerator, Answers, Fails
  <2> QED BY <1>2, <2>1
<1> QED BY <1>2, <1>3, <1>6, <1>7, <1>8, <1>9, <1>10, <1>11, <1>12, <1>13, <1>14
        DEF Work, Ensures, CleansUp

-----------------------------------------------------------------------------
(* What a worker is on after a call *)

\* Worker w gives up on what it has just created: a call failed, or there was no
\* listener to make an endpoint group for.
GivesUp(w) ==
  \/ pc[w] = "createListener" /\ <<"service", "createListener">> \in FaultSites
  \/ /\ pc[w] = "createEndpointGroup"
     /\ \/ \E kind \in Kinds : <<kind, "createEndpointGroup">> \in FaultSites
        \/ acc[job[w].arn].listener = None

\* The worker keeps its key, reads its object once, and its purpose changes to
\* cleaning up only when the object is gone or unmanaged or the worker gives up.
Keeps(w) ==
  LET k == job[w].key
  IN  /\ job'[w].key = k
      /\ job'[w].view \in {job[w].view, cache[k]}
      /\ \/ job'[w].mode = job[w].mode
         \/ pc[w] = "read" /\ (cache[k] = NoObj \/ ~cache[k].managed)
         \/ GivesUp(w)
      /\ pc'[w] = "createEndpointGroup" => acc'[job'[w].arn].listener # None

\* The other workers, and the other keys' turns, stay as they are.
LeavesOthers(w) ==
  /\ \A v \in Workers \ {w} : pc'[v] = pc[v] /\ job'[v] = job[v]
  /\ \A h \in Keys \ {job[w].key} : Waiting(h)' => Waiting(h)

Moves(w) == LeavesOthers(w) /\ (pc'[w] = "idle" \/ Keeps(w))

\* A call moves one worker, puts back no key but its own, and keeps the rest.
LEMMA WorkMoves ==
  ASSUME IInv, NEW w \in Workers, Work(w)
  PROVE  pc[w] # "idle" /\ job[w].key \in Keys /\ Moves(w)
<1> DEFINE j == job[w]
<1>1. pc[w] # "idle" /\ j \in Jobs /\ j.key \in Keys
  <2>1. pc[w] # "idle"
    BY DEF Work, Ensures, CleansUp, ReadObject, DescribeLoadBalancer, ListAccelerators,
       ListTags, CreateAccelerator, CreateListener, CreateEndpointGroup, AcceleratorChanged,
       UpdateAccelerator, TagResource, GetListener, PutListener, GetEndpointGroup,
       PutEndpointGroup, DescribeAccelerator, RelatedListener, RelatedEndpointGroup,
       DeleteEndpointGroup, DeleteListener, DisableAccelerator, PollAccelerator,
       DeleteAccelerator, At
  <2> QED BY <2>1 DEF IInv, TypeOK, Jobs
<1> SUFFICES Moves(w)
  BY <1>1
<1>2. pc \in [Workers -> Sites \union {"idle"}] /\ job \in [Workers -> Jobs \union {NoJob}]
  BY DEF IInv, TypeOK
<1>3. ASSUME NEW res, Finish(w, res)
      PROVE  Moves(w)
  <2>1. /\ pc' = [pc EXCEPT ![w] = "idle"] /\ job' = [job EXCEPT ![w] = NoJob]
        /\ queue' = [queue EXCEPT ![QueueOf[w]] = Finished(queue[QueueOf[w]], j.key, res)]
    BY <1>3 DEF Finish
  <2>2. \A h \in Keys \ {j.key} : Waiting(h)' => Waiting(h)
    <3>1. QueueOf[w] \in Kinds /\ queue \in [Kinds -> QueueOver(Keys)]
      BY KindAssumption DEF IInv, TypeOK
    <3> DEFINE q == queue[QueueOf[w]]
    <3>2. q.pending \in SUBSET Keys /\ q \in QueueOver(Keys)
      BY <3>1 DEF QueueOver
    <3>3. Finished(q, j.key, res).pending \subseteq q.pending \union {j.key}
      <4>1. Add(q, j.key).pending = q.pending \union {j.key}
        BY <3>2 DEF Add, QueueOver
      <4>2. Add(q, j.key) \in QueueOver(Keys)
        BY <1>1, <3>2 DEF Add, QueueOver
      <4>3. \A r \in QueueOver(Keys) : Done(r, j.key).pending = r.pending
        BY DEF Done, QueueOver
      <4> QED BY <3>2, <4>1, <4>2, <4>3 DEF Finished
    <3>4. \A kind \in Kinds : queue'[kind].pending \subseteq queue[kind].pending \union {j.key}
      <4> HIDE DEF q
      <4>1. queue' = [queue EXCEPT ![QueueOf[w]] = Finished(q, j.key, res)]
        BY <2>1 DEF q
      <4>2. q = queue[QueueOf[w]]
        BY DEF q
      <4> QED BY <3>1, <3>3, <4>1, <4>2
    <3> QED BY <3>4, KindAssumption DEF Waiting
  <2>3. LeavesOthers(w) /\ pc'[w] = "idle"
    BY <1>2, <2>1, <2>2 DEF LeavesOthers
  <2> QED BY <2>3 DEF Moves
<1>4. ASSUME NEW site, NEW j2, Goto(w, site, j2)
      PROVE  /\ pc'[w] = site /\ job'[w] = j2
             /\ LeavesOthers(w)
  BY <1>2, <1>4 DEF Goto, Waiting, LeavesOthers
<1>5. CASE GoesOn(w)
  <2>1. ASSUME NEW site, NEW j2, site \notin {"idle", "createEndpointGroup"},
               SameTask(w, j2), Goto(w, site, j2)
        PROVE  Moves(w)
    <3>1. Keeps(w)
      BY <1>4, <2>1 DEF SameTask, Keeps
    <3> QED BY <1>4, <2>1, <3>1 DEF Moves
  <2> QED BY <1>3, <1>5, <2>1 DEF GoesOn
<1>6. CASE pc[w] = "read"
  <2> DEFINE v == cache[j.key]
             j2 == [j EXCEPT !.view = v]
  <2>1. ReadObject(w)
    BY <1>6 DEF Work, Ensures, CleansUp, DescribeLoadBalancer, ListAccelerators,
       ListTags, CreateAccelerator, CreateListener, CreateEndpointGroup, AcceleratorChanged,
       UpdateAccelerator, TagResource, GetListener, PutListener, GetEndpointGroup,
       PutEndpointGroup, DescribeAccelerator, RelatedListener, RelatedEndpointGroup,
       DeleteEndpointGroup, DeleteListener, DisableAccelerator, PollAccelerator,
       DeleteAccelerator, At
  <2>2. j2 \in Jobs /\ j2.key = j.key /\ j2.view = v /\ j2.mode = j.mode
    BY <1>1 DEF Jobs, IInv, TypeOK
  <2>3. CASE v = NoObj \/ ~v.managed
    <3>1. CASE Goto(w, "list", [j2 EXCEPT !.mode = "cleanup"])
      <4> DEFINE j3 == [j2 EXCEPT !.mode = "cleanup"]
      <4>1. j3.key = j.key /\ j3.view = v
        BY <2>2 DEF Jobs
      <4>2. Keeps(w)
        BY <1>4, <1>6, <2>3, <3>1, <4>1 DEF Keeps
      <4> QED BY <1>4, <3>1, <4>2 DEF Moves
    <3>2. CASE Finish(w, "ok")
      BY <1>3, <3>2
    <3> QED BY <2>1, <2>3, <3>1, <3>2 DEF ReadObject
  <2>4. CASE v # NoObj /\ v.managed /\ EnsureFrom(w, j2, 1)
    <3>1. ASSUME NEW n \in 1 .. Len(v.lbs),
                 Goto(w, "loadBalancer", [j2 EXCEPT !.i = n, !.arn = None])
          PROVE  Moves(w)
      <4> DEFINE j3 == [j2 EXCEPT !.i = n, !.arn = None]
      <4>1. j3.key = j.key /\ j3.view = v /\ j3.mode = j.mode
        BY <2>2 DEF Jobs
      <4> HIDE DEF j3
      <4>2. Goto(w, "loadBalancer", j3)
        BY <3>1 DEF j3
      <4>3. Keeps(w)
        BY <1>4, <4>1, <4>2 DEF Keeps
      <4> QED BY <1>4, <4>2, <4>3 DEF Moves
    <3> QED BY <1>3, <2>2, <2>4, <3>1 DEF EnsureFrom
  <2> QED BY <1>3, <2>1, <2>3, <2>4 DEF ReadObject
<1>7. CASE pc[w] \in {"createListener", "createEndpointGroup"}
  <2>1. /\ pc[w] \in UpdateSites /\ j.arn \in Arns /\ Exists(j.arn)
        /\ acc[j.arn] \in Accelerators /\ j.view \in Versions /\ j.mode = "ensure"
    BY <1>7, AtOwn DEF UpdateSites
  <2>2. SameTask(w, j) /\ j.i + 1 \in Nat
    BY <1>1 DEF SameTask, Jobs
  <2>3. CASE EnsureFrom(w, j, j.i + 1)
    BY <1>5, <2>2, <2>3, EnsureFromGoesOn
  <2>4. CASE GivesUp(w) /\ AbortCreate(w, j)
    <3> DEFINE j2 == [j EXCEPT !.mode = "abort"]
    <3>1. j2.key = j.key /\ j2.view = j.view
      BY <1>1 DEF Jobs
    <3> HIDE DEF j2
    <3>2. Goto(w, "describe", j2)
      BY <2>4 DEF AbortCreate, j2
    <3>3. Keeps(w)
      BY <1>4, <2>4, <3>1, <3>2 DEF Keeps
    <3> QED BY <1>4, <3>2, <3>3 DEF Moves
  <2>5. CASE CreateListener(w)
    <3>1. pc[w] = "createListener"
      BY <2>5 DEF CreateListener, At
    <3>2. CASE /\ acc' = [acc EXCEPT ![j.arn].listener = Wanted(j.view)]
               /\ Goto(w, "createEndpointGroup", j)
      <4>1. acc'[j.arn].listener = Wanted(j.view)
        BY <2>1, <3>2 DEF IInv, TypeOK, Accelerators
      <4>2. Wanted(j.view) # None
        BY <2>1, VersionAssumption, NullAssumption DEF Wanted, IsVersion, Listeners
      <4>3. Keeps(w)
        BY <1>4, <3>2, <4>1, <4>2 DEF Keeps
      <4> QED BY <1>4, <3>2, <4>3 DEF Moves
    <3>3. CASE Fails(w, Exists(j.arn), [acc EXCEPT ![j.arn].listener = Wanted(j.view)])
               /\ QueueOf[w] = "service" /\ AbortCreate(w, j)
      <4>1. GivesUp(w)
        BY <2>1, <3>1, <3>3 DEF Fails, GivesUp
      <4> QED BY <2>4, <3>3, <4>1
    <3> QED BY <2>3, <2>5, <3>2, <3>3 DEF CreateListener, Answers
  <2>6. CASE CreateEndpointGroup(w)
    <3>1. pc[w] = "createEndpointGroup" /\ QueueOf[w] \in Kinds
      BY <2>6, KindAssumption DEF CreateEndpointGroup, At
    <3>2. EnsureFrom(w, j, j.i + 1) \/
            (GivesUp(w) /\ AbortCreate(w, j))
      BY <2>1, <2>6, <3>1 DEF CreateEndpointGroup, Fails, GivesUp
    <3> QED BY <2>3, <2>4, <3>2
  <2>7. CreateListener(w) \/ CreateEndpointGroup(w)
    BY <1>7 DEF Work, Ensures, CleansUp, ReadObject, DescribeLoadBalancer, ListAccelerators,
       ListTags, CreateAccelerator, AcceleratorChanged,
       UpdateAccelerator, TagResource, GetListener, PutListener, GetEndpointGroup,
       PutEndpointGroup, DescribeAccelerator, RelatedListener, RelatedEndpointGroup,
       DeleteEndpointGroup, DeleteListener, DisableAccelerator, PollAccelerator,
       DeleteAccelerator, At
  <2> QED BY <2>5, <2>6, <2>7
<1> QED BY <1>5, <1>6, <1>7, WorkGoesOn

-----------------------------------------------------------------------------
(* Apart is invariant *)

\* Nobody has a copy of anything at the start.
LEMMA InitApart ==
  ASSUME NEW of
  PROVE  Init => Apart(of)
<1> SUFFICES ASSUME Init  PROVE Apart(of)
  OBVIOUS
<1>1. \A k \in Keys : DOMAIN watch[k] = {} /\ obj[k] = NoObj /\ cache[k] = NoObj
  BY DEF Init
<1>2. \A k \in Keys : Owned(k) = {}
  BY FirstAccsAssumption DEF Init, Owned, Exists, TagsMatch
<1>3. \A w \in Workers : pc[w] = "idle"
  BY DEF Init
<1> QED BY <1>1, <1>2, <1>3 DEF Apart, CopiesApart, ViewsApart, HostsApart, Shows

\* The informer passes on what the objects show.
LEMMA NextCopiesApart ==
  ASSUME IInv, [Next]_vars, NEW of, CopiesApart(of), \A k \in Keys : Shows(of, k, obj'[k])
  PROVE  CopiesApart(of)'
<1>1. /\ obj \in [Keys -> Versions \union {NoObj}] /\ cache \in [Keys -> Versions \union {NoObj}]
      /\ watch \in [Keys -> Seq(Versions \union {NoObj})]
  BY DEF IInv, TypeOK
<1>2. ASSUME NEW k \in Keys, NEW v \in Versions \union {NoObj}, Change(k, v)
      PROVE  CopiesApart(of)'
  <2> DEFINE s == Append(watch[k], v)
  <2>1. /\ obj' = [obj EXCEPT ![k] = v] /\ watch' = [watch EXCEPT ![k] = s] /\ cache' = cache
    BY <1>2 DEF Change
  <2>2. watch[k] \in Seq(Versions \union {NoObj}) /\ Shows(of, k, v)
    BY <1>1, <2>1
  <2>3. /\ DOMAIN s = 1 .. (Len(watch[k]) + 1) /\ DOMAIN watch[k] = 1 .. Len(watch[k])
        /\ Len(watch[k]) \in Nat /\ s[Len(watch[k]) + 1] = v
        /\ \A n \in DOMAIN watch[k] : s[n] = watch[k][n]
    BY <2>2
  <2> HIDE DEF s
  <2>4. \A n \in DOMAIN s : Shows(of, k, s[n])
    BY <2>2, <2>3 DEF CopiesApart
  <2>5. ASSUME NEW h \in Keys
        PROVE  /\ Shows(of, h, cache'[h])
               /\ \A n \in DOMAIN watch'[h] : Shows(of, h, watch'[h][n])
    BY <1>1, <2>1, <2>4 DEF CopiesApart
  <2> QED BY <2>5 DEF CopiesApart, Shows
<1>3. ASSUME NEW k \in Keys, Deliver(k)
      PROVE  CopiesApart(of)'
  <2> DEFINE s == watch[k]
  <2>1. PICK n \in 1 .. Len(s) :
           /\ cache'[k] = s[n]
           /\ \A h \in Keys \ {k} : cache'[h] = cache[h] /\ watch'[h] = watch[h]
           /\ DOMAIN watch'[k] = 1 .. (Len(s) - n)
           /\ \A m \in 1 .. (Len(s) - n) : watch'[k][m] = s[n + m]
    BY <1>3, Delivered
  <2>2. /\ Len(s) \in Nat /\ DOMAIN s = 1 .. Len(s) /\ \A m \in DOMAIN s : Shows(of, k, s[m])
    BY <1>1 DEF CopiesApart
  <2> HIDE DEF s
  <2>3. ASSUME NEW m \in 1 .. (Len(s) - n)
        PROVE  n + m \in 1 .. Len(s)
    <3> DEFINE last == Len(s)
    <3>1. last \in Nat /\ n \in 1 .. last /\ m \in 1 .. (last - n)
      BY <2>2, <2>3
    <3> HIDE DEF last
    <3>2. n + m \in 1 .. last
      BY <3>1
    <3> QED BY <3>2 DEF last
  <2>4. ASSUME NEW m \in 1 .. (Len(s) - n)
        PROVE  Shows(of, k, watch'[k][m])
    <3>1. watch'[k][m] = s[n + m] /\ Shows(of, k, s[n + m])
      BY <2>1, <2>2, <2>3, <2>4
    <3> QED BY <3>1
  <2>5. ASSUME NEW h \in Keys
        PROVE  /\ Shows(of, h, cache'[h])
               /\ \A m \in DOMAIN watch'[h] : Shows(of, h, watch'[h][m])
    BY <2>1, <2>2, <2>4 DEF CopiesApart
  <2> QED BY <2>5 DEF CopiesApart, Shows
<1>4. CASE Crash
  <2>1. cache' = obj /\ obj' = obj /\ \A k \in Keys : DOMAIN watch'[k] = {}
    BY <1>4 DEF Crash
  <2> QED BY <2>1 DEF CopiesApart, Shows
<1>5. CASE UNCHANGED <<obj, watch, cache>>
  BY <1>5 DEF CopiesApart, Shows
<1> QED BY <1>2, <1>3, <1>4, <1>5, WorkKeepsObjects
        DEF Next, LBActivate, AwsDeploys, Take, At, cluster, vars

\* A worker knows what it has read from the cache, and tags what it knows.
LEMMA NextApart ==
  ASSUME IInv, [Next]_vars, NEW of, Apart(of), \A k \in Keys : Shows(of, k, obj'[k])
  PROVE  Apart(of)'
<1>1. CopiesApart(of)'
  BY NextCopiesApart DEF Apart
<1>2. CASE UNCHANGED <<pc, job, acc>>
  <2>1. \A k : Owned(k)' = Owned(k)
    BY <1>2 DEF Owned, Exists
  <2> QED BY <1>1, <1>2, <2>1 DEF Apart, ViewsApart, HostsApart, Shows
<1>3. ASSUME NEW w \in Workers, NEW k \in Keys, Take(w, k)
      PROVE  Apart(of)'
  <2>1. acc' = acc /\ \A h : Owned(h)' = Owned(h)
    BY <1>3 DEF Take, Owned, Exists
  <2>2. job'[w].view = NoObj /\ \A v \in Workers \ {w} : pc'[v] = pc[v] /\ job'[v] = job[v]
    BY <1>3 DEF Take, IInv, TypeOK
  <2> QED BY <1>1, <2>1, <2>2 DEF Apart, ViewsApart, HostsApart, Shows
<1>4. ASSUME NEW w \in Workers, Work(w)
      PROVE  Apart(of)'
  <2>1. pc[w] # "idle" /\ job[w].key \in Keys /\ Moves(w)
    BY <1>4, WorkMoves
  <2>2. ViewsApart(of)'
    <3> SUFFICES ASSUME NEW v \in Workers, pc'[v] # "idle"
                 PROVE  Shows(of, job'[v].key, job'[v].view)
      BY DEF ViewsApart, Shows
    <3>1. CASE v = w
      BY <2>1, <3>1 DEF Apart, CopiesApart, ViewsApart, Moves, Keeps
    <3>2. CASE v # w
      BY <2>1, <3>2 DEF Apart, ViewsApart, Moves, LeavesOthers
    <3> QED BY <3>1, <3>2
  <2>3. ASSUME NEW k \in Keys, NEW a \in Owned(k)'
        PROVE  of[acc'[a].host] = k
    <3>1. CASE a \in Owned(k) /\ acc'[a].host = acc[a].host
      BY <3>1 DEF Apart, HostsApart
    <3>2. CASE /\ k = job[w].key /\ job[w].view \in Versions
               /\ job[w].i \in DOMAIN job[w].view.lbs
               /\ acc'[a].host = Host(job[w])
      BY <2>1, <3>2, NullAssumption DEF Apart, ViewsApart, Shows, Host
    <3> QED BY <1>4, <3>1, <3>2, HostsWritten
  <2> QED BY <1>1, <2>2, <2>3 DEF Apart, HostsApart
<1>5. CASE Crash
  <2>1. acc' = acc /\ \A w \in Workers : pc'[w] = "idle"
    BY <1>5 DEF Crash, aws
  <2>2. \A k : Owned(k)' = Owned(k)
    BY <2>1 DEF Owned, Exists
  <2> QED BY <1>1, <2>1, <2>2 DEF Apart, ViewsApart, HostsApart
<1> QED BY <1>2, <1>3, <1>4, <1>5
        DEF Next, Change, Deliver, LBActivate, AwsDeploys, aws, vars

-----------------------------------------------------------------------------
(* Nobody cleans up after an object that is there *)

\* A worker creates an endpoint group for a listener it has just created.
GroupsReady ==
  \A w \in Workers : pc[w] = "createEndpointGroup" => acc[job[w].arn].listener # None

\* No event says that object k is gone, nothing is done for it before the first
\* event says it is there, and whoever has it is not cleaning up.
Stays(k) ==
  /\ \A n \in DOMAIN watch[k] : watch[k][n] # NoObj
  /\ cache[k] = NoObj => ~Waiting(k) /\ \A w \in Workers : ~Holds(w, k)
  /\ \A w \in Workers : Holds(w, k) => job[w].mode = "ensure"

Lasting == GroupsReady /\ \A k \in Keys : obj[k] # NoObj => Stays(k)

\* Whoever has the same accelerators has each of them as it was.
LEMMA HeldSame ==
  ASSUME NEW k, Holdings(k)' = Holdings(k), NEW a \in Owned(k)
  PROVE  a \in Owned(k)' /\ acc'[a] = acc[a]
<1>1. DOMAIN Holdings(k) = Owned(k) /\ Holdings(k)[a] = acc[a]
  BY DEF Holdings
<1>2. DOMAIN Holdings(k)' = Owned(k)' /\ \A b \in Owned(k)' : Holdings(k)'[b] = acc'[b]
  BY DEF Holdings
<1>3. a \in Owned(k)'
  BY <1>1, <1>2
<1> QED BY <1>1, <1>2, <1>3

\* There are no objects at the start.
LEMMA InitLasting == Init => Lasting
BY DEF Init, Lasting, GroupsReady

\* What an edit does: an object is created once the controller is done with the
\* one before, and is not reported gone before it is deleted.
LEMMA ChangeLasting ==
  ASSUME IInv, RestInv, Lasting, CreatedAfresh, NEW k \in Keys,
         NEW v \in Versions \union {NoObj}, Change(k, v)
  PROVE  Lasting'
<1> DEFINE s == Append(watch[k], v)
<1>1. /\ obj' = [obj EXCEPT ![k] = v] /\ watch' = [watch EXCEPT ![k] = s]
      /\ UNCHANGED <<cache, queue, pc, job, acc>>
  BY DEF Change, aws
<1>2. /\ obj \in [Keys -> Versions \union {NoObj}]
      /\ watch \in [Keys -> Seq(Versions \union {NoObj})]
  BY DEF IInv, TypeOK
<1>3. /\ DOMAIN s = 1 .. (Len(watch[k]) + 1) /\ DOMAIN watch[k] = 1 .. Len(watch[k])
      /\ Len(watch[k]) \in Nat /\ s[Len(watch[k]) + 1] = v
      /\ \A n \in DOMAIN watch[k] : s[n] = watch[k][n]
  <2>1. watch[k] \in Seq(Versions \union {NoObj})
    BY <1>2
  <2> QED BY <2>1
<1>4. /\ obj'[k] = v /\ watch'[k] = s
      /\ \A h \in Keys \ {k} : obj'[h] = obj[h] /\ watch'[h] = watch[h]
  BY <1>1, <1>2
<1> HIDE DEF s
<1>5. GroupsReady'
  BY <1>1 DEF Lasting, GroupsReady
<1>6. ASSUME NEW h \in Keys, obj'[h] # NoObj
      PROVE  Stays(h)'
  <2>1. CASE h # k
    BY <1>1, <1>4, <1>6, <2>1 DEF Lasting, Stays, Waiting, Holds
  <2>2. CASE h = k /\ obj[k] # NoObj
    <3>1. \A n \in DOMAIN s : s[n] # NoObj
      BY <1>3, <1>4, <1>6, <2>2 DEF Lasting, Stays
    <3> QED BY <1>1, <1>4, <2>2, <3>1 DEF Lasting, Stays, Waiting, Holds
  <2>3. CASE h = k /\ obj[k] = NoObj
    <3>1. DoneWith(k)
      BY <1>6, <2>3 DEF CreatedAfresh
    <3>2. \A n \in DOMAIN s : s[n] # NoObj
      <4>1. DOMAIN watch[k] = {}
        BY <3>1 DEF DoneWith
      <4> QED BY <1>3, <1>4, <1>6, <2>3, <4>1
    <3>3. ~Waiting(k) /\ \A w \in Workers : ~Holds(w, k)
      BY <3>1 DEF DoneWith, Waiting, Holds, IInv, NoStaleFinding, OneWorkerPerKey
    <3> QED BY <1>1, <1>4, <2>3, <3>2, <3>3 DEF Stays, Waiting, Holds
  <2> QED BY <2>1, <2>2, <2>3
<1> QED BY <1>5, <1>6 DEF Lasting

\* The informer tells of what is there.
LEMMA DeliverLasting ==
  ASSUME IInv, Lasting, NEW k \in Keys, Deliver(k)
  PROVE  Lasting'
<1> DEFINE s == watch[k]
<1>1. PICK n \in 1 .. Len(s) :
        /\ cache'[k] = s[n]
        /\ \A h \in Keys \ {k} : cache'[h] = cache[h] /\ watch'[h] = watch[h]
        /\ DOMAIN watch'[k] = 1 .. (Len(s) - n)
        /\ \A m \in 1 .. (Len(s) - n) : watch'[k][m] = s[n + m]
  BY Delivered
<1>2. UNCHANGED <<obj, pc, job, acc>>
  BY DEF Deliver, aws
<1>3. \A h \in Keys \ {k} : Waiting(h)' => Waiting(h)
  <2>1. /\ queue \in [Kinds -> QueueOver(Keys)]
        /\ queue' = queue \/ queue' = [queue EXCEPT ![KindOf[k]] = Add(queue[KindOf[k]], k)]
    BY DEF IInv, TypeOK, Deliver
  <2>2. \A kind \in Kinds : queue'[kind].pending \subseteq queue[kind].pending \union {k}
    BY <2>1 DEF QueueOver, Add
  <2> QED BY <2>2, KindAssumption DEF Waiting
<1>4. ASSUME NEW h \in Keys, obj'[h] # NoObj
      PROVE  Stays(h)'
  <2>1. Stays(h)
    BY <1>2, <1>4 DEF Lasting
  <2>2. CASE h # k
    BY <1>1, <1>2, <1>3, <2>1, <2>2 DEF Stays, Holds
  <2>3. CASE h = k
    <3>1. Len(s) \in Nat /\ DOMAIN s = 1 .. Len(s) /\ \A m \in DOMAIN s : s[m] # NoObj
      <4>1. watch[k] \in Seq(Versions \union {NoObj})
        BY DEF IInv, TypeOK
      <4> QED BY <2>1, <2>3, <4>1 DEF Stays
    <3> HIDE DEF s
    <3>2. ASSUME NEW m \in 1 .. (Len(s) - n)
          PROVE  watch'[k][m] # NoObj
      <4> DEFINE last == Len(s)
      <4>1. last \in Nat /\ n \in 1 .. last /\ m \in 1 .. (last - n)
        BY <3>1, <3>2
      <4> HIDE DEF last
      <4>2. n + m \in 1 .. last
        BY <4>1
      <4> QED BY <1>1, <3>1, <4>2 DEF last
    <3>3. cache'[k] # NoObj
      BY <1>1, <3>1
    <3> QED BY <1>1, <1>2, <2>1, <2>3, <3>2, <3>3 DEF Stays, Holds
  <2> QED BY <2>2, <2>3
<1> QED BY <1>2, <1>4 DEF Lasting, GroupsReady

\* A worker does not turn to the cleanup of an object that is there.
LEMMA WorkLasting ==
  ASSUME NeverUnmanaged, CreationAnswered, IInv, AllLayered, RestInv, Lasting,
         NEW w \in Workers, Work(w)
  PROVE  Lasting'
<1>1. pc[w] # "idle" /\ job[w].key \in Keys /\ Moves(w) /\ Steps(w, job[w].key)
  BY WorkMoves, WorkSteps DEF RestInv
<1>2. UNCHANGED <<obj, watch, cache>>
  BY WorkKeepsObjects
<1>3. ASSUME NEW v \in Workers \ {w}, pc[v] # "idle"
      PROVE  job[v].key # job[w].key
  BY <1>1, <1>3 DEF IInv, NoStaleFinding, OneWorkerPerKey
<1>4. GroupsReady'
  <2> SUFFICES ASSUME NEW v \in Workers, pc'[v] = "createEndpointGroup"
               PROVE  acc'[job'[v].arn].listener # None
    BY DEF GroupsReady
  <2>1. CASE v = w
    BY <1>1, <2>1 DEF Moves, Keeps
  <2>2. CASE v # w
    <3>1. pc[v] = "createEndpointGroup" /\ job'[v] = job[v]
      BY <1>1, <2>2 DEF Moves, LeavesOthers
    <3>2. PICK h \in Keys \ {job[w].key} : job[v].arn \in Owned(h)
      BY <1>3, <2>2, <3>1, AtOwn DEF UpdateSites
    <3>3. Holdings(h)' = Holdings(h)
      BY <1>1, <3>2 DEF Steps
    <3>4. acc'[job[v].arn] = acc[job[v].arn]
      BY <3>2, <3>3, HeldSame
    <3> QED BY <3>1, <3>4 DEF Lasting, GroupsReady
  <2> QED BY <2>1, <2>2
<1>5. ASSUME NEW k \in Keys, obj'[k] # NoObj
      PROVE  Stays(k)'
  <2>1. Stays(k)
    BY <1>2, <1>5 DEF Lasting
  <2>2. CASE k # job[w].key
    BY <1>1, <1>2, <2>1, <2>2 DEF Stays, Holds, Moves, LeavesOthers, Keeps
  <2>3. CASE k = job[w].key
    <3>1. cache[k] # NoObj /\ job[w].mode = "ensure"
      BY <1>1, <2>1, <2>3 DEF Stays, Holds
    <3>2. cache[k].managed
      BY <3>1, NeverUnmanaged DEF NeverUnmanaged, RestInv, AllEdited, Edited
    <3>3. ~GivesUp(w)
      BY CreationAnswered DEF GivesUp, CreationAnswered, Lasting, GroupsReady
    <3>4. pc'[w] # "idle" => job'[w].mode = "ensure"
      BY <1>1, <2>3, <3>1, <3>2, <3>3 DEF Moves, Keeps
    <3> QED BY <1>1, <1>2, <2>1, <3>1, <3>4 DEF Stays, Holds, Moves, LeavesOthers
  <2> QED BY <2>2, <2>3
<1> QED BY <1>4, <1>5 DEF Lasting

\* A worker is given a key to ensure.
LEMMA TakeLasting ==
  ASSUME IInv, Lasting, NEW w \in Workers, NEW k \in Keys, Take(w, k)
  PROVE  Lasting'
<1>1. /\ UNCHANGED <<obj, watch, cache, acc>>
      /\ pc'[w] = "read" /\ job'[w].mode = "ensure" /\ job'[w].key = k
      /\ \A v \in Workers \ {w} : pc'[v] = pc[v] /\ job'[v] = job[v]
  BY DEF Take, At, cluster, IInv, TypeOK
<1>2. /\ queue \in [Kinds -> QueueOver(Keys)] /\ k \in queue[KindOf[k]].pending
      /\ QueueOf[w] \in Kinds
      /\ queue' = [queue EXCEPT ![QueueOf[w]] = Get(queue[QueueOf[w]], k)]
  BY KindAssumption DEF Take, CanGet, IInv, TypeOK
<1>3. \A h \in Keys : Waiting(h)' => Waiting(h)
  <2>1. \A kind \in Kinds : queue'[kind].pending \subseteq queue[kind].pending
    BY <1>2 DEF Get
  <2> QED BY <2>1, KindAssumption DEF Waiting
<1>4. ASSUME NEW h \in Keys, obj'[h] # NoObj
      PROVE  Stays(h)'
  <2>1. Stays(h)
    BY <1>1, <1>4 DEF Lasting
  <2>2. cache[k] = NoObj => h # k
    BY <1>2, <2>1 DEF Stays, Waiting
  <2> QED BY <1>1, <1>3, <2>1, <2>2 DEF Stays, Holds
<1> QED BY <1>1, <1>4 DEF Lasting, GroupsReady

\* Every step keeps it so.
LEMMA NextLasting ==
  ASSUME NeverUnmanaged, CreationAnswered, IInv, AllLayered, RestInv, Lasting,
         [Next]_vars, [CreatedAfresh]_vars
  PROVE  Lasting'
<1>1. ASSUME NEW k \in Keys, NEW v \in Versions \union {NoObj}, Change(k, v)
      PROVE  Lasting'
  <2>1. CreatedAfresh
    BY DEF CreatedAfresh, vars
  <2> QED BY <1>1, <2>1, ChangeLasting
<1>2. CASE Crash
  <2>1. /\ \A k \in Keys : watch'[k] = <<>> /\ cache'[k] = obj'[k]
        /\ \A w \in Workers : pc'[w] = "idle"
    BY <1>2 DEF Crash
  <2> QED BY <2>1 DEF Lasting, GroupsReady, Stays, Holds
<1>3. CASE UNCHANGED <<obj, watch, cache, queue, pc, job, acc>>
  BY <1>3 DEF Lasting, GroupsReady, Stays, Waiting, Holds
<1> QED BY <1>1, <1>2, <1>3, DeliverLasting, TakeLasting, WorkLasting,
           NeverUnmanaged, CreationAnswered
        DEF Next, LBActivate, AwsDeploys, cluster, vars

\* The accelerators of an object that is there are never taken away.
LEMMA OwnedGrows ==
  ASSUME IInv, AllLayered, RestInv, Lasting, [Next]_vars,
         NEW k \in Keys, obj[k] # NoObj
  PROVE  Owned(k) \subseteq Owned(k)'
<1>1. CASE acc' = acc
  BY <1>1, OwnedSame
<1>2. ASSUME NEW w \in Workers, Work(w), acc' # acc
      PROVE  Owned(k) \subseteq Owned(k)'
  <2>1. pc[w] # "idle" /\ Steps(w, job[w].key)
    BY <1>2, WorkMoves, WorkSteps DEF RestInv
  <2>2. CASE k # job[w].key
    BY <2>1, <2>2 DEF Steps, Call
  <2>3. CASE k = job[w].key
    <3>1. ~Removes(w)
      BY <2>1, <2>3, AtOwn DEF Removes, Lasting, Stays, Holds
    <3>2. PICK a \in Arns, r \in Accelerators :
            acc' = [acc EXCEPT ![a] = r] /\ TagsMatch(r, k)
      BY <1>2, <2>3, <3>1, WorkDoes, AtOwn DEF Rewrites, Creates
    <3> QED BY <3>2, NullAssumption DEF Owned, Exists, TagsMatch, IInv, TypeOK
  <2> QED BY <2>2, <2>3
<1>3. acc' = acc \/ \E w \in Workers : Work(w)
  BY DEF Next, vars, Change, Deliver, LBActivate, AwsDeploys, Take, Crash, aws
<1> QED BY <1>1, <1>2, <1>3

\* An accelerator is there for as long as its object, whatever fails, races or
\* restarts, unless a creation fails half way (global_accelerator.go:140), the
\* object is unmanaged, or created again before the cleanup of the one before
\* it is over.
THEOREM AcceleratorsStay ==
  ASSUME NeverUnmanaged, CreationAnswered
  PROVE  Spec /\ [][CreatedAfresh]_vars =>
           [][\A k \in Keys : obj[k] # NoObj => Owned(k) \subseteq Owned(k)']_vars
<1>1. IInv /\ AllLayered /\ RestInv /\ Lasting /\ [Next]_vars /\ [CreatedAfresh]_vars =>
        Lasting'
  BY NextLasting, NeverUnmanaged, CreationAnswered
<1>2. IInv /\ AllLayered /\ RestInv /\ Lasting /\ [Next]_vars =>
        [\A k \in Keys : obj[k] # NoObj => Owned(k) \subseteq Owned(k)']_vars
  BY OwnedGrows
<1>3. Init => AllLayered
  BY InitStages
<1>4. IInv /\ AllLayered /\ [Next]_vars => AllLayered'
  BY NextStages
<1> QED BY <1>1, <1>2, <1>3, <1>4, InitLasting, Inductive, AccountsKept, PTL DEF Spec
=============================================================================
