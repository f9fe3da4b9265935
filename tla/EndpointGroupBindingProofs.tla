--------------------- MODULE EndpointGroupBindingProofs ---------------------
(***************************************************************************)
(* Proofs about EndpointGroupBinding, for every set of bindings, workers,  *)
(* load balancers and endpoint groups and every bound on edits, faults and *)
(* crashes: the inductive invariant BInv, from it that no endpoint is      *)
(* added for a binding the finalizer does not hold and that a status names *)
(* no endpoint twice, and the refinement of BindingLifecycle.              *)
(***************************************************************************)
EXTENDS EndpointGroupBinding, SequenceTheorems, TLAPS

LogType == [Bindings -> Seq(Objects \union {NoObj}) \ {<<>>}]
CachedType == [Bindings -> Ids]
GroupType == [Groups -> [LBs -> Weights \union {None}] \union {NoGroup}]
SpentType == [changes : Nat, faults : Nat, crashes : Nat]

Alive == {g \in Groups : groups[g] # NoGroup}

-----------------------------------------------------------------------------
(* The inductive invariant *)

\* What holds of a version by itself: without the finalizer there is nothing in
\* the status and no deletion to wait for, and no id is named twice.
Distinct(s) == \A m, n \in DOMAIN s : s[m] = s[n] /\ s[m] # Blank => m = n

Sound(v) ==
  v # NoObj => (~v.fin => v.ids = <<>> /\ ~v.deleting) /\ Distinct(v.ids)

Held(v) == v # NoObj /\ v.fin /\ ~v.deleting

\* From a version that the finalizer holds on, every version has it.
Guarded(k, p) ==
  Held(log[k][p]) => \A q \in p .. Len(log[k]) : log[k][q] # NoObj /\ log[k][q].fin

\* The versions the informer has not passed are guarded: the finalizer goes only
\* by the hand of a worker that has seen the deletion.  The informer's array has
\* the length of the version's, and until its deletion no id twice.
History ==
  \A k \in Bindings :
    /\ \A p \in 1 .. Len(log[k]) : Sound(log[k][p])
    /\ \A p \in seen[k] .. Len(log[k]) : Guarded(k, p)
    /\ Len(cached[k]) = Len(IdsOf(log[k][seen[k]]))
    /\ log[k][seen[k]] # NoObj /\ ~log[k][seen[k]].deleting => Distinct(cached[k])

OneWorkerPerKey ==
  /\ \A w \in Workers : pc[w] # "idle" => job[w].key \in queue.processing
  /\ \A v, w \in Workers :
       pc[v] # "idle" /\ pc[w] # "idle" /\ job[v].key = job[w].key => v = w

\* What a worker knows in reconcileUpdate.
Updating(j) ==
  /\ j.key \in Bindings /\ j.at \in 1 .. seen[j.key]
  /\ Held(View(j)) /\ Guarded(j.key, j.at)
  /\ Len(j.ids) = Len(View(j).ids)
  /\ Distinct(j.results)

\* And in reconcileDelete.
Deleting(j) ==
  /\ j.key \in Bindings /\ j.at \in 1 .. seen[j.key]
  /\ View(j) # NoObj /\ View(j).deleting
  /\ Len(j.ids) = Len(View(j).ids)

OnTask(site, j) ==
  /\ j.at \in 1 .. seen[j.key]
  /\ site = "addFinalizer" => View(j) # NoObj /\ ~View(j).deleting /\ ~View(j).fin
  /\ site \in DeleteSites => Deleting(j)
  /\ site \in {"read", "describeDeleted"} => j.i = 1
  /\ site = "describeDeleted" => j.ids # <<>>
  /\ site = "removeAll" => j.i \in 1 .. Len(j.ids)
  /\ site = "removeFinalizer" => j.ids = <<>> \/ View(j).spec.group \notin Alive
  /\ site \in UpdateSites => Updating(j)
  /\ site \in {"getLoadBalancer", "addEndpoint"} => j.hosts # <<>>
  /\ site = "addEndpoint" => Head(j.hosts) \notin IdSet(j.results)
  /\ site = "removeEndpoint" => StaleAt(j) # {}
  /\ site = "updateStatus" => StaleAt(j) = {}

BInv ==
  /\ TypeOK /\ OneWorkerPerKey /\ History
  /\ \A w \in Workers : pc[w] # "idle" => OnTask(pc[w], job[w])

\* What is kept of a binding by steps of others: its versions, and what is known
\* of them.
Continues(k) ==
  /\ Len(log[k]) <= Len(log'[k])
  /\ \A p \in 1 .. Len(log[k]) : log'[k][p] = log[k][p]
  /\ \A p \in 1 .. Len(log[k]) : Guarded(k, p) => Guarded(k, p)'
  /\ seen[k] <= seen'[k]

\* What a step of busy worker w does to everything but its own pc and job.
Step(w) ==
  /\ w \in Workers /\ pc[w] # "idle"
  /\ UNCHANGED <<seen, balancers, active>>
  /\ log' \in LogType /\ cached' \in CachedType
  /\ groups' \in GroupType /\ spent' \in SpentType
  /\ History'
  /\ \A k \in Bindings : seen[k] <= Len(log'[k])
  /\ \A k \in Bindings \ {job[w].key} : Continues(k)
  /\ Alive' \subseteq Alive

-----------------------------------------------------------------------------
(* Control: what Goto, Finish and Restart keep *)

\* What a busy worker can count on.
LEMMA Busy ==
  ASSUME BInv, NEW w \in Workers, pc[w] # "idle"
  PROVE  /\ job[w] \in Jobs /\ job[w].key \in Bindings /\ OnTask(pc[w], job[w])
         /\ job[w].at \in 1 .. seen[job[w].key]
         /\ job[w].at \in 1 .. Len(log[job[w].key])
         /\ View(job[w]) \in Objects \union {NoObj}
<1> DEFINE k == job[w].key
<1>1. job[w] \in Jobs /\ k \in Bindings /\ OnTask(pc[w], job[w])
  BY DEF BInv, TypeOK, Jobs
<1>2. job[w].at \in 1 .. seen[k]
  BY <1>1 DEF OnTask
<1>3. seen[k] \in Nat /\ seen[k] <= Len(log[k]) /\ log[k] \in Seq(Objects \union {NoObj})
  BY <1>1 DEF BInv, TypeOK
<1>4. job[w].at \in 1 .. Len(log[k])
  BY <1>2, <1>3
<1>5. View(job[w]) \in Objects \union {NoObj}
  BY <1>3, <1>4 DEF View
<1> QED BY <1>1, <1>2, <1>4, <1>5

\* A worker that does not move still knows what it knew.
LEMMA OthersKeep ==
  ASSUME BInv, NEW v \in Workers, pc[v] # "idle",
         pc'[v] = pc[v], job'[v] = job[v],
         \A k : k = job[v].key => Continues(k),
         seen' \in [Bindings -> Nat \ {0}], Alive' \subseteq Alive
  PROVE  OnTask(pc[v], job[v])'
<1> DEFINE j == job[v]
           k == j.key
<1>1. /\ j \in Jobs /\ k \in Bindings /\ OnTask(pc[v], j)
      /\ j.at \in 1 .. seen[k] /\ j.at \in 1 .. Len(log[k])
  BY Busy
<1>2. Continues(k)
  OBVIOUS
<1>3. /\ log'[k][j.at] = log[k][j.at]
      /\ Guarded(k, j.at) => Guarded(k, j.at)'
  BY <1>1, <1>2 DEF Continues
<1>4. j.at \in 1 .. seen'[k]
  <2>1. seen[k] \in Nat /\ seen'[k] \in Nat /\ seen[k] <= seen'[k]
    BY <1>1, <1>2 DEF Continues, BInv, TypeOK
  <2> QED BY <1>1, <2>1
<1>5. View(j)' = View(j)
  BY <1>3 DEF View
<1>6. Updating(j) => Updating(j)'
  BY <1>3, <1>4, <1>5 DEF Updating
<1>7. Deleting(j) => Deleting(j)'
  BY <1>4, <1>5 DEF Deleting
<1> QED BY <1>1, <1>4, <1>5, <1>6, <1>7 DEF OnTask, StaleAt

\* A binding whose versions and position stay continues.
LEMMA SameContinues ==
  ASSUME BInv, NEW k \in Bindings, log'[k] = log[k], seen'[k] = seen[k]
  PROVE  Continues(k)
<1>1. Len(log[k]) \in Nat /\ seen[k] \in Nat
  BY DEF BInv, TypeOK
<1> QED BY <1>1 DEF Continues, Guarded

\* A call after which worker w goes on keeps BInv, if it knows what the next call
\* needs.
LEMMA GotoKeeps ==
  ASSUME BInv, NEW w, Step(w), log' = log, NEW site \in Sites, NEW j \in Jobs,
         j.key = job[w].key, Goto(w, site, j), OnTask(site, j)
  PROVE  BInv'
<1>1. site # "idle" /\ j # NoJob
  BY NullAssumption DEF Sites, DeleteSites, UpdateSites
<1>2. /\ pc' = [pc EXCEPT ![w] = site] /\ job' = [job EXCEPT ![w] = j]
      /\ queue' = queue /\ seen' = seen
  BY DEF Goto
<1>3. w \in Workers /\ pc[w] # "idle"
  BY DEF Step
<1>4. pc' \in [Workers -> Sites \union {"idle"}] /\ job' \in [Workers -> Jobs \union {NoJob}]
  BY <1>2 DEF BInv, TypeOK
<1>5. TypeOK'
  BY <1>1, <1>2, <1>4 DEF BInv, TypeOK, Step, LogType, CachedType, GroupType, SpentType
<1>6. OneWorkerPerKey'
  BY <1>2, <1>3 DEF BInv, OneWorkerPerKey, TypeOK
<1>7. ASSUME NEW v \in Workers, pc'[v] # "idle"
      PROVE  OnTask(pc[v], job[v])'
  <2>1. CASE v = w
    <3>1. pc'[v] = site /\ job'[v] = j
      BY <1>2, <2>1 DEF BInv, TypeOK
    <3>2. Alive' \subseteq Alive
      BY DEF Step
    <3>3. OnTask(site, j)'
      BY <1>2, <3>2 DEF OnTask, Updating, Deleting, View, Guarded, StaleAt
    <3> QED BY <3>1, <3>3 DEF OnTask
  <2>2. CASE v # w
    <3>1. pc'[v] = pc[v] /\ job'[v] = job[v] /\ pc[v] # "idle"
      BY <1>2, <1>7, <2>2 DEF BInv, TypeOK
    <3>2. job[v].key \in Bindings
      BY <3>1, Busy
    <3>3. Continues(job[v].key)
      BY <1>2, <3>2, SameContinues
    <3>4. seen' \in [Bindings -> Nat \ {0}] /\ Alive' \subseteq Alive
      BY <1>2 DEF BInv, TypeOK, Step
    <3> QED BY <3>1, <3>3, <3>4, OthersKeep
  <2> QED BY <2>1, <2>2
<1>8. History'
  BY DEF Step
<1> QED BY <1>5, <1>6, <1>7, <1>8 DEF BInv

\* The end of a pass keeps BInv: the queue lets go of the key and so does the
\* worker.
LEMMA FinishKeeps ==
  ASSUME BInv, NEW w, Step(w), NEW res, Finish(w, res)
  PROVE  BInv'
<1> DEFINE k == job[w].key
<1>1. /\ pc' = [pc EXCEPT ![w] = "idle"] /\ job' = [job EXCEPT ![w] = NoJob]
      /\ queue' \in {Done(Add(queue, k), k), Done(queue, k)}
      /\ seen' = seen
  BY DEF Finish
<1>2. w \in Workers /\ pc[w] # "idle" /\ k \in Bindings
  BY Busy DEF Step
<1>3. queue' \in QueueOver(Bindings) /\ queue'.processing = queue.processing \ {k}
  <2> HIDE DEF k
  <2>1. queue \in QueueOver(Bindings)
    BY DEF BInv, TypeOK
  <2>2. ASSUME NEW q \in QueueOver(Bindings)
        PROVE  /\ Add(q, k) \in QueueOver(Bindings) /\ Add(q, k).processing = q.processing
               /\ Done(q, k) \in QueueOver(Bindings)
               /\ Done(q, k).processing = q.processing \ {k}
    BY <1>2 DEF Done, Add, QueueOver
  <2> QED BY <1>1, <2>1, <2>2
<1>4. TypeOK'
  <2>1. pc' \in [Workers -> Sites \union {"idle"}] /\ job' \in [Workers -> Jobs \union {NoJob}]
    BY <1>1 DEF BInv, TypeOK
  <2> QED BY <1>1, <1>3, <2>1 DEF BInv, TypeOK, Step, LogType, CachedType, GroupType, SpentType
<1>5. ASSUME NEW v \in Workers, pc'[v] # "idle"
      PROVE  /\ v # w /\ pc[v] # "idle" /\ pc'[v] = pc[v] /\ job'[v] = job[v]
             /\ job[v].key \in Bindings \ {k}
             /\ job[v].key \in queue'.processing
  <2>1. v # w /\ pc'[v] = pc[v] /\ job'[v] = job[v] /\ pc[v] # "idle"
    BY <1>1, <1>5 DEF BInv, TypeOK
  <2>2. job[v].key \in Bindings
    BY <2>1, Busy
  <2>3. job[v].key # k /\ job[v].key \in queue.processing
    BY <1>2, <2>1 DEF BInv, OneWorkerPerKey
  <2> QED BY <1>3, <2>1, <2>2, <2>3
<1>6. OneWorkerPerKey'
  BY <1>5 DEF BInv, OneWorkerPerKey
<1>7. ASSUME NEW v \in Workers, pc'[v] # "idle"
      PROVE  OnTask(pc[v], job[v])'
  <2>1. \A h : h = job[v].key => Continues(h)
    BY <1>5, <1>7 DEF Step
  <2>2. seen' \in [Bindings -> Nat \ {0}] /\ Alive' \subseteq Alive
    BY <1>1 DEF BInv, TypeOK, Step
  <2> QED BY <1>5, <1>7, <2>1, <2>2, OthersKeep
<1>8. History'
  BY DEF Step
<1> QED BY <1>4, <1>6, <1>7, <1>8 DEF BInv

\* A new process keeps BInv: it lists every binding and no worker has a key.
LEMMA RestartKeeps ==
  ASSUME BInv, Restart, UNCHANGED <<log, balancers, active>>,
         groups' \in GroupType, spent' \in SpentType
  PROVE  BInv'
<1>1. \A k \in Bindings : Len(log[k]) \in Nat \ {0}
  BY DEF BInv, TypeOK
<1>2. \A k \in Bindings : Obj(k) \in Objects \union {NoObj}
  BY <1>1 DEF BInv, TypeOK, Obj
<1>3. \A k \in Bindings : IdsOf(Obj(k)) \in Ids
  <2>1. \A v \in Objects : v.ids \in Ids
    BY SeqMonotonic DEF Objects, Ids
  <2>2. <<>> \in Ids
    BY DEF Ids
  <2> QED BY <1>2, <2>1, <2>2 DEF IdsOf
<1>4. seen' = [k \in Bindings |-> Len(log[k])] /\ cached' = [k \in Bindings |-> IdsOf(Obj(k))]
  BY DEF Restart
<1>5. queue' \in QueueOver(Bindings)
  BY DEF Restart, EmptyQueue, QueueOver
<1>6. pc' = [w \in Workers |-> "idle"] /\ job' = [w \in Workers |-> NoJob]
  BY DEF Restart
<1>7. TypeOK'
  BY <1>1, <1>3, <1>4, <1>5, <1>6 DEF BInv, TypeOK, GroupType, SpentType
<1>8. ASSUME NEW k \in Bindings
      PROVE  (/\ \A p \in 1 .. Len(log[k]) : Sound(log[k][p])
              /\ \A p \in seen[k] .. Len(log[k]) : Guarded(k, p)
              /\ Len(cached[k]) = Len(IdsOf(log[k][seen[k]]))
              /\ log[k][seen[k]] # NoObj /\ ~log[k][seen[k]].deleting => Distinct(cached[k]))'
  <2>1. \A p \in 1 .. Len(log[k]) : Sound(log[k][p])
    BY DEF BInv, History
  <2>2. seen'[k] = Len(log[k]) /\ cached'[k] = IdsOf(log[k][Len(log[k])])
    BY <1>4 DEF Obj
  <2>3. Guarded(k, Len(log[k]))'
    BY <1>1 DEF Guarded, Held
  <2>4. Sound(log[k][Len(log[k])])
    BY <1>1, <2>1
  <2>5. log[k][Len(log[k])] # NoObj => Distinct(cached'[k])
    BY <2>2, <2>4 DEF Sound, IdsOf
  <2>6. \A p \in seen'[k] .. Len(log'[k]) : p = Len(log[k])
    BY <1>1, <2>2
  <2>7. (\A p \in seen[k] .. Len(log[k]) : Guarded(k, p))'
    BY <2>3, <2>6
  <2> QED BY <2>1, <2>2, <2>5, <2>7
<1>9. History'
  BY <1>8 DEF History
<1> QED BY <1>6, <1>7, <1>9 DEF BInv, OneWorkerPerKey

-----------------------------------------------------------------------------
(* Calls: what they do to the groups and to the array of the informer's copy *)

\* A call to AWS leaves every endpoint group in being, and the bindings alone.
Quiet ==
  /\ UNCHANGED <<log, balancers, active>>
  /\ groups' \in GroupType /\ Alive' = Alive /\ spent' \in SpentType

\* An answered or failed call writes what it writes or nothing.
LEMMA CallWrites ==
  ASSUME BInv, NEW w, NEW allowed, NEW new, Answers(allowed, new) \/ Fails(w, allowed, new)
  PROVE  /\ groups' \in {groups, new} /\ spent' \in SpentType
         /\ groups' # groups => allowed
<1>1. groups' \in {groups, new} /\ (groups' # groups => allowed)
  BY DEF Answers, Fails
<1>2. spent' \in {spent, [spent EXCEPT !.faults = spent.faults + 1]}
  BY DEF Answers, Fails, Faulty
<1>3. spent \in SpentType
  BY DEF BInv, TypeOK, SpentType
<1>4. spent' \in SpentType
  BY <1>2, <1>3 DEF SpentType
<1> QED BY <1>1, <1>4

\* A call that only reads is quiet.
LEMMA ReadCall ==
  ASSUME BInv, UNCHANGED <<log, balancers, active>>, NEW w, NEW allowed,
         Answers(allowed, groups) \/ Fails(w, allowed, groups)
  PROVE  Quiet
<1>1. groups' = groups /\ spent' \in SpentType
  BY CallWrites
<1> QED BY <1>1 DEF Quiet, Alive, BInv, TypeOK, GroupType

\* A call that writes an endpoint group that exists is quiet.
LEMMA WriteCall ==
  ASSUME BInv, UNCHANGED <<log, balancers, active>>, NEW w, NEW allowed,
         NEW g \in Groups, NEW r, allowed => groups[g] # NoGroup,
         groups[g] # NoGroup => r \in [LBs -> Weights \union {None}],
         \/ Answers(allowed, [groups EXCEPT ![g] = r])
         \/ Fails(w, allowed, [groups EXCEPT ![g] = r])
  PROVE  Quiet
<1> DEFINE new == [groups EXCEPT ![g] = r]
<1>1. /\ groups' \in {groups, new} /\ spent' \in SpentType
      /\ groups' # groups => allowed
  <2>1. Answers(allowed, new) \/ Fails(w, allowed, new)
    OBVIOUS
  <2> HIDE DEF new
  <2> QED BY <2>1, CallWrites
<1>2. groups \in GroupType
  BY DEF BInv, TypeOK, GroupType
<1>3. CASE groups' = groups
  BY <1>1, <1>2, <1>3 DEF Quiet, Alive
<1>4. CASE groups' # groups
  <2>1. groups' = new /\ groups[g] # NoGroup /\ r \in [LBs -> Weights \union {None}]
    BY <1>1, <1>4
  <2>2. r # NoGroup
    BY <2>1, NullAssumption
  <2>3. groups' \in GroupType
    BY <1>2, <2>1 DEF GroupType
  <2>4. \A h \in Groups : groups'[h] # NoGroup <=> groups[h] # NoGroup
    BY <1>2, <2>1, <2>2 DEF GroupType
  <2> QED BY <1>1, <2>3, <2>4 DEF Quiet, Alive
<1> QED BY <1>3, <1>4

\* The facts of Step that do not depend on the informer's copies.
LEMMA QuietBindings ==
  ASSUME BInv, Quiet, seen' = seen
  PROVE  /\ log' = log /\ log' \in LogType /\ Alive' \subseteq Alive
         /\ \A k \in Bindings : seen[k] <= Len(log'[k]) /\ Continues(k)
<1>1. log' = log
  BY DEF Quiet
<1>2. \A k \in Bindings : Continues(k)
  BY <1>1, SameContinues
<1> QED BY <1>1, <1>2 DEF BInv, TypeOK, LogType, Quiet

\* A quiet call that leaves the informer's copies alone.
LEMMA QuietStep ==
  ASSUME BInv, NEW w \in Workers, pc[w] # "idle", Quiet, seen' = seen, cached' = cached
  PROVE  Step(w) /\ log' = log
<1>1. /\ log' = log /\ log' \in LogType /\ Alive' \subseteq Alive
      /\ \A k \in Bindings : seen[k] <= Len(log'[k]) /\ Continues(k)
  BY QuietBindings
<1>2. History'
  BY <1>1 DEF BInv, History, Guarded
<1>3. cached' \in CachedType
  BY DEF BInv, TypeOK, CachedType
<1> QED BY <1>1, <1>2, <1>3 DEF Step, Quiet

\* A quiet call after which the worker edits the array of the version it read.
LEMMA EditStep ==
  ASSUME BInv, NEW w \in Workers, pc[w] # "idle", Quiet, seen' = seen,
         NEW j, j.key = job[w].key, NEW array \in Ids,
         Len(array) = Len(IdsOf(View(j))),
         View(j) # NoObj /\ ~View(j).deleting => Distinct(array),
         EditsArray(j, array)
  PROVE  Step(w) /\ log' = log
<1> DEFINE k == job[w].key
<1>1. /\ log' = log /\ log' \in LogType /\ Alive' \subseteq Alive
      /\ \A h \in Bindings : seen[h] <= Len(log'[h]) /\ Continues(h)
  BY QuietBindings
<1>2. CASE cached' = cached
  BY <1>2, QuietStep
<1>3. CASE cached' # cached
  <2>1. seen[k] = j.at /\ cached' = [cached EXCEPT ![k] = array]
    BY <1>3 DEF EditsArray
  <2>2. k \in Bindings /\ cached \in CachedType
    BY Busy DEF BInv, TypeOK, CachedType
  <2>3. cached' \in CachedType
    BY <2>1, <2>2 DEF CachedType
  <2>4. cached'[k] = array /\ \A h \in Bindings \ {k} : cached'[h] = cached[h]
    BY <2>1, <2>2 DEF CachedType
  <2>5. View(j) = log[k][seen[k]]
    BY <2>1 DEF View
  <2>6. ASSUME NEW h \in Bindings
        PROVE  /\ Len(cached'[h]) = Len(IdsOf(log[h][seen[h]]))
               /\ log[h][seen[h]] # NoObj /\ ~log[h][seen[h]].deleting => Distinct(cached'[h])
    <3>1. CASE h = k
      BY <2>4, <2>5, <3>1
    <3>2. CASE h # k
      BY <2>4, <3>2 DEF BInv, History
    <3> QED BY <3>1, <3>2
  <2>7. History'
    BY <1>1, <2>6 DEF BInv, History, Guarded
  <2> QED BY <1>1, <2>3, <2>7 DEF Step, Quiet
<1> QED BY <1>2, <1>3

-----------------------------------------------------------------------------
(* The continuations of reconcileUpdate *)

\* The array the worker leaves behind is as long as it was and names no endpoint
\* twice.
LEMMA PaddedProps ==
  ASSUME NEW j \in Jobs, Distinct(j.results)
  PROVE  /\ Padded(j) \in Ids /\ Len(Padded(j)) = Len(j.ids)
         /\ Distinct(Padded(j))
<1> DEFINE s == j.ids
           t == j.results
<1>1. s \in Ids /\ t \in Ids
  BY DEF Jobs
<1>2. /\ Len(s) \in Nat /\ DOMAIN s = 1 .. Len(s)
      /\ Len(t) \in Nat /\ DOMAIN t = 1 .. Len(t)
  BY <1>1 DEF Ids
<1>3. \A p \in DOMAIN t : t[p] \in LBs \union {Blank}
  BY <1>1, <1>2 DEF Ids
<1> HIDE DEF s, t
<1>4. Padded(j) = [p \in 1 .. Len(s) |-> IF p \in DOMAIN t THEN t[p] ELSE Blank]
  BY <1>2 DEF Padded, s, t
<1>5. Padded(j) \in Ids /\ Len(Padded(j)) = Len(s)
  BY <1>2, <1>3, <1>4 DEF Ids
<1>6. \A m, n \in DOMAIN t : t[m] = t[n] /\ t[m] # Blank => m = n
  BY DEF Distinct, t
<1>7. Distinct(Padded(j))
  BY <1>4, <1>6 DEF Distinct
<1> QED BY <1>5, <1>7 DEF s

\* A job about the key worker w has.
Same(w, j) == j \in Jobs /\ j.key = job[w].key

\* The next call of reconcileUpdate keeps BInv.
LEMMA ProceedKeeps ==
  ASSUME BInv, NEW w \in Workers, pc[w] # "idle", Quiet,
         NEW j, Same(w, j), Updating(j), Proceed(w, j)
  PROVE  BInv'
<1>1. CASE Panic
  <2>1. UNCHANGED <<log, balancers, active>> /\ groups' \in GroupType /\ spent' \in SpentType
    BY DEF Quiet
  <2> QED BY <1>1, <2>1, RestartKeeps DEF Panic
<1>2. ASSUME NEW site \in UpdateSites, EditsArray(j, Padded(j)), Goto(w, site, j),
             site \notin {"getLoadBalancer", "addEndpoint"},
             site = "removeEndpoint" => StaleAt(j) # {},
             site = "updateStatus" => StaleAt(j) = {}
      PROVE  BInv'
  <2>1. j \in Jobs /\ j.key = job[w].key
    BY DEF Same
  <2>2. /\ Padded(j) \in Ids /\ Len(Padded(j)) = Len(j.ids) /\ Distinct(Padded(j))
    BY <2>1, PaddedProps DEF Updating
  <2>3. Len(Padded(j)) = Len(IdsOf(View(j)))
    BY <2>2 DEF Updating, Held, IdsOf
  <2>4. Step(w) /\ log' = log
    <3>1. seen' = seen
      BY <1>2 DEF Goto
    <3> QED BY <1>2, <2>1, <2>2, <2>3, <3>1, EditStep
  <2>5. OnTask(site, j)
    BY <1>2 DEF OnTask, UpdateSites, DeleteSites, Updating
  <2> QED BY <1>2, <2>1, <2>4, <2>5, GotoKeeps DEF Sites
<1> QED BY <1>1, <1>2 DEF Proceed, UpdateSites

\* The look for something to do keeps BInv.
LEMMA PlansKeeps ==
  ASSUME BInv, NEW w \in Workers, pc[w] # "idle", Quiet,
         NEW j, Same(w, j), Updating(j), Plans(w, j)
  PROVE  BInv'
<1>1. CASE Finish(w, "ok")
  <2>1. Step(w)
    BY <1>1, QuietStep DEF Finish
  <2> QED BY <1>1, <2>1, FinishKeeps
<1>2. CASE Goto(w, "describe", j) /\ UNCHANGED cached
  <2>1. Step(w) /\ log' = log
    BY <1>2, QuietStep DEF Goto
  <2>2. OnTask("describe", j)
    BY DEF OnTask, UpdateSites, DeleteSites, Updating
  <2> QED BY <1>2, <2>1, <2>2, GotoKeeps DEF Same, Sites, UpdateSites
<1> QED BY <1>1, <1>2 DEF Plans

\* A job that differs from one of reconcileUpdate only in what else it knows.
LEMMA UpdatingStays ==
  ASSUME NEW j, NEW h, Updating(j), h.key = j.key, h.at = j.at, h.ids = j.ids,
         Distinct(h.results)
  PROVE  Updating(h)
BY DEF Updating, View

\* The look at the hostnames of the service or ingress keeps BInv.
LEMMA LooksKeeps ==
  ASSUME BInv, NEW w \in Workers, pc[w] # "idle", Quiet,
         NEW j, Same(w, j), Updating(j), View(j) \in Objects, Looks(w, j)
  PROVE  BInv'
<1> DEFINE ref == View(j).spec.ref
           hosts == IF ref = None THEN <<>> ELSE balancers[ref]
<1>1. CASE hosts = NoObj /\ Finish(w, "err")
  <2>1. Step(w)
    BY <1>1, QuietStep DEF Finish
  <2> QED BY <1>1, <2>1, FinishKeeps
<1>2. CASE Plans(w, j)
  BY <1>2, PlansKeeps
<1>3. CASE /\ hosts # NoObj /\ hosts # <<>>
           /\ Goto(w, "getLoadBalancer", [j EXCEPT !.hosts = hosts])
           /\ UNCHANGED cached
  <2> DEFINE h == [j EXCEPT !.hosts = hosts]
  <2>1. ref \in Refs \union {None}
    BY DEF Objects, Specs
  <2>2. hosts \in Seq(LBs)
    BY <1>3, <2>1 DEF BInv, TypeOK
  <2> HIDE DEF hosts, ref
  <2>3. j \in Jobs /\ j.key = job[w].key
    BY DEF Same
  <2>4. h \in Jobs /\ h.key = job[w].key /\ h.hosts = hosts
    BY <2>2, <2>3 DEF Jobs
  <2>5. h.key = j.key /\ h.at = j.at /\ h.ids = j.ids /\ h.results = j.results
    BY <2>3 DEF Jobs
  <2>6. Goto(w, "getLoadBalancer", h)
    BY <1>3
  <2> HIDE DEF h
  <2>7. Updating(h)
    BY <2>5, UpdatingStays DEF Updating
  <2>8. OnTask("getLoadBalancer", h)
    BY <1>3, <2>4, <2>7 DEF OnTask, UpdateSites, DeleteSites, Updating
  <2>9. Step(w) /\ log' = log
    BY <1>3, QuietStep DEF Goto
  <2> QED BY <2>4, <2>6, <2>8, <2>9, GotoKeeps DEF Sites, UpdateSites
<1> QED BY <1>1, <1>2, <1>3 DEF Looks

-----------------------------------------------------------------------------
(* Writes to the API server *)

\* A new version at the end of a binding's log keeps History, if it keeps the
\* finalizer of the versions the informer may still hand out.
LEMMA AppendKeeps ==
  ASSUME BInv, NEW k \in Bindings, NEW v \in Objects \union {NoObj}, Sound(v),
         log' = [log EXCEPT ![k] = Append(log[k], v)], seen' = seen, cached' = cached,
         \A p \in seen[k] .. Len(log[k]) : Held(log[k][p]) => v # NoObj /\ v.fin
  PROVE  /\ log' \in LogType /\ History'
         /\ Len(log'[k]) = Len(log[k]) + 1 /\ log'[k][Len(log[k]) + 1] = v
         /\ \A p \in 1 .. Len(log[k]) : log'[k][p] = log[k][p]
         /\ \A h \in Bindings \ {k} : log'[h] = log[h]
<1> DEFINE s == log[k]
           n == Len(s)
<1>1. /\ s \in Seq(Objects \union {NoObj}) /\ n \in Nat \ {0}
      /\ seen[k] \in Nat \ {0} /\ seen[k] <= n
  BY DEF BInv, TypeOK
<1>2. /\ Append(s, v) \in Seq(Objects \union {NoObj})
      /\ Len(Append(s, v)) = n + 1 /\ Append(s, v)[n + 1] = v
      /\ \A p \in 1 .. n : Append(s, v)[p] = s[p]
  BY <1>1
<1>3. log'[k] = Append(s, v) /\ \A h \in Bindings \ {k} : log'[h] = log[h]
  BY DEF BInv, TypeOK
<1>4. log' \in LogType
  <2>1. Append(s, v) # <<>>
    BY <1>1, <1>2
  <2> QED BY <1>2, <2>1 DEF BInv, TypeOK, LogType
<1>5. \A p \in 1 .. n + 1 : Sound(log'[k][p])
  <2>1. \A p \in 1 .. n : Sound(s[p])
    BY DEF BInv, History
  <2> QED BY <1>1, <1>2, <1>3, <2>1
<1>6. ASSUME NEW p \in seen[k] .. n + 1
      PROVE  Guarded(k, p)'
  <2>1. CASE p = n + 1
    BY <1>1, <1>2, <1>3, <2>1 DEF Guarded, Held
  <2>2. CASE p # n + 1
    <3>1. p \in seen[k] .. n /\ p \in 1 .. n
      BY <1>1, <2>2
    <3>2. Guarded(k, p) /\ (Held(s[p]) => v # NoObj /\ v.fin)
      BY <3>1 DEF BInv, History
    <3>3. SUFFICES ASSUME Held(s[p]), NEW q \in p .. n + 1
                   PROVE  log'[k][q] # NoObj /\ log'[k][q].fin
      BY <1>2, <1>3, <3>1 DEF Guarded
    <3>4. CASE q = n + 1
      BY <1>2, <1>3, <3>2, <3>3, <3>4
    <3>5. CASE q # n + 1
      <4>1. q \in p .. n /\ q \in 1 .. n
        BY <1>1, <3>1, <3>5
      <4> QED BY <1>2, <1>3, <3>2, <3>3, <4>1 DEF Guarded
    <3> QED BY <3>4, <3>5
  <2> QED BY <2>1, <2>2
<1>7. log'[k][seen[k]] = log[k][seen[k]]
  BY <1>1, <1>2, <1>3
<1>8. ASSUME NEW h \in Bindings
      PROVE  (/\ \A p \in 1 .. Len(log[h]) : Sound(log[h][p])
              /\ \A p \in seen[h] .. Len(log[h]) : Guarded(h, p)
              /\ Len(cached[h]) = Len(IdsOf(log[h][seen[h]]))
              /\ log[h][seen[h]] # NoObj /\ ~log[h][seen[h]].deleting => Distinct(cached[h]))'
  <2>1. CASE h = k
    <3>1. Len(log'[k]) = n + 1
      BY <1>2, <1>3
    <3>2. /\ Len(cached[k]) = Len(IdsOf(log[k][seen[k]]))
          /\ log[k][seen[k]] # NoObj /\ ~log[k][seen[k]].deleting => Distinct(cached[k])
      BY DEF BInv, History
    <3> QED BY <1>5, <1>6, <1>7, <2>1, <3>1, <3>2
  <2>2. CASE h # k
    BY <1>3, <2>2 DEF BInv, History, Guarded
  <2> QED BY <2>1, <2>2
<1>9. History'
  BY <1>8 DEF History
<1> QED BY <1>2, <1>3, <1>4, <1>9

\* Update and UpdateStatus keep BInv, if what they write is sound and keeps the
\* finalizer of a version that is not being deleted.
LEMMA WriteKeeps ==
  ASSUME BInv, NEW w \in Workers, pc[w] # "idle", NEW v \in Objects \union {NoObj}, NEW res,
         Sound(v), Held(View(job[w])) => v # NoObj /\ v.fin,
         Write(w, v, res)
  PROVE  BInv'
<1> DEFINE k == job[w].key
           appended == [log EXCEPT ![k] = Append(log[k], v)]
<1>1. /\ UNCHANGED <<balancers, groups, active>>
      /\ \E r : Finish(w, r)
      /\ spent' \in {spent, [spent EXCEPT !.faults = spent.faults + 1]}
      /\ log' \in {log, appended}
      /\ log' # log => job[w].at = Len(log[k])
  BY DEF Write, Commit, Faulty
<1>2. seen' = seen /\ cached' = cached
  BY <1>1 DEF Finish
<1>3. groups' \in GroupType /\ spent' \in SpentType /\ Alive' = Alive
  <2>1. spent \in SpentType /\ groups \in GroupType
    BY DEF BInv, TypeOK, SpentType, GroupType
  <2>2. spent' \in SpentType
    BY <1>1, <2>1 DEF SpentType
  <2> QED BY <1>1, <2>1, <2>2 DEF Alive
<1>4. CASE log' = log
  <2>1. Quiet
    BY <1>1, <1>3, <1>4 DEF Quiet
  <2>2. Step(w)
    BY <1>2, <2>1, QuietStep
  <2> QED BY <1>1, <2>2, FinishKeeps
<1>5. CASE log' # log
  <2>1. /\ k \in Bindings /\ job[w].at \in 1 .. seen[k] /\ job[w].at = Len(log[k])
        /\ log' = appended
    BY <1>1, <1>5, Busy
  <2>2. seen[k] = Len(log[k]) /\ Len(log[k]) \in Nat
    BY <2>1 DEF BInv, TypeOK
  <2>3. \A p \in seen[k] .. Len(log[k]) : Held(log[k][p]) => v # NoObj /\ v.fin
    BY <2>1, <2>2 DEF View
  <2>4. /\ log' \in LogType /\ History'
        /\ Len(log'[k]) = Len(log[k]) + 1
        /\ \A h \in Bindings \ {k} : log'[h] = log[h]
    BY <1>2, <2>1, <2>3, AppendKeeps
  <2>5. \A h \in Bindings \ {k} : Continues(h)
    BY <1>2, <2>4, SameContinues
  <2>6. \A h \in Bindings : seen[h] <= Len(log'[h])
    <3>1. \A h \in Bindings : seen[h] <= Len(log[h]) /\ Len(log[h]) \in Nat /\ seen[h] \in Nat
      BY DEF BInv, TypeOK
    <3> QED BY <2>2, <2>4, <3>1
  <2>7. cached' \in CachedType
    BY <1>2 DEF BInv, TypeOK, CachedType
  <2>8. Step(w)
    BY <1>1, <1>2, <1>3, <2>4, <2>5, <2>6, <2>7 DEF Step
  <2> QED BY <1>1, <2>8, FinishKeeps
<1> QED BY <1>4, <1>5

-----------------------------------------------------------------------------
(* The steps of a worker *)

\* What Busy says of the version a worker about to write goes by.
LEMMA Viewed ==
  ASSUME BInv, NEW w \in Workers, pc[w] # "idle", View(job[w]) # NoObj
  PROVE  /\ View(job[w]) \in Objects /\ Sound(View(job[w]))
         /\ View(job[w]).spec.group \in Groups
<1>1. View(job[w]) \in Objects /\ job[w].key \in Bindings
      /\ job[w].at \in 1 .. Len(log[job[w].key])
  BY Busy
<1>2. Sound(View(job[w]))
  BY <1>1 DEF BInv, History, View
<1>3. View(job[w]).spec.group \in Groups
  BY <1>1 DEF Objects, Specs
<1> QED BY <1>1, <1>2, <1>3

\* What a worker in reconcileUpdate can count on.
LEMMA BusyUpdating ==
  ASSUME BInv, NEW w \in Workers, pc[w] \in UpdateSites
  PROVE  /\ pc[w] # "idle" /\ job[w] \in Jobs /\ Same(w, job[w]) /\ Updating(job[w])
         /\ job[w].results \in Seq(LBs \union {Blank}) /\ job[w].arns \subseteq LBs
         /\ Distinct(job[w].results)
         /\ View(job[w]) # NoObj /\ View(job[w]) \in Objects
         /\ View(job[w]).spec.group \in Groups
         /\ Group(job[w]) = groups[View(job[w]).spec.group]
         /\ job[w].at \in 1 .. seen[job[w].key]
<1>1. pc[w] # "idle"
  BY DEF UpdateSites
<1>2. job[w] \in Jobs /\ Updating(job[w]) /\ job[w].at \in 1 .. seen[job[w].key]
  BY <1>1, Busy DEF OnTask
<1>3. job[w].results \in Seq(LBs \union {Blank}) /\ job[w].arns \subseteq LBs
  BY <1>2 DEF Jobs, Ids
<1>4. View(job[w]) # NoObj /\ Distinct(job[w].results)
  BY <1>2 DEF Updating, Held
<1> QED BY <1>1, <1>2, <1>3, <1>4, Viewed DEF Same, Group

\* RemovedFrom is an update of the group of the version read, which exists and
\* keeps the type of a group.
LEMMA RemovalCall ==
  ASSUME BInv, NEW w \in Workers, pc[w] # "idle", UNCHANGED <<log, balancers, active>>,
         View(job[w]) # NoObj, NEW e, NEW allowed, allowed => Group(job[w]) # NoGroup,
         \/ Answers(allowed, RemovedFrom(job[w], e))
         \/ Fails(w, allowed, RemovedFrom(job[w], e))
  PROVE  Quiet
<1> DEFINE g == View(job[w]).spec.group
           r == [l \in LBs |-> IF l = e THEN None ELSE groups[g][l]]
<1>1. g \in Groups /\ Group(job[w]) = groups[g]
  BY Viewed DEF Group
<1>2. groups[g] # NoGroup => r \in [LBs -> Weights \union {None}]
  BY <1>1 DEF BInv, TypeOK
<1>3. RemovedFrom(job[w], e) = [groups EXCEPT ![g] = r]
  BY DEF RemovedFrom
<1> DEFINE new == [groups EXCEPT ![g] = r]
<1>4. Answers(allowed, new) \/ Fails(w, allowed, new)
  BY <1>3
<1>5. allowed => groups[g] # NoGroup
  BY <1>1
<1> HIDE DEF r, g
<1> QED BY <1>1, <1>2, <1>4, <1>5, WriteCall

\* Every call of a worker but the writes to the API server is quiet: it touches
\* only a group that exists.
LEMMA CallsAreQuiet ==
  ASSUME BInv, NEW w \in Workers,
         \/ Read(w) \/ DescribeDeleted(w) \/ RemoveAll(w)
         \/ GetLoadBalancer(w) \/ DescribeEndpointGroup(w) \/ RemoveEndpoint(w)
         \/ CheckActive(w) \/ AddEndpoint(w) \/ UpdateWeight(w)
  PROVE  Quiet
<1> DEFINE j == job[w]
           g == View(j).spec.group
           exists == Group(j) # NoGroup
<1>1. UNCHANGED <<log, balancers, active>>
  BY DEF Read, DescribeDeleted, RemoveAll, GetLoadBalancer, DescribeEndpointGroup,
         RemoveEndpoint, CheckActive, AddEndpoint, UpdateWeight, Call
<1>2. CASE groups' = groups /\ spent' = spent
  BY <1>1, <1>2 DEF Quiet, Alive, BInv, TypeOK, GroupType, SpentType
<1>3. CASE \E allowed : Answers(allowed, groups) \/ Fails(w, allowed, groups)
  BY <1>1, <1>3, ReadCall
<1>4. CASE RemoveAll(w)
  <2>1. pc[w] # "idle" /\ View(j) # NoObj
    BY <1>4, Busy DEF RemoveAll, Call, OnTask, DeleteSites, Deleting
  <2>2. CASE UNCHANGED <<groups, spent>>
    BY <1>2, <2>2
  <2>3. CASE \/ Answers(exists, RemovedFrom(j, j.ids[j.i]))
             \/ Fails(w, exists, RemovedFrom(j, j.ids[j.i]))
    BY <1>1, <2>1, <2>3, RemovalCall
  <2> QED BY <1>4, <2>2, <2>3 DEF RemoveAll
<1>5. CASE RemoveEndpoint(w)
  <2>1. pc[w] # "idle" /\ View(j) # NoObj
    BY <1>5, BusyUpdating DEF RemoveEndpoint, Call, UpdateSites
  <2>2. PICK e : \E allowed : /\ allowed => exists
                              /\ \/ Answers(allowed, RemovedFrom(j, e))
                                 \/ Fails(w, allowed, RemovedFrom(j, e))
    BY <1>5 DEF RemoveEndpoint
  <2> QED BY <1>1, <2>1, <2>2, RemovalCall
<1>6. ASSUME pc[w] \in {"addEndpoint", "updateWeight"}
      PROVE  /\ g \in Groups /\ Group(j) = groups[g] /\ View(j).spec.weight \in Weights
             /\ groups[g] # NoGroup => groups[g] \in [LBs -> Weights \union {None}]
  <2>1. View(j) \in Objects /\ g \in Groups /\ Group(j) = groups[g]
    BY <1>6, BusyUpdating DEF UpdateSites
  <2> QED BY <2>1 DEF Objects, Specs, BInv, TypeOK
<1>7. CASE AddEndpoint(w)
  <2> DEFINE r == [m \in LBs |-> IF m = Head(j.hosts) THEN View(j).spec.weight ELSE groups[g][m]]
  <2>1. pc[w] = "addEndpoint"
    BY <1>7 DEF AddEndpoint, Call
  <2>2. Answers(exists, [groups EXCEPT ![g] = r]) \/ Fails(w, exists, [groups EXCEPT ![g] = r])
    BY <1>7 DEF AddEndpoint
  <2>3. exists => groups[g] # NoGroup
    BY <1>6, <2>1
  <2>4. groups[g] # NoGroup => r \in [LBs -> Weights \union {None}]
    <3> HIDE DEF j, g
    <3> QED BY <1>6, <2>1
  <2> HIDE DEF j, g, exists, r
  <2> QED BY <1>1, <1>6, <2>1, <2>2, <2>3, <2>4, WriteCall
<1>8. CASE UpdateWeight(w)
  <2>1. pc[w] = "updateWeight"
    BY <1>8 DEF UpdateWeight, Call
  <2>2. PICK l : LET r == [m \in LBs |-> IF m = l THEN View(j).spec.weight ELSE None]
                 IN  \/ Answers(exists, [groups EXCEPT ![g] = r])
                     \/ Fails(w, exists, [groups EXCEPT ![g] = r])
    BY <1>8 DEF UpdateWeight
  <2> DEFINE r == [m \in LBs |-> IF m = l THEN View(j).spec.weight ELSE None]
  <2>3. Answers(exists, [groups EXCEPT ![g] = r]) \/ Fails(w, exists, [groups EXCEPT ![g] = r])
    BY <2>2
  <2>4. exists => groups[g] # NoGroup
    BY <1>6, <2>1
  <2>5. groups[g] # NoGroup => r \in [LBs -> Weights \union {None}]
    <3> HIDE DEF j, g
    <3> QED BY <1>6, <2>1
  <2> HIDE DEF j, g, exists, r
  <2> QED BY <1>1, <1>6, <2>1, <2>3, <2>4, <2>5, WriteCall
<1>9. CASE Read(w)
  BY <1>2, <1>9 DEF Read
<1>10. CASE DescribeDeleted(w) \/ GetLoadBalancer(w) \/ DescribeEndpointGroup(w) \/ CheckActive(w)
  BY <1>3, <1>10 DEF DescribeDeleted, GetLoadBalancer, DescribeEndpointGroup, CheckActive
<1> QED BY <1>4, <1>5, <1>7, <1>8, <1>9, <1>10

\* A key handed to a worker keeps BInv: no other worker has it.
LEMMA TakeKeeps ==
  ASSUME BInv, NEW w \in Workers, NEW k \in Bindings, Take(w, k)
  PROVE  BInv'
<1> DEFINE j == [key |-> k, at |-> seen[k], ids |-> <<>>, i |-> 1, hosts |-> <<>>,
                 arns |-> {}, results |-> <<>>, weigh |-> {}]
<1>1. /\ pc[w] = "idle" /\ pc' = [pc EXCEPT ![w] = "read"] /\ job' = [job EXCEPT ![w] = j]
      /\ UNCHANGED <<log, balancers, active, seen, cached, groups, spent>>
      /\ queue' = Get(queue, k) /\ k \in queue.pending \ queue.processing
  BY DEF Take, Call, CanGet
<1>2. j \in Jobs /\ j.key = k /\ j.at = seen[k] /\ j.i = 1
  BY DEF Jobs, Ids, BInv, TypeOK
<1> HIDE DEF j
<1>3. j # NoJob
  BY <1>2, NullAssumption
<1>4. queue' \in QueueOver(Bindings) /\ queue'.processing = queue.processing \union {k}
  <2>1. queue \in QueueOver(Bindings)
    BY DEF BInv, TypeOK
  <2> QED BY <1>1, <2>1 DEF Get, QueueOver
<1>5. TypeOK'
  <2>1. pc' \in [Workers -> Sites \union {"idle"}] /\ job' \in [Workers -> Jobs \union {NoJob}]
    BY <1>1, <1>2 DEF BInv, TypeOK, Sites
  <2>2. \A v \in Workers : (pc'[v] = "idle") <=> (job'[v] = NoJob)
    BY <1>1, <1>3 DEF BInv, TypeOK
  <2> QED BY <1>1, <1>4, <2>1, <2>2 DEF BInv, TypeOK
<1>6. ASSUME NEW v \in Workers, pc'[v] # "idle", v # w
      PROVE  pc'[v] = pc[v] /\ job'[v] = job[v] /\ pc[v] # "idle"
             /\ job[v].key \in queue.processing
  BY <1>1, <1>6 DEF BInv, TypeOK, OneWorkerPerKey
<1>7. pc'[w] = "read" /\ job'[w] = j
  BY <1>1 DEF BInv, TypeOK
<1>8. OneWorkerPerKey'
  <2>1. \A v \in Workers : pc'[v] # "idle" => job'[v].key \in queue'.processing
    BY <1>2, <1>4, <1>6, <1>7
  <2>2. ASSUME NEW u \in Workers, NEW v \in Workers, pc'[u] # "idle", pc'[v] # "idle",
               job'[u].key = job'[v].key
        PROVE  u = v
    BY <1>1, <1>2, <1>6, <1>7, <2>2 DEF BInv, OneWorkerPerKey
  <2> QED BY <2>1, <2>2 DEF OneWorkerPerKey
<1>9. ASSUME NEW v \in Workers, pc'[v] # "idle"
      PROVE  OnTask(pc[v], job[v])'
  <2>1. CASE v = w
    <3>1. seen[k] \in Nat \ {0}
      BY DEF BInv, TypeOK
    <3>2. j.at \in 1 .. seen'[j.key]
      BY <1>1, <1>2, <3>1
    <3> QED BY <1>2, <1>7, <2>1, <3>2 DEF OnTask, DeleteSites, UpdateSites
  <2>2. CASE v # w
    <3>1. pc'[v] = pc[v] /\ job'[v] = job[v] /\ pc[v] # "idle"
      BY <1>6, <1>9, <2>2
    <3>2. job[v].key \in Bindings
      BY <3>1, Busy
    <3>3. Continues(job[v].key)
      BY <1>1, <3>2, SameContinues
    <3>4. seen' \in [Bindings -> Nat \ {0}] /\ Alive' \subseteq Alive
      BY <1>1 DEF BInv, TypeOK, Alive
    <3> QED BY <3>1, <3>3, <3>4, OthersKeep
  <2> QED BY <2>1, <2>2
<1>10. History'
  BY <1>1 DEF BInv, History, Guarded
<1> QED BY <1>5, <1>8, <1>9, <1>10 DEF BInv

\* A quiet call that ends the pass.
LEMMA QuietFinish ==
  ASSUME BInv, NEW w \in Workers, pc[w] # "idle", Quiet, NEW res, Finish(w, res)
  PROVE  BInv'
<1>1. Step(w)
  BY QuietStep DEF Finish
<1> QED BY <1>1, FinishKeeps

\* A quiet call after which the worker goes on.
LEMMA QuietGoto ==
  ASSUME BInv, NEW w \in Workers, pc[w] # "idle", Quiet, cached' = cached,
         NEW site \in Sites, NEW j, Same(w, j), Goto(w, site, j), OnTask(site, j)
  PROVE  BInv'
<1>1. Step(w) /\ log' = log
  BY QuietStep DEF Goto
<1> QED BY <1>1, GotoKeeps DEF Same

\* The lister's answer keeps BInv: a job starts from the version and the array the
\* informer has.
LEMMA ReadKeeps ==
  ASSUME BInv, NEW w \in Workers, Read(w)
  PROVE  BInv'
<1> DEFINE k == job[w].key
           v == log[k][seen[k]]
           j == [job[w] EXCEPT !.at = seen[k], !.ids = cached[k], !.results = cached[k]]
<1>1. /\ pc[w] = "read" /\ UNCHANGED <<log, balancers, active, groups, spent>>
  BY DEF Read, Call
<1>2. Quiet
  BY CallsAreQuiet
<1>3. /\ job[w] \in Jobs /\ k \in Bindings /\ job[w].i = 1
  BY <1>1, Busy DEF OnTask
<1>4. /\ cached[k] \in Ids /\ seen[k] \in Nat \ {0} /\ seen[k] <= Len(log[k])
      /\ log[k] \in Seq(Objects \union {NoObj})
  BY <1>3 DEF BInv, TypeOK
<1>5. /\ j \in Jobs /\ j.key = k /\ j.at = seen[k] /\ j.ids = cached[k]
      /\ j.results = cached[k] /\ j.i = 1
  BY <1>3, <1>4 DEF Jobs
<1>6. \/ v = NoObj /\ Finish(w, "ok")
      \/ /\ v # NoObj /\ v.deleting /\ UNCHANGED cached
         /\ Goto(w, IF j.ids = <<>> THEN "removeFinalizer" ELSE "describeDeleted", j)
      \/ v # NoObj /\ ~v.deleting /\ ~v.fin /\ UNCHANGED cached /\ Goto(w, "addFinalizer", j)
      \/ v # NoObj /\ ~v.deleting /\ v.fin /\ Looks(w, j)
  BY DEF Read
<1> HIDE DEF j
<1>7. View(j) = v /\ v \in Objects \union {NoObj} /\ j.at \in 1 .. seen[j.key]
  BY <1>4, <1>5 DEF View
<1>8. /\ seen[k] \in seen[k] .. Len(log[k])
      /\ Len(j.ids) = Len(IdsOf(v))
      /\ v # NoObj /\ ~v.deleting => Distinct(j.results)
  BY <1>3, <1>4, <1>5 DEF BInv, History
<1>9. Guarded(k, seen[k])
  BY <1>3, <1>8 DEF BInv, History
<1>10. Same(w, j)
  BY <1>5 DEF Same
<1> HIDE DEF v
<1>11. CASE v = NoObj /\ Finish(w, "ok")
  BY <1>1, <1>2, <1>11, QuietFinish
<1>12. CASE /\ v # NoObj /\ v.deleting /\ UNCHANGED cached
            /\ Goto(w, IF j.ids = <<>> THEN "removeFinalizer" ELSE "describeDeleted", j)
  <2>1. Deleting(j)
    BY <1>3, <1>5, <1>7, <1>8, <1>12 DEF Deleting, IdsOf
  <2>2. CASE j.ids = <<>>
    <3>1. OnTask("removeFinalizer", j)
      BY <1>7, <2>1, <2>2 DEF OnTask, UpdateSites
    <3> QED BY <1>1, <1>2, <1>10, <1>12, <2>2, <3>1, QuietGoto DEF Sites, DeleteSites
  <2>3. CASE j.ids # <<>>
    <3>1. OnTask("describeDeleted", j)
      BY <1>5, <1>7, <2>1, <2>3 DEF OnTask, UpdateSites
    <3> QED BY <1>1, <1>2, <1>10, <1>12, <2>3, <3>1, QuietGoto DEF Sites, DeleteSites
  <2> QED BY <2>2, <2>3
<1>13. CASE /\ v # NoObj /\ ~v.deleting /\ ~v.fin /\ UNCHANGED cached
            /\ Goto(w, "addFinalizer", j)
  <2>1. OnTask("addFinalizer", j)
    BY <1>7, <1>13 DEF OnTask, UpdateSites, DeleteSites
  <2> QED BY <1>1, <1>2, <1>10, <1>13, <2>1, QuietGoto DEF Sites
<1>14. CASE v # NoObj /\ ~v.deleting /\ v.fin /\ Looks(w, j)
  <2>1. Updating(j)
    BY <1>3, <1>5, <1>7, <1>8, <1>9, <1>14 DEF Updating, Held, IdsOf
  <2>2. View(j) \in Objects
    BY <1>7, <1>14
  <2> QED BY <1>1, <1>2, <1>10, <1>14, <2>1, <2>2, LooksKeeps
<1> QED BY <1>6, <1>11, <1>12, <1>13, <1>14

\* The finalizer comes before anything else.
LEMMA AddFinalizerKeeps ==
  ASSUME BInv, NEW w \in Workers, AddFinalizer(w)
  PROVE  BInv'
<1> DEFINE v == View(job[w])
           new == [v EXCEPT !.fin = TRUE]
<1>1. pc[w] = "addFinalizer" /\ Write(w, new, "ok")
  BY DEF AddFinalizer
<1>2. v # NoObj /\ ~v.deleting /\ ~v.fin
  BY <1>1, Busy DEF OnTask
<1>3. v \in Objects /\ Sound(v)
  BY <1>1, <1>2, Viewed
<1>4. new \in Objects /\ new.ids = v.ids /\ new.fin /\ new # NoObj
  BY <1>3, NullAssumption DEF Objects
<1>5. Sound(new)
  BY <1>2, <1>3, <1>4 DEF Sound
<1> HIDE DEF new, v
<1> QED BY <1>1, <1>4, <1>5, WriteKeeps

\* The finalizer goes from a version whose deletion was seen.
LEMMA RemoveFinalizerKeeps ==
  ASSUME BInv, NEW w \in Workers, RemoveFinalizer(w)
  PROVE  BInv'
<1>1. pc[w] = "removeFinalizer" /\ Write(w, NoObj, "ok")
  BY DEF RemoveFinalizer
<1>2. ~Held(View(job[w]))
  BY <1>1, Busy DEF OnTask, DeleteSites, Deleting, Held
<1>3. Sound(NoObj)
  BY DEF Sound
<1> QED BY <1>1, <1>2, <1>3, WriteKeeps

\* The emptied status of a binding that is being deleted.
LEMMA ClearStatusKeeps ==
  ASSUME BInv, NEW w \in Workers, ClearStatus(w)
  PROVE  BInv'
<1> DEFINE v == View(job[w])
           new == [v EXCEPT !.ids = <<>>, !.observed = TRUE]
<1>1. pc[w] = "clearStatus" /\ Write(w, new, "after")
  BY DEF ClearStatus
<1>2. v # NoObj /\ v.deleting
  BY <1>1, Busy DEF OnTask, DeleteSites, Deleting
<1>3. v \in Objects /\ Sound(v)
  BY <1>1, <1>2, Viewed
<1>4. new \in Objects /\ new.ids = <<>> /\ new.fin = v.fin
  <2> HIDE DEF v
  <2>1. <<>> \in Seq(LBs)
    OBVIOUS
  <2> QED BY <1>3, <2>1 DEF Objects
<1>5. v.fin
  BY <1>2, <1>3 DEF Sound
<1>6. Sound(new)
  BY <1>4, <1>5 DEF Sound, Distinct
<1>7. ~Held(v)
  BY <1>2 DEF Held
<1> HIDE DEF new, v
<1> QED BY <1>1, <1>4, <1>6, <1>7, WriteKeeps DEF v

\* The status reconcileUpdate has arrived at.
LEMMA UpdateStatusKeeps ==
  ASSUME BInv, NEW w \in Workers, UpdateStatus(w)
  PROVE  BInv'
<1> DEFINE j == job[w]
           v == View(j)
           new == [v EXCEPT !.ids = j.results, !.observed = TRUE]
<1>1. pc[w] = "updateStatus" /\ Write(w, new, "ok")
  BY DEF UpdateStatus
<1>2. j \in Jobs /\ Updating(j) /\ StaleAt(j) = {}
  BY <1>1, Busy DEF OnTask, UpdateSites
<1>3. v # NoObj /\ v.fin /\ Distinct(j.results)
  BY <1>2 DEF Updating, Held
<1>4. v \in Objects
  BY <1>1, <1>3, Viewed
<1>5. j.results \in Seq(LBs)
  <2>1. j.results \in Seq(LBs \union {Blank}) /\ j.arns \subseteq LBs
    BY <1>2 DEF Jobs, Ids
  <2>2. \A p \in 1 .. Len(j.results) : j.results[p] \in LBs
    BY <1>2, <2>1 DEF StaleAt
  <2>3. SubSeq(j.results, 1, Len(j.results)) \in Seq(LBs)
    BY <2>1, <2>2, SubSeqProperties
  <2> QED BY <2>1, <2>3, SubSeqFull
<1>6. new \in Objects /\ new.ids = j.results /\ new.fin /\ new # NoObj
  BY <1>3, <1>4, <1>5, NullAssumption DEF Objects
<1>7. Sound(new)
  BY <1>3, <1>6 DEF Sound
<1> HIDE DEF new, v
<1> QED BY <1>1, <1>6, <1>7, WriteKeeps

\* reconcileDelete's look at the group: the finalizer may go if it does not exist.
LEMMA DescribeDeletedKeeps ==
  ASSUME BInv, NEW w \in Workers, DescribeDeleted(w)
  PROVE  BInv'
<1> DEFINE j == job[w]
<1>1. pc[w] = "describeDeleted" /\ UNCHANGED <<log, balancers, active>>
  BY DEF DescribeDeleted, Call
<1>2. /\ j \in Jobs /\ Deleting(j) /\ j.i = 1 /\ j.ids # <<>> /\ j.at \in 1 .. seen[j.key]
      /\ Same(w, j)
  BY <1>1, Busy DEF OnTask, DeleteSites, Same
<1>4. Quiet
  BY CallsAreQuiet
<1>5. CASE Finish(w, "err")
  BY <1>1, <1>4, <1>5, QuietFinish
<1>6. CASE Group(j) = NoGroup /\ Goto(w, "removeFinalizer", j) /\ UNCHANGED cached
  <2>1. View(j).spec.group \notin Alive
    BY <1>6 DEF Group, Alive
  <2>2. OnTask("removeFinalizer", j)
    BY <1>2, <2>1 DEF OnTask, UpdateSites
  <2> QED BY <1>1, <1>2, <1>4, <1>6, <2>2, QuietGoto DEF Sites, DeleteSites
<1>7. CASE Goto(w, "removeAll", j) /\ UNCHANGED cached
  <2>1. j.i \in 1 .. Len(j.ids)
    BY <1>2 DEF Jobs, Ids
  <2>2. OnTask("removeAll", j)
    BY <1>2, <2>1 DEF OnTask, UpdateSites
  <2> QED BY <1>1, <1>2, <1>4, <1>7, <2>2, QuietGoto DEF Sites, DeleteSites
<1> QED BY <1>5, <1>6, <1>7 DEF DescribeDeleted

\* One turn of the loop of reconcileDelete.
LEMMA RemoveAllKeeps ==
  ASSUME BInv, NEW w \in Workers, RemoveAll(w)
  PROVE  BInv'
<1> DEFINE j == job[w]
           n == Len(j.ids)
           left == n - j.i
           cut == [p \in 1 .. n |-> IF p >= j.i /\ p <= left THEN j.ids[p + 1] ELSE j.ids[p]]
           next == [j EXCEPT !.ids = cut, !.i = j.i + 1]
<1>1. pc[w] = "removeAll" /\ UNCHANGED <<log, balancers, active>>
  BY DEF RemoveAll, Call
<1>2. /\ j \in Jobs /\ Deleting(j) /\ j.i \in 1 .. n /\ j.at \in 1 .. seen[j.key]
  BY <1>1, Busy DEF OnTask, DeleteSites
<1>3. j.ids \in Seq(LBs \union {Blank}) /\ n \in Nat
  BY <1>2 DEF Jobs, Ids
<1>4. cut \in Ids /\ Len(cut) = n
  <2>1. \A p \in 1 .. n : cut[p] \in LBs \union {Blank}
    BY <1>2, <1>3
  <2>2. cut \in [1 .. n -> LBs \union {Blank}]
    BY <2>1
  <2> HIDE DEF cut
  <2> QED BY <1>3, <2>2 DEF Ids
<1>5. Quiet
  BY CallsAreQuiet
<1>6. CASE Panic
  BY <1>5, <1>6, RestartKeeps DEF Panic, Quiet
<1>7. CASE Finish(w, "err")
  BY <1>1, <1>5, <1>7, QuietFinish
<1>8. CASE /\ Goto(w, IF j.i < n THEN "removeAll" ELSE "clearStatus", next)
           /\ EditsArray(j, cut)
  <2> HIDE DEF cut
  <2>1. /\ next \in Jobs /\ next.key = j.key /\ next.at = j.at
        /\ next.ids = cut /\ next.i = j.i + 1
    <3>1. j.i + 1 \in Nat
      BY <1>2, <1>3
    <3> HIDE DEF j
    <3> QED BY <1>2, <1>4, <3>1 DEF Jobs
  <2> HIDE DEF next
  <2>2. View(next) = View(j)
    BY <2>1 DEF View
  <2>3. Deleting(next)
    BY <1>2, <1>4, <2>1, <2>2 DEF Deleting
  <2>4. Step(w) /\ log' = log
    <3>1. Len(cut) = Len(IdsOf(View(j))) /\ View(j).deleting
      BY <1>2, <1>4 DEF Deleting, IdsOf
    <3>2. seen' = seen
      BY <1>8 DEF Goto
    <3> QED BY <1>1, <1>4, <1>5, <1>8, <3>1, <3>2, EditStep
  <2>5. CASE j.i < n
    <3>1. next.i \in 1 .. Len(next.ids)
      BY <1>2, <1>3, <1>4, <2>1, <2>5
    <3>2. OnTask("removeAll", next)
      BY <1>2, <2>1, <2>3, <3>1 DEF OnTask, UpdateSites
    <3> QED BY <1>8, <2>1, <2>4, <2>5, <3>2, GotoKeeps DEF Sites, DeleteSites
  <2>6. CASE ~(j.i < n)
    <3>1. OnTask("clearStatus", next)
      BY <1>2, <2>1, <2>3 DEF OnTask, UpdateSites
    <3> QED BY <1>8, <2>1, <2>4, <2>6, <3>1, GotoKeeps DEF Sites, DeleteSites
  <2> QED BY <2>5, <2>6
<1> QED BY <1>6, <1>7, <1>8 DEF RemoveAll

\* A load balancer found keeps BInv.
LEMMA GetLoadBalancerKeeps ==
  ASSUME BInv, NEW w \in Workers, GetLoadBalancer(w)
  PROVE  BInv'
<1> DEFINE j == job[w]
           l == Head(j.hosts)
           found == [j EXCEPT !.hosts = Tail(j.hosts), !.arns = j.arns \union {l},
                              !.weigh = j.weigh \union {l}]
<1>1. pc[w] = "getLoadBalancer" /\ UNCHANGED <<log, balancers, active>>
  BY DEF GetLoadBalancer, Call
<1>2. /\ pc[w] # "idle" /\ j \in Jobs /\ Updating(j) /\ Distinct(j.results)
      /\ j.at \in 1 .. seen[j.key]
  BY <1>1, BusyUpdating DEF UpdateSites
<1>3. j.hosts # <<>> /\ j.hosts \in Seq(LBs)
  BY <1>1, <1>2, Busy DEF OnTask, Jobs
<1>4. l \in LBs /\ Tail(j.hosts) \in Seq(LBs) /\ Len(Tail(j.hosts)) = Len(j.hosts) - 1
  BY <1>3, HeadTailProperties
<1>6. Quiet
  BY CallsAreQuiet
<1>7. /\ found \in Jobs /\ found.key = j.key /\ found.at = j.at /\ found.ids = j.ids
      /\ found.results = j.results /\ found.hosts = Tail(j.hosts)
  <2> HIDE DEF l
  <2> QED BY <1>2, <1>4 DEF Jobs
<1> HIDE DEF found
<1>8. Same(w, found) /\ Updating(found)
  BY <1>2, <1>7, UpdatingStays DEF Same
<1>9. CASE Finish(w, "err")
  BY <1>2, <1>6, <1>9, QuietFinish
<1>10. CASE Plans(w, found)
  BY <1>2, <1>6, <1>8, <1>10, PlansKeeps
<1>11. CASE Len(j.hosts) > 1 /\ Goto(w, "getLoadBalancer", found) /\ UNCHANGED cached
  <2>1. found.hosts # <<>>
    <3>1. Len(Tail(j.hosts)) # 0
      <4>1. Len(j.hosts) > 1 /\ Len(j.hosts) \in Nat
        BY <1>3, <1>11
      <4>2. Len(Tail(j.hosts)) = Len(j.hosts) - 1
        BY <1>4
      <4> DEFINE n == Len(j.hosts)
                 m == Len(Tail(j.hosts))
      <4>3. n > 1 /\ n \in Nat /\ m = n - 1
        BY <4>1, <4>2
      <4> HIDE DEF n, m
      <4>4. m # 0
        BY <4>3
      <4> QED BY <4>4 DEF m
    <3>2. Len(found.hosts) # 0 /\ Len(<<>>) = 0
      BY <1>7, <3>1
    <3> QED BY <3>2
  <2>2. OnTask("getLoadBalancer", found)
    BY <1>2, <1>7, <1>8, <2>1 DEF OnTask, UpdateSites, DeleteSites
  <2> QED BY <1>2, <1>6, <1>8, <1>11, <2>2, QuietGoto DEF Sites, UpdateSites
<1> QED BY <1>9, <1>10, <1>11 DEF GetLoadBalancer, found

\* The description of the group keeps BInv.
LEMMA DescribeEndpointGroupKeeps ==
  ASSUME BInv, NEW w \in Workers, DescribeEndpointGroup(w)
  PROVE  BInv'
<1>1. pc[w] = "describe" /\ UNCHANGED <<log, balancers, active>>
  BY DEF DescribeEndpointGroup, Call
<1>2. pc[w] # "idle" /\ Same(w, job[w]) /\ Updating(job[w])
  BY <1>1, BusyUpdating DEF UpdateSites
<1>4. Quiet
  BY CallsAreQuiet
<1>5. CASE Proceed(w, job[w])
  BY <1>2, <1>4, <1>5, ProceedKeeps
<1>6. CASE Finish(w, "err")
  BY <1>2, <1>4, <1>6, QuietFinish
<1> QED BY <1>5, <1>6 DEF DescribeEndpointGroup

\* An entry cut out of a list leaves no entry twice.
LEMMA WithoutProps ==
  ASSUME NEW S, NEW s \in Seq(S), NEW p \in 1 .. Len(s), Distinct(s)
  PROVE  Without(s, p) \in Seq(S) /\ Distinct(Without(s, p))
<1> DEFINE a == SubSeq(s, 1, p - 1)
           b == SubSeq(s, p + 1, Len(s))
           t == Without(s, p)
<1>1. Len(s) \in Nat /\ \A q \in 1 .. Len(s) : s[q] \in S
  OBVIOUS
<1>2. a \in Seq(S) /\ Len(a) = p - 1 /\ \A q \in 1 .. p - 1 : a[q] = s[q]
  <2>1. \A q \in 1 .. p - 1 : s[q] \in S
    BY <1>1
  <2> QED BY <1>1, <2>1, SubSeqProperties
<1>3. b \in Seq(S) /\ Len(b) = Len(s) - p /\ \A q \in 1 .. Len(s) - p : b[q] = s[p + q]
  <2>1. \A q \in p + 1 .. Len(s) : s[q] \in S
    BY <1>1
  <2>2. /\ SubSeq(s, p + 1, Len(s)) \in Seq(S)
        /\ Len(SubSeq(s, p + 1, Len(s))) = IF p + 1 <= Len(s) THEN Len(s) - (p + 1) + 1 ELSE 0
        /\ \A q \in 1 .. Len(s) - (p + 1) + 1 :
             SubSeq(s, p + 1, Len(s))[q] = s[(p + 1) + q - 1]
    BY <1>1, <2>1, SubSeqProperties
  <2> HIDE DEF b
  <2>3. \A q \in 1 .. Len(s) - p : (p + 1) + q - 1 = p + q
    BY <1>1
  <2> QED BY <1>1, <2>2, <2>3 DEF b
<1> HIDE DEF a, b
<1>4. t \in Seq(S) /\ Len(t) = Len(s) - 1
      /\ \A q \in 1 .. Len(s) - 1 : t[q] = IF q <= p - 1 THEN a[q] ELSE b[q - (p - 1)]
  <2>1. t = a \o b
    BY DEF Without, a, b
  <2> HIDE DEF t
  <2>2. /\ a \o b \in Seq(S) /\ Len(a \o b) = Len(a) + Len(b)
        /\ \A q \in 1 .. Len(a) + Len(b) : (a \o b)[q] = IF q <= Len(a) THEN a[q] ELSE b[q - Len(a)]
    BY <1>2, <1>3, ConcatProperties
  <2>3. Len(a) = p - 1 /\ Len(a) + Len(b) = Len(s) - 1
    BY <1>1, <1>2, <1>3
  <2> QED BY <2>1, <2>2, <2>3
<1> HIDE DEF t
<1>5. \A q \in 1 .. Len(s) - 1 : t[q] = s[IF q < p THEN q ELSE q + 1]
  <2> SUFFICES ASSUME NEW q \in 1 .. Len(s) - 1
               PROVE  t[q] = s[IF q < p THEN q ELSE q + 1]
    OBVIOUS
  <2>1. CASE q < p
    BY <1>1, <1>2, <1>4, <2>1
  <2>2. CASE ~(q < p)
    <3>1. t[q] = b[q - (p - 1)]
      BY <1>1, <1>4, <2>2
    <3>2. q - (p - 1) \in 1 .. Len(s) - p /\ p + (q - (p - 1)) = q + 1
      BY <1>1, <2>2
    <3> QED BY <1>3, <2>2, <3>1, <3>2
  <2> QED BY <2>1, <2>2
<1>6. Distinct(t)
  <2>1. DOMAIN t = 1 .. Len(s) - 1 /\ DOMAIN s = 1 .. Len(s)
    BY <1>4
  <2> SUFFICES ASSUME NEW m \in 1 .. Len(s) - 1, NEW n \in 1 .. Len(s) - 1,
                      t[m] = t[n], t[m] # Blank
               PROVE  m = n
    BY <2>1 DEF Distinct
  <2> DEFINE f(q) == IF q < p THEN q ELSE q + 1
  <2>2. f(m) \in DOMAIN s /\ f(n) \in DOMAIN s
    BY <1>1, <2>1
  <2>3. s[f(m)] = s[f(n)] /\ s[f(m)] # Blank
    BY <1>5
  <2>4. f(m) = f(n)
    BY <2>2, <2>3 DEF Distinct
  <2> QED BY <2>4
<1> QED BY <1>4, <1>6 DEF t

\* The removal of one endpoint keeps BInv.
LEMMA RemoveEndpointKeeps ==
  ASSUME BInv, NEW w \in Workers, RemoveEndpoint(w)
  PROVE  BInv'
<1> DEFINE j == job[w]
<1>1. pc[w] = "removeEndpoint" /\ UNCHANGED <<log, balancers, active>>
  BY DEF RemoveEndpoint, Call
<1>2. /\ pc[w] # "idle" /\ j \in Jobs /\ Updating(j) /\ Distinct(j.results)
      /\ j.results \in Seq(LBs \union {Blank}) /\ View(j) # NoObj
  BY <1>1, BusyUpdating DEF UpdateSites
<1>3. \/ Finish(w, "err")
      \/ \E first \in StaleAt(j) :
           Proceed(w, [j EXCEPT !.results = Without(j.results, first)])
  BY DEF RemoveEndpoint
<1>4. Quiet
  BY CallsAreQuiet
<1>5. CASE Finish(w, "err")
  BY <1>2, <1>4, <1>5, QuietFinish
<1>6. ASSUME NEW first \in StaleAt(j),
             Proceed(w, [j EXCEPT !.results = Without(j.results, first)])
      PROVE  BInv'
  <2> DEFINE less == [j EXCEPT !.results = Without(j.results, first)]
  <2>1. first \in 1 .. Len(j.results)
    BY <1>2 DEF StaleAt
  <2>2. Without(j.results, first) \in Ids /\ Distinct(Without(j.results, first))
    BY <1>2, <2>1, WithoutProps DEF Ids
  <2>3. /\ less \in Jobs /\ less.key = j.key /\ less.at = j.at /\ less.ids = j.ids
        /\ less.results = Without(j.results, first)
    BY <1>2, <2>2 DEF Jobs
  <2> HIDE DEF less
  <2>4. Same(w, less) /\ Updating(less)
    BY <1>2, <2>2, <2>3, UpdatingStays DEF Same
  <2> QED BY <1>2, <1>4, <1>6, <2>4, ProceedKeeps DEF less
<1> QED BY <1>3, <1>5, <1>6

\* The look at the state of the load balancer to add keeps BInv: it is one the
\* results do not have.
LEMMA CheckActiveKeeps ==
  ASSUME BInv, NEW w \in Workers, CheckActive(w)
  PROVE  BInv'
<1> DEFINE j == job[w]
<1>1. pc[w] = "checkActive" /\ UNCHANGED <<log, balancers, active>>
  BY DEF CheckActive, Call
<1>2. /\ pc[w] # "idle" /\ j \in Jobs /\ Updating(j) /\ Distinct(j.results)
      /\ j.arns \subseteq LBs /\ j.at \in 1 .. seen[j.key]
  BY <1>1, BusyUpdating DEF UpdateSites
<1>4. Quiet
  BY CallsAreQuiet
<1>5. CASE \E res : Finish(w, res)
  BY <1>2, <1>4, <1>5, QuietFinish
<1>6. ASSUME NEW l \in j.arns \ IdSet(j.results),
             Goto(w, "addEndpoint", [j EXCEPT !.hosts = <<l>>]), UNCHANGED cached
      PROVE  BInv'
  <2> DEFINE h == [j EXCEPT !.hosts = <<l>>]
  <2>1. <<l>> \in Seq(LBs) /\ <<l>> # <<>> /\ Head(<<l>>) = l
    BY <1>2
  <2>2. /\ h \in Jobs /\ h.key = j.key /\ h.at = j.at /\ h.ids = j.ids
        /\ h.results = j.results /\ h.hosts = <<l>>
    <3> HIDE DEF j
    <3> QED BY <1>2, <2>1 DEF Jobs
  <2> HIDE DEF h
  <2>3. Same(w, h) /\ Updating(h)
    BY <1>2, <2>2, UpdatingStays DEF Same
  <2>4. OnTask("addEndpoint", h)
    <3>1. h.hosts # <<>> /\ Head(h.hosts) \notin IdSet(h.results)
      BY <2>1, <2>2
    <3> QED BY <1>2, <2>2, <2>3, <3>1 DEF OnTask, UpdateSites, DeleteSites
  <2> QED BY <1>2, <1>4, <1>6, <2>3, <2>4, QuietGoto DEF Sites, UpdateSites, h
<1>7. \/ \E res : Finish(w, res)
      \/ \E l \in j.arns \ IdSet(j.results) :
           Goto(w, "addEndpoint", [j EXCEPT !.hosts = <<l>>]) /\ UNCHANGED cached
  BY DEF CheckActive
<1> QED BY <1>5, <1>6, <1>7

\* The addition of an endpoint keeps BInv.
LEMMA AddEndpointKeeps ==
  ASSUME BInv, NEW w \in Workers, AddEndpoint(w)
  PROVE  BInv'
<1> DEFINE j == job[w]
           l == Head(j.hosts)
           more == [j EXCEPT !.results = Append(j.results, l)]
<1>1. pc[w] = "addEndpoint" /\ UNCHANGED <<log, balancers, active>>
  BY DEF AddEndpoint, Call
<1>2. /\ pc[w] # "idle" /\ j \in Jobs /\ Updating(j) /\ Distinct(j.results)
      /\ j.results \in Seq(LBs \union {Blank})
  BY <1>1, BusyUpdating DEF UpdateSites
<1>3. j.hosts # <<>> /\ j.hosts \in Seq(LBs) /\ l \notin IdSet(j.results)
  BY <1>1, <1>2, Busy DEF OnTask, Jobs
<1>4. l \in LBs
  BY <1>3, HeadTailProperties
<1>5. Proceed(w, more) \/ Finish(w, "err")
  BY DEF AddEndpoint
<1>6. Quiet
  BY CallsAreQuiet
<1>7. CASE Finish(w, "err")
  BY <1>2, <1>6, <1>7, QuietFinish
<1>8. CASE Proceed(w, more)
  <2> DEFINE s == j.results
  <2>1. s \in Seq(LBs \union {Blank}) /\ Distinct(s) /\ \A n \in DOMAIN s : s[n] # l
    BY <1>2, <1>3 DEF IdSet
  <2> HIDE DEF l, s
  <2>2. Append(s, l) \in Ids /\ Distinct(Append(s, l))
    <3>1. /\ Append(s, l) \in Seq(LBs \union {Blank})
          /\ DOMAIN s = 1 .. Len(s) /\ Len(s) \in Nat
          /\ DOMAIN Append(s, l) = 1 .. Len(s) + 1
          /\ Append(s, l)[Len(s) + 1] = l
          /\ \A n \in 1 .. Len(s) : Append(s, l)[n] = s[n]
      BY <1>4, <2>1
    <3> DEFINE t == Append(s, l)
    <3> HIDE DEF t
    <3>2. ASSUME NEW m \in 1 .. Len(s) + 1, NEW n \in 1 .. Len(s) + 1, t[m] = t[n], t[m] # Blank
          PROVE  m = n
      <4>1. CASE m \in 1 .. Len(s) /\ n \in 1 .. Len(s)
        BY <2>1, <3>1, <3>2, <4>1 DEF Distinct, t
      <4>2. CASE m = Len(s) + 1 \/ n = Len(s) + 1
        BY <2>1, <3>1, <3>2, <4>2 DEF t
      <4> QED BY <3>1, <4>1, <4>2
    <3> QED BY <3>1, <3>2 DEF Ids, Distinct, t
  <2>3. /\ more \in Jobs /\ more.key = j.key /\ more.at = j.at /\ more.ids = j.ids
        /\ more.results = Append(s, l)
    BY <1>2, <2>2 DEF Jobs, s
  <2> HIDE DEF more
  <2>4. Same(w, more) /\ Updating(more)
    BY <1>2, <2>2, <2>3, UpdatingStays DEF Same
  <2> QED BY <1>2, <1>6, <1>8, <2>4, ProceedKeeps
<1> QED BY <1>5, <1>7, <1>8

\* The update of a weight keeps BInv.
LEMMA UpdateWeightKeeps ==
  ASSUME BInv, NEW w \in Workers, UpdateWeight(w)
  PROVE  BInv'
<1> DEFINE j == job[w]
<1>1. pc[w] = "updateWeight" /\ UNCHANGED <<log, balancers, active>>
  BY DEF UpdateWeight, Call
<1>2. /\ pc[w] # "idle" /\ j \in Jobs /\ Updating(j) /\ Distinct(j.results)
  BY <1>1, BusyUpdating DEF UpdateSites
<1>3. Finish(w, "err") \/ \E l \in j.weigh : Proceed(w, [j EXCEPT !.weigh = j.weigh \ {l}])
  BY DEF UpdateWeight
<1>4. Quiet
  BY CallsAreQuiet
<1>5. CASE Finish(w, "err")
  BY <1>2, <1>4, <1>5, QuietFinish
<1>6. ASSUME NEW l \in j.weigh, Proceed(w, [j EXCEPT !.weigh = j.weigh \ {l}])
      PROVE  BInv'
  <2> DEFINE less == [j EXCEPT !.weigh = j.weigh \ {l}]
  <2>1. /\ less \in Jobs /\ less.key = j.key /\ less.at = j.at /\ less.ids = j.ids
        /\ less.results = j.results
    BY <1>2 DEF Jobs
  <2> HIDE DEF less
  <2>2. Same(w, less) /\ Updating(less)
    BY <1>2, <2>1, UpdatingStays DEF Same
  <2> QED BY <1>2, <1>4, <1>6, <2>2, ProceedKeeps DEF less
<1> QED BY <1>3, <1>5, <1>6

-----------------------------------------------------------------------------
(* The steps of the surroundings *)

\* What a step that gives and takes no key must keep.
LEMMA AsideKeeps ==
  ASSUME BInv, UNCHANGED <<pc, job>>, TypeOK', History',
         queue.processing \subseteq queue'.processing,
         \A k \in Bindings : Continues(k), Alive' \subseteq Alive
  PROVE  BInv'
<1>1. OneWorkerPerKey'
  BY DEF BInv, OneWorkerPerKey
<1>2. ASSUME NEW v \in Workers, pc'[v] # "idle"
      PROVE  OnTask(pc[v], job[v])'
  <2>1. pc[v] # "idle" /\ pc'[v] = pc[v] /\ job'[v] = job[v] /\ job[v].key \in Bindings
    BY <1>2, Busy
  <2>2. seen' \in [Bindings -> Nat \ {0}]
    BY DEF TypeOK
  <2> QED BY <2>1, <2>2, OthersKeep
<1> QED BY <1>1, <1>2 DEF BInv

\* The version a reader of the API server sees.
LEMMA Newest ==
  ASSUME BInv, NEW k \in Bindings
  PROVE  /\ Obj(k) \in Objects \union {NoObj} /\ Sound(Obj(k))
         /\ Len(log[k]) \in Nat \ {0} /\ seen[k] \in 1 .. Len(log[k])
<1>1. /\ log[k] \in Seq(Objects \union {NoObj}) /\ Len(log[k]) \in Nat \ {0}
      /\ seen[k] \in Nat \ {0} /\ seen[k] <= Len(log[k])
  BY DEF BInv, TypeOK
<1>2. Len(log[k]) \in 1 .. Len(log[k])
  BY <1>1
<1> QED BY <1>1, <1>2 DEF BInv, History, Obj

\* An edit makes a sound version and leaves the finalizer.
LEMMA EditedProps ==
  ASSUME NEW v \in Objects \union {NoObj}, Sound(v), NEW s \in Specs \union {NoObj},
         v # NoObj => ~v.deleting, v # NoObj \/ s # NoObj
  PROVE  /\ Edited(v, s) \in Objects \union {NoObj} /\ Sound(Edited(v, s))
         /\ v # NoObj /\ v.fin => Edited(v, s) # NoObj /\ Edited(v, s).fin
<1>1. NoObj \notin Objects /\ <<>> \in Seq(LBs)
  BY NullAssumption
<1>2. CASE v = NoObj
  <2> DEFINE new == [spec |-> s, fin |-> FALSE, deleting |-> FALSE, ids |-> <<>>,
                     observed |-> FALSE]
  <2>1. Edited(v, s) = new /\ s \in Specs
    BY <1>2 DEF Edited
  <2>2. new \in Objects
    BY <1>1, <2>1 DEF Objects
  <2>3. Sound(new)
    BY DEF Sound, Distinct
  <2> QED BY <1>2, <2>1, <2>2, <2>3
<1>3. CASE v # NoObj /\ s # NoObj
  <2> DEFINE new == [v EXCEPT !.spec = s, !.observed = FALSE]
  <2>1. new \in Objects /\ new.fin = v.fin /\ new.ids = v.ids /\ new.deleting = v.deleting
    BY <1>3 DEF Objects
  <2>2. Edited(v, s) = new
    BY <1>3 DEF Edited
  <2> HIDE DEF new
  <2> QED BY <1>1, <1>3, <2>1, <2>2 DEF Sound
<1>4. CASE v # NoObj /\ s = NoObj /\ v.fin
  <2> DEFINE new == [v EXCEPT !.deleting = TRUE, !.observed = FALSE]
  <2>1. new \in Objects /\ new.fin = v.fin /\ new.ids = v.ids
    BY <1>4 DEF Objects
  <2>2. Edited(v, s) = new
    BY <1>4 DEF Edited
  <2> HIDE DEF new
  <2> QED BY <1>1, <1>4, <2>1, <2>2 DEF Sound
<1>5. CASE v # NoObj /\ s = NoObj /\ ~v.fin
  BY <1>5 DEF Edited, Sound
<1> QED BY <1>2, <1>3, <1>4, <1>5

\* A user's edit keeps BInv: it leaves the finalizer.
LEMMA EditBindingKeeps ==
  ASSUME BInv, NEW k \in Bindings, NEW s \in Specs \union {NoObj}, EditBinding(k, s)
  PROVE  BInv'
<1> DEFINE v == Obj(k)
           new == Edited(v, s)
           n == Len(log[k])
<1>1. /\ <<SpecOf(v), s>> \in Edits /\ (v # NoObj => ~v.deleting) /\ Commit(k, new)
      /\ spent' = [spent EXCEPT !.changes = spent.changes + 1]
      /\ UNCHANGED <<seen, cached, balancers, queue, pc, job, groups, active>>
  BY DEF EditBinding, Changes
<1>2. v \in Objects \union {NoObj} /\ Sound(v) /\ n \in Nat \ {0} /\ seen[k] \in 1 .. n
  BY Newest
<1>3. v # NoObj \/ s # NoObj
  BY <1>1, EditAssumption DEF SpecOf
<1>4. /\ new \in Objects \union {NoObj} /\ Sound(new)
      /\ v # NoObj /\ v.fin => new # NoObj /\ new.fin
  BY <1>1, <1>2, <1>3, EditedProps
<1> HIDE DEF new
<1>5. spent' \in SpentType
  <2>1. spent \in SpentType
    BY DEF BInv, TypeOK, SpentType
  <2> QED BY <1>1, <2>1 DEF SpentType
<1>6. Alive' = Alive
  BY <1>1 DEF Alive
<1>7. CASE log' = log
  <2>1. TypeOK'
    BY <1>1, <1>5, <1>7 DEF BInv, TypeOK, SpentType
  <2>2. History'
    BY <1>1, <1>7 DEF BInv, History, Guarded
  <2>3. \A h \in Bindings : Continues(h)
    BY <1>1, <1>7, SameContinues
  <2> QED BY <1>1, <1>6, <2>1, <2>2, <2>3, AsideKeeps
<1>8. CASE log' = [log EXCEPT ![k] = Append(log[k], new)]
  <2>1. ASSUME NEW p \in 1 .. n, Guarded(k, p), Held(log[k][p])
        PROVE  new # NoObj /\ new.fin
    <3>1. n \in p .. n
      BY <1>2
    <3>2. v # NoObj /\ v.fin
      BY <2>1, <3>1 DEF Guarded, Obj
    <3> QED BY <1>4, <3>2
  <2>2. \A p \in seen[k] .. n : Held(log[k][p]) => new # NoObj /\ new.fin
    <3> SUFFICES ASSUME NEW p \in seen[k] .. n, Held(log[k][p])  PROVE new # NoObj /\ new.fin
      OBVIOUS
    <3>1. p \in 1 .. n /\ Guarded(k, p)
      BY <1>2 DEF BInv, History
    <3> QED BY <2>1, <3>1
  <2>3. /\ log' \in LogType /\ History'
        /\ Len(log'[k]) = n + 1 /\ log'[k][n + 1] = new
        /\ \A p \in 1 .. n : log'[k][p] = log[k][p]
        /\ \A h \in Bindings \ {k} : log'[h] = log[h]
    BY <1>1, <1>4, <1>8, <2>2, AppendKeeps
  <2>4. Continues(k)
    <3>1. ASSUME NEW p \in 1 .. n, Guarded(k, p), Held(log[k][p]), NEW q \in p .. n + 1
          PROVE  log'[k][q] # NoObj /\ log'[k][q].fin
      <4>1. CASE q = n + 1
        BY <2>1, <2>3, <3>1, <4>1
      <4>2. CASE q # n + 1
        <5>1. q \in p .. n /\ q \in 1 .. n
          BY <1>2, <4>2
        <5> QED BY <2>3, <3>1, <5>1 DEF Guarded
      <4> QED BY <4>1, <4>2
    <3>2. \A p \in 1 .. n : Guarded(k, p) => Guarded(k, p)'
      BY <2>3, <3>1 DEF Guarded
    <3>3. Len(log[k]) <= Len(log'[k]) /\ seen[k] <= seen'[k]
      BY <1>1, <1>2, <2>3
    <3> QED BY <2>3, <3>2, <3>3 DEF Continues
  <2>5. \A h \in Bindings : Continues(h)
    BY <1>1, <2>3, <2>4, SameContinues
  <2>6. \A h \in Bindings : seen'[h] <= Len(log'[h])
    <3>1. \A h \in Bindings : seen[h] <= Len(log[h])
      BY DEF BInv, TypeOK
    <3>2. seen[k] <= n + 1
      BY <1>2
    <3> QED BY <1>1, <2>3, <3>1, <3>2
  <2>7. TypeOK'
    BY <1>1, <1>5, <2>3, <2>6 DEF BInv, TypeOK, LogType, SpentType
  <2> QED BY <1>1, <1>6, <2>3, <2>5, <2>7, AsideKeeps
<1> QED BY <1>1, <1>7, <1>8 DEF Commit

\* An informer event keeps BInv: the informer only moves on.
LEMMA DeliverKeeps ==
  ASSUME BInv, NEW k \in Bindings, Deliver(k)
  PROVE  BInv'
<1> DEFINE s == log[k]
<1>1. PICK n \in {seen[k] + 1, Len(s)} :
        /\ seen' = [seen EXCEPT ![k] = n]
        /\ cached' = [cached EXCEPT ![k] = IdsOf(s[n])]
        /\ queue' \in {queue, Add(queue, k)}
  BY DEF Deliver
<1>2. seen[k] < Len(s) /\ UNCHANGED <<log, balancers, pc, job, groups, active, spent>>
  BY DEF Deliver
<1>3. /\ s \in Seq(Objects \union {NoObj}) /\ Len(s) \in Nat /\ seen[k] \in Nat \ {0}
  BY DEF BInv, TypeOK
<1>4. n \in Nat \ {0} /\ n \in seen[k] .. Len(s) /\ n \in 1 .. Len(s)
  BY <1>1, <1>2, <1>3
<1>5. s[n] \in Objects \union {NoObj} /\ Sound(s[n])
  BY <1>3, <1>4 DEF BInv, History
<1>6. IdsOf(s[n]) \in Ids
  <2>1. \A v \in Objects : v.ids \in Ids
    BY SeqMonotonic DEF Objects, Ids
  <2>2. <<>> \in Ids
    BY DEF Ids
  <2> QED BY <1>5, <2>1, <2>2 DEF IdsOf
<1>7. /\ seen'[k] = n /\ cached'[k] = IdsOf(s[n])
      /\ \A h \in Bindings \ {k} : seen'[h] = seen[h] /\ cached'[h] = cached[h]
  BY <1>1 DEF BInv, TypeOK
<1>8. queue' \in QueueOver(Bindings) /\ queue.processing \subseteq queue'.processing
  <2>1. queue \in QueueOver(Bindings)
    BY DEF BInv, TypeOK
  <2>2. Add(queue, k) \in QueueOver(Bindings) /\ Add(queue, k).processing = queue.processing
    BY <2>1 DEF Add, QueueOver
  <2> QED BY <1>1, <2>1, <2>2
<1>9. TypeOK'
  <2>1. seen' \in [Bindings -> Nat \ {0}] /\ cached' \in [Bindings -> Ids]
    BY <1>1, <1>4, <1>6 DEF BInv, TypeOK
  <2>2. \A h \in Bindings : seen'[h] <= Len(log'[h])
    <3>1. \A h \in Bindings : seen[h] <= Len(log[h])
      BY DEF BInv, TypeOK
    <3> QED BY <1>2, <1>4, <1>7, <3>1
  <2> QED BY <1>2, <1>8, <2>1, <2>2 DEF BInv, TypeOK
<1>10. ASSUME NEW h \in Bindings
       PROVE  (/\ \A p \in 1 .. Len(log[h]) : Sound(log[h][p])
               /\ \A p \in seen[h] .. Len(log[h]) : Guarded(h, p)
               /\ Len(cached[h]) = Len(IdsOf(log[h][seen[h]]))
               /\ log[h][seen[h]] # NoObj /\ ~log[h][seen[h]].deleting => Distinct(cached[h]))'
  <2>1. /\ \A p \in 1 .. Len(log[h]) : Sound(log[h][p])
        /\ \A p \in seen[h] .. Len(log[h]) : Guarded(h, p)
    BY DEF BInv, History
  <2>2. CASE h = k
    <3>1. \A p \in n .. Len(s) : p \in seen[k] .. Len(s)
      BY <1>3, <1>4
    <3>2. \A p \in n .. Len(s) : Guarded(k, p)'
      BY <1>2, <2>1, <2>2, <3>1 DEF Guarded
    <3>3. s[n] # NoObj => Distinct(IdsOf(s[n]))
      BY <1>5 DEF Sound, IdsOf
    <3> QED BY <1>2, <1>7, <2>1, <2>2, <3>2, <3>3
  <2>3. CASE h # k
    BY <1>2, <1>7, <2>3 DEF BInv, History, Guarded
  <2> QED BY <2>2, <2>3
<1>11. History'
  BY <1>10 DEF History
<1>12. \A h \in Bindings : Continues(h)
  <2>1. seen[k] <= seen'[k]
    BY <1>3, <1>4, <1>7
  <2>2. Continues(k)
    BY <1>2, <1>3, <2>1 DEF Continues, Guarded
  <2> QED BY <1>2, <1>7, <2>2, SameContinues
<1>13. Alive' \subseteq Alive
  BY <1>2 DEF Alive
<1> QED BY <1>2, <1>8, <1>9, <1>11, <1>12, <1>13, AsideKeeps

\* Steps that touch neither versions nor workers keep BInv.
LEMMA OutsideKeeps ==
  ASSUME BInv, UNCHANGED <<log, seen, cached, pc, job>>, TypeOK',
         queue.processing \subseteq queue'.processing, Alive' \subseteq Alive
  PROVE  BInv'
<1>1. History'
  BY DEF BInv, History, Guarded
<1>2. \A h \in Bindings : Continues(h)
  BY SameContinues
<1> QED BY <1>1, <1>2, AsideKeeps

\* The resync keeps BInv.
LEMMA ResyncKeeps ==
  ASSUME BInv, NEW k \in Bindings, Resync(k)
  PROVE  BInv'
<1>1. /\ UNCHANGED <<log, seen, cached, balancers, pc, job, groups, active, spent>>
      /\ queue' = Add(queue, k)
  BY DEF Resync
<1>2. Add(queue, k) \in QueueOver(Bindings) /\ Add(queue, k).processing = queue.processing
  <2>1. queue \in QueueOver(Bindings)
    BY DEF BInv, TypeOK
  <2> QED BY <2>1 DEF Add, QueueOver
<1>3. TypeOK'
  BY <1>1, <1>2 DEF BInv, TypeOK
<1>4. Alive' \subseteq Alive
  BY <1>1 DEF Alive
<1> QED BY <1>1, <1>2, <1>3, <1>4, OutsideKeeps

\* What becomes of services, groups and load balancers keeps BInv.
LEMMA WorldKeeps ==
  ASSUME BInv,
         \/ \E r \in Refs : \E e \in RefEdits : ChangeRef(r, e[2])
         \/ \E g \in Groups : DeleteGroup(g)
         \/ \E l \in LBs : LBActivate(l)
  PROVE  BInv'
<1>1. UNCHANGED <<log, seen, cached, pc, job, queue>>
  BY DEF ChangeRef, DeleteGroup, LBActivate
<1>2. spent' \in SpentType
  <2>1. spent \in SpentType
    BY DEF BInv, TypeOK, SpentType
  <2>2. spent' \in {spent, [spent EXCEPT !.changes = spent.changes + 1]}
    BY DEF ChangeRef, DeleteGroup, LBActivate, Changes
  <2> QED BY <2>1, <2>2 DEF SpentType
<1>3. groups' \in GroupType /\ Alive' \subseteq Alive
  <2>1. groups' = groups \/ \E g \in Groups : groups' = [groups EXCEPT ![g] = NoGroup]
    BY DEF ChangeRef, DeleteGroup, LBActivate
  <2> QED BY <2>1 DEF BInv, TypeOK, GroupType, Alive
<1>4. balancers' \in [Refs -> Seq(LBs) \union {NoObj}]
  <2>1. \/ balancers' = balancers
        \/ \E r \in Refs, e \in RefEdits : balancers' = [balancers EXCEPT ![r] = e[2]]
    BY DEF ChangeRef, DeleteGroup, LBActivate
  <2>2. \A e \in RefEdits : e[2] \in Seq(LBs) \union {NoObj}
    BY EditAssumption
  <2> QED BY <2>1, <2>2 DEF BInv, TypeOK
<1>5. active' \in SUBSET LBs
  BY DEF ChangeRef, DeleteGroup, LBActivate, BInv, TypeOK
<1>6. TypeOK'
  BY <1>1, <1>2, <1>3, <1>4, <1>5 DEF BInv, TypeOK, SpentType, GroupType
<1> QED BY <1>1, <1>3, <1>6, OutsideKeeps

\* The end of the process keeps BInv.
LEMMA CrashKeeps ==
  ASSUME BInv, Crash
  PROVE  BInv'
<1>1. Restart /\ UNCHANGED <<log, balancers, groups, active>>
      /\ spent' = [spent EXCEPT !.crashes = spent.crashes + 1]
  BY DEF Crash
<1>2. spent' \in SpentType
  <2>1. spent \in SpentType
    BY DEF BInv, TypeOK, SpentType
  <2> QED BY <1>1, <2>1 DEF SpentType
<1>3. groups' \in GroupType
  BY <1>1 DEF BInv, TypeOK, GroupType
<1> QED BY <1>1, <1>2, <1>3, RestartKeeps

-----------------------------------------------------------------------------
(* The theorems *)

\* BInv at the start: there is no binding and no worker has a key.
LEMMA InitBInv == Init => BInv
<1> SUFFICES ASSUME Init  PROVE BInv
  OBVIOUS
<1> DEFINE s == <<NoObj>>
<1>1. /\ log = [k \in Bindings |-> s] /\ seen = [k \in Bindings |-> 1]
      /\ cached = [k \in Bindings |-> <<>>]
      /\ pc = [w \in Workers |-> "idle"] /\ job = [w \in Workers |-> NoJob]
  BY DEF Init
<1>2. /\ s \in Seq(Objects \union {NoObj}) /\ s # <<>> /\ Len(s) = 1
      /\ \A p \in 1 .. Len(s) : s[p] = NoObj
  OBVIOUS
<1> HIDE DEF s
<1>3. EmptyQueue \in QueueOver(Bindings) /\ <<>> \in Ids /\ Len(<<>>) = 0
  BY DEF EmptyQueue, QueueOver, Ids
<1>4. TypeOK
  <2>1. balancers \in [Refs -> Seq(LBs) \union {NoObj}]
    BY EditAssumption DEF Init
  <2>2. active \in SUBSET LBs
    BY BalancerAssumption DEF Init
  <2>3. \A k \in Bindings : seen[k] <= Len(log[k])
    BY <1>1, <1>2
  <2> QED BY <1>1, <1>2, <1>3, <2>1, <2>2, <2>3 DEF Init, TypeOK
<1>5. History
  <2> SUFFICES ASSUME NEW k \in Bindings
               PROVE  /\ \A p \in 1 .. Len(log[k]) : Sound(log[k][p])
                      /\ \A p \in seen[k] .. Len(log[k]) : Guarded(k, p)
                      /\ Len(cached[k]) = Len(IdsOf(log[k][seen[k]]))
                      /\ log[k][seen[k]] = NoObj
    BY DEF History
  <2>1. log[k] = s /\ seen[k] = 1 /\ cached[k] = <<>>
    BY <1>1
  <2>2. \A p \in 1 .. Len(log[k]) : log[k][p] = NoObj
    BY <1>2, <2>1
  <2>3. 1 \in 1 .. Len(log[k])
    BY <1>2, <2>1
  <2>4. log[k][seen[k]] = NoObj /\ IdsOf(log[k][seen[k]]) = <<>>
    BY <2>1, <2>2, <2>3 DEF IdsOf
  <2>5. \A p \in 1 .. Len(log[k]) : Sound(log[k][p]) /\ Guarded(k, p)
    BY <2>2 DEF Sound, Guarded, Held
  <2>6. seen[k] .. Len(log[k]) = 1 .. Len(log[k])
    BY <2>1
  <2> QED BY <2>1, <2>4, <2>5, <2>6
<1> QED BY <1>1, <1>4, <1>5 DEF BInv, OneWorkerPerKey

\* Every step keeps BInv.
LEMMA NextBInv == BInv /\ [Next]_vars => BInv'
<1> SUFFICES ASSUME BInv, [Next]_vars  PROVE BInv'
  OBVIOUS
<1>1. CASE \E k \in Bindings, s \in Specs \union {NoObj} : EditBinding(k, s)
  BY <1>1, EditBindingKeeps
<1>2. CASE \/ \E r \in Refs : \E e \in RefEdits : ChangeRef(r, e[2])
           \/ \E g \in Groups : DeleteGroup(g)
           \/ \E l \in LBs : LBActivate(l)
  BY <1>2, WorldKeeps
<1>3. CASE \E k \in Bindings : Deliver(k) \/ Resync(k)
  BY <1>3, DeliverKeeps, ResyncKeeps
<1>4. CASE \E w \in Workers, k \in Bindings : Take(w, k)
  BY <1>4, TakeKeeps
<1>5. ASSUME NEW w \in Workers, Work(w)
      PROVE  BInv'
  <2>1. CASE Read(w) \/ Creates(w)
    BY <2>1, ReadKeeps, AddFinalizerKeeps DEF Creates
  <2>2. CASE Deletes(w)
    BY <2>2, DescribeDeletedKeeps, RemoveAllKeeps, ClearStatusKeeps, RemoveFinalizerKeeps
       DEF Deletes
  <2>3. CASE Updates(w)
    BY <2>3, GetLoadBalancerKeeps, DescribeEndpointGroupKeeps, RemoveEndpointKeeps,
       CheckActiveKeeps, AddEndpointKeeps, UpdateWeightKeeps, UpdateStatusKeeps DEF Updates
  <2> QED BY <1>5, <2>1, <2>2, <2>3 DEF Work
<1>6. CASE Crash
  BY <1>6, CrashKeeps
<1>7. CASE UNCHANGED vars
  <2>1. /\ UNCHANGED <<log, seen, cached, balancers, queue, pc, job, groups, active, spent>>
        /\ Alive' \subseteq Alive
    BY <1>7 DEF vars, Alive
  <2>2. TypeOK'
    BY <2>1 DEF BInv, TypeOK
  <2> QED BY <2>1, <2>2, OutsideKeeps
<1> QED BY <1>1, <1>2, <1>3, <1>4, <1>5, <1>6, <1>7 DEF Next

\* BInv holds in every reachable state.
THEOREM Inductive == Spec => []BInv
BY InitBInv, NextBInv, PTL DEF Spec

\* Type correctness, for any bindings, workers and groups: in particular no
\* version the API server holds ever lists the id "" that the edits in place
\* leave in the informer's copy.
THEOREM TypeCorrect == Spec => []TypeOK
<1>1. BInv => TypeOK
  BY DEF BInv
<1> QED BY <1>1, Inductive, PTL

\* Whenever an endpoint is added, the binding in the API server exists and has
\* the finalizer, however old the version the worker goes by is.
THEOREM NeverAdds == Spec => []NeverAddsUnprotected
<1>1. BInv => NeverAddsUnprotected
  <2> SUFFICES ASSUME BInv, NEW w \in Workers, pc[w] = "addEndpoint"
               PROVE  Obj(job[w].key) # NoObj /\ Obj(job[w].key).fin
    BY DEF NeverAddsUnprotected
  <2> DEFINE j == job[w]
  <2>1. Held(View(j)) /\ Guarded(j.key, j.at)
    BY BusyUpdating DEF UpdateSites, Updating
  <2>2. j.at \in 1 .. Len(log[j.key]) /\ j.key \in Bindings
    BY Busy
  <2>3. Len(log[j.key]) \in j.at .. Len(log[j.key])
    BY <2>2, Newest
  <2> QED BY <2>1, <2>3 DEF Guarded, View, Obj
<1> QED BY <1>1, Inductive, PTL

\* The status of a binding names no endpoint twice, whatever becomes of the array
\* it is edited in.
THEOREM NamedOnce == Spec => []NamesOnce
<1>1. BInv => NamesOnce
  <2> SUFFICES ASSUME BInv, NEW k \in Bindings, Obj(k) # NoObj,
                      NEW m \in DOMAIN Obj(k).ids, NEW n \in DOMAIN Obj(k).ids,
                      Obj(k).ids[m] = Obj(k).ids[n]
               PROVE  m = n
    BY DEF NamesOnce
  <2>1. Obj(k).ids \in Seq(LBs) /\ Distinct(Obj(k).ids)
    BY Newest DEF Sound, Objects
  <2>2. Obj(k).ids[m] \in LBs
    BY <2>1
  <2> QED BY <2>1, <2>2, NullAssumption DEF Distinct
<1> QED BY <1>1, Inductive, PTL

-----------------------------------------------------------------------------
(* The refinement of BindingLifecycle *)


Shape == [k \in Bindings |-> Image(Obj(k))]

\* What can become of a version by one write, as the lifecycle tells them apart.
Moves(u, v) ==
  \/ u = NoObj /\ v # NoObj /\ ~v.fin /\ ~v.deleting /\ v.ids = <<>>
  \/ u # NoObj /\ ~u.fin /\ v = NoObj
  \/ u # NoObj /\ u.deleting /\ v = NoObj /\ (u.ids = <<>> \/ u.spec.group \notin Alive)
  \/ /\ u # NoObj /\ v # NoObj /\ u.spec.group = v.spec.group
     /\ \/ v.fin = u.fin /\ v.deleting = u.deleting /\ v.ids = u.ids
        \/ ~u.fin /\ v.fin /\ ~v.deleting /\ v.ids = <<>>
        \/ u.fin /\ ~u.deleting /\ v.fin /\ ~v.deleting
        \/ u.fin /\ ~u.deleting /\ v.deleting /\ v.ids = u.ids
        \/ u.deleting /\ v.deleting /\ v.ids = <<>>

\* A step that leaves every newest version and every group is a stutter.
LEMMA Stutters ==
  ASSUME log' = log, Alive' = Alive
  PROVE  UNCHANGED Lifecycle!vars
<1>1. \A k \in Bindings : Image(Obj(k))' = Image(Obj(k))
  BY DEF Image, Obj, IdSet
<1> QED BY <1>1 DEF Lifecycle!vars, Alive

\* A new version changes what a reader sees of one binding.
LEMMA Appears ==
  ASSUME BInv, NEW k \in Bindings, NEW v \in Objects \union {NoObj},
         log' = [log EXCEPT ![k] = Append(log[k], v)]
  PROVE  Shape' = [Shape EXCEPT ![k] = Image(v)]
<1>1. log[k] \in Seq(Objects \union {NoObj})
  BY DEF BInv, TypeOK
<1>2. log'[k] = Append(log[k], v) /\ \A h \in Bindings \ {k} : log'[h] = log[h]
  BY DEF BInv, TypeOK
<1>3. Len(log'[k]) = Len(log[k]) + 1 /\ log'[k][Len(log[k]) + 1] = v
  BY <1>1, <1>2
<1>4. Obj(k)' = v
  BY <1>3 DEF Obj
<1>5. Image(Obj(k))' = Image(v)
  BY <1>4 DEF Image, IdSet
<1>6. \A h \in Bindings \ {k} : Image(Obj(h))' = Image(Obj(h))
  BY <1>2 DEF Image, Obj, IdSet
<1> QED BY <1>5, <1>6 DEF Shape

\* The image of a version that is there.
LEMMA ImageProps ==
  ASSUME NEW v \in Objects, v # NoObj, Sound(v)
  PROVE  /\ Image(v).phase = IF v.deleting THEN "ending" ELSE IF v.fin THEN "held" ELSE "fresh"
         /\ Image(v).group = v.spec.group /\ v.spec.group \in Groups
         /\ Image(v).recorded = IdSet(v.ids) /\ IdSet(v.ids) \in SUBSET LBs
         /\ Image(v) # NoObj
         /\ v.ids = <<>> => IdSet(v.ids) = {}
         /\ ~v.fin => v.ids = <<>> /\ ~v.deleting
         /\ Image(v) = [phase |-> Image(v).phase, group |-> v.spec.group,
                        recorded |-> IdSet(v.ids)]
<1> DEFINE phase == IF v.deleting THEN "ending" ELSE IF v.fin THEN "held" ELSE "fresh"
<1>1. v.spec.group \in Groups /\ v.ids \in Seq(LBs)
  BY DEF Objects, Specs
<1>2. IdSet(v.ids) \in SUBSET LBs /\ (v.ids = <<>> => IdSet(v.ids) = {})
  BY <1>1 DEF IdSet
<1>3. Image(v) = [phase |-> phase, group |-> v.spec.group, recorded |-> IdSet(v.ids)]
  BY DEF Image
<1>4. phase \in {"fresh", "held", "ending"}
  OBVIOUS
<1> HIDE DEF phase
<1>5. Image(v) \in [phase : {"fresh", "held", "ending"}, group : Groups, recorded : SUBSET LBs]
  BY <1>1, <1>2, <1>3, <1>4
<1>6. Image(v) # NoObj
  BY <1>5, ViewAssumption
<1> QED BY <1>1, <1>2, <1>3, <1>6 DEF Sound, phase

\* Each such write is a step of the lifecycle.
LEMMA MovesRefine ==
  ASSUME BInv, NEW k \in Bindings, NEW v \in Objects \union {NoObj}, Sound(v),
         log' = [log EXCEPT ![k] = Append(log[k], v)], Alive' = Alive, Moves(Obj(k), v)
  PROVE  [Lifecycle!Next]_(Lifecycle!vars)
<1> DEFINE u == Obj(k)
<1>1. u \in Objects \union {NoObj} /\ Sound(u)
  BY Newest
<1>2. Shape' = [Shape EXCEPT ![k] = Image(v)] /\ Shape[k] = Image(u)
  BY Appears DEF Shape
<1>3. Image(NoObj) = NoObj
  BY DEF Image
<1>4. UNCHANGED {g \in Groups : groups[g] # NoGroup}
  BY DEF Alive
<1> HIDE DEF u
<1>5. CASE u = NoObj
  <2>1. v # NoObj /\ ~v.fin /\ ~v.deleting /\ v.ids = <<>>
    BY <1>5 DEF Moves, u
  <2>2. Shape' = [Shape EXCEPT ![k] = [phase |-> "fresh", group |-> v.spec.group,
                                       recorded |-> {}]]
        /\ v.spec.group \in Groups
    BY <1>2, <2>1, ImageProps
  <2>3. Lifecycle!Create(k)
    BY <1>2, <1>3, <1>4, <1>5, <2>2 DEF Lifecycle!Create, Lifecycle!Become, Shape
  <2> QED BY <2>3 DEF Lifecycle!Next
<1>6. CASE u # NoObj /\ v = NoObj
  <2>1. /\ Image(u) # NoObj /\ Image(u).group = u.spec.group
        /\ u.ids = <<>> => Image(u).recorded = {}
        /\ ~u.fin => Image(u).phase = "fresh"
        /\ u.deleting => Image(u).phase = "ending"
    BY <1>1, <1>6, ImageProps
  <2>2. Lifecycle!Vanish(k)
    BY <1>2, <1>3, <1>4, <1>6 DEF Lifecycle!Vanish, Shape
  <2>3. CASE ~u.fin
    <3>1. Lifecycle!Drop(k)
      BY <1>2, <2>1, <2>2, <2>3 DEF Lifecycle!Drop, Lifecycle!In, Shape
    <3> QED BY <3>1 DEF Lifecycle!Next
  <2>4. CASE u.deleting /\ (u.ids = <<>> \/ u.spec.group \notin Alive)
    <3>1. Lifecycle!Release(k)
      BY <1>2, <2>1, <2>2, <2>4 DEF Lifecycle!Release, Lifecycle!In, Shape, Alive
    <3> QED BY <3>1 DEF Lifecycle!Next
  <2> QED BY <1>6, <2>3, <2>4 DEF Moves, u
<1>7. CASE u # NoObj /\ v # NoObj
  <2> DEFINE rec(phase, ids) == [phase |-> phase, group |-> Image(u).group, recorded |-> ids]
  <2>1. /\ Image(u) # NoObj /\ Image(u).group = v.spec.group
        /\ IdSet(u.ids) = Image(u).recorded
        /\ Image(u).phase = IF u.deleting THEN "ending" ELSE IF u.fin THEN "held" ELSE "fresh"
        /\ Image(v) = rec(IF v.deleting THEN "ending" ELSE IF v.fin THEN "held" ELSE "fresh",
                          IdSet(v.ids))
        /\ v.ids = <<>> => IdSet(v.ids) = {}
        /\ IdSet(v.ids) \in SUBSET LBs
        /\ ~u.fin => ~u.deleting
    BY <1>1, <1>7, ImageProps DEF Moves, u
  <2>2. ASSUME NEW phase, NEW ids, Image(v) = rec(phase, ids)
        PROVE  Lifecycle!Become(k, phase, Shape[k].group, ids)
    BY <1>2, <1>4, <2>2 DEF Lifecycle!Become, Shape
  <2>3. CASE v.fin = u.fin /\ v.deleting = u.deleting /\ v.ids = u.ids
    <3>1. Image(v) = Image(u)
      BY <1>7, <2>1, <2>3 DEF Image
    <3>2. Shape' = Shape
      BY <1>2, <3>1 DEF Shape
    <3> QED BY <1>4, <3>2 DEF Lifecycle!vars, Shape
  <2>4. CASE ~u.fin /\ v.fin /\ ~v.deleting /\ v.ids = <<>>
    <3>1. Lifecycle!Become(k, "held", Shape[k].group, {})
      BY <2>1, <2>2, <2>4
    <3>2. Lifecycle!Hold(k)
      BY <1>2, <2>1, <2>4, <3>1 DEF Lifecycle!Hold, Lifecycle!In, Shape
    <3> QED BY <3>2 DEF Lifecycle!Next
  <2>5. CASE u.fin /\ ~u.deleting /\ v.fin /\ ~v.deleting
    <3>1. Lifecycle!Become(k, "held", Shape[k].group, IdSet(v.ids))
      BY <2>1, <2>2, <2>5
    <3>2. Lifecycle!Record(k)
      BY <1>2, <2>1, <2>5, <3>1 DEF Lifecycle!Record, Lifecycle!In, Shape
    <3> QED BY <3>2 DEF Lifecycle!Next
  <2>6. CASE u.fin /\ ~u.deleting /\ v.deleting /\ v.ids = u.ids
    <3>1. Lifecycle!Become(k, "ending", Shape[k].group, Shape[k].recorded)
      BY <1>2, <2>1, <2>2, <2>6
    <3>2. Lifecycle!End(k)
      BY <1>2, <2>1, <2>6, <3>1 DEF Lifecycle!End, Lifecycle!In, Shape
    <3> QED BY <3>2 DEF Lifecycle!Next
  <2>7. CASE u.deleting /\ v.deleting /\ v.ids = <<>>
    <3>1. Lifecycle!Become(k, "ending", Shape[k].group, {})
      BY <2>1, <2>2, <2>7
    <3>2. Lifecycle!Empty(k)
      BY <1>2, <2>1, <2>7, <3>1 DEF Lifecycle!Empty, Lifecycle!In, Shape
    <3> QED BY <3>2 DEF Lifecycle!Next
  <2> QED BY <1>7, <2>3, <2>4, <2>5, <2>6, <2>7 DEF Moves, u
<1> QED BY <1>5, <1>6, <1>7

\* A write to the API server is one if what it writes follows on what the worker read.
LEMMA WriteRefines ==
  ASSUME BInv, NEW w \in Workers, pc[w] # "idle", NEW v \in Objects \union {NoObj}, NEW res,
         Sound(v), Moves(View(job[w]), v), Write(w, v, res)
  PROVE  [Lifecycle!Next]_(Lifecycle!vars)
<1> DEFINE k == job[w].key
<1>1. /\ Alive' = Alive
      /\ log' \in {log, [log EXCEPT ![k] = Append(log[k], v)]}
      /\ log' # log => job[w].at = Len(log[k])
  BY DEF Write, Commit, Alive
<1>2. k \in Bindings
  BY Busy
<1>3. CASE log' = log
  BY <1>1, <1>3, Stutters
<1>4. CASE log' # log
  <2>1. View(job[w]) = Obj(k)
    BY <1>1, <1>4 DEF View, Obj
  <2> QED BY <1>1, <1>2, <1>4, <2>1, MovesRefine
<1> QED BY <1>3, <1>4

\* The four writes a worker makes.
LEMMA WorkRefines ==
  ASSUME BInv, NEW w \in Workers, Work(w)
  PROVE  [Lifecycle!Next]_(Lifecycle!vars)
<1> DEFINE j == job[w]
           u == View(j)
<1>1. CASE \/ Read(w) \/ DescribeDeleted(w) \/ RemoveAll(w)
           \/ GetLoadBalancer(w) \/ DescribeEndpointGroup(w) \/ RemoveEndpoint(w)
           \/ CheckActive(w) \/ AddEndpoint(w) \/ UpdateWeight(w)
  <2>1. Quiet
    BY <1>1, CallsAreQuiet
  <2> QED BY <2>1, Stutters DEF Quiet
<1>2. CASE AddFinalizer(w)
  <2> DEFINE v == [u EXCEPT !.fin = TRUE]
  <2>1. pc[w] = "addFinalizer" /\ Write(w, v, "ok")
    BY <1>2 DEF AddFinalizer
  <2>2. u # NoObj /\ ~u.deleting /\ ~u.fin
    BY <2>1, Busy DEF OnTask
  <2>3. u \in Objects /\ Sound(u)
    BY <2>1, <2>2, Viewed
  <2> HIDE DEF u
  <2>4. v \in Objects /\ v.fin /\ ~v.deleting /\ v.ids = u.ids /\ v.spec = u.spec
    BY <2>2, <2>3 DEF Objects
  <2>5. v # NoObj
    BY <2>4, NullAssumption
  <2>6. Sound(v) /\ Moves(u, v)
    BY <2>2, <2>3, <2>4, <2>5 DEF Sound, Moves
  <2> HIDE DEF v
  <2> QED BY <2>1, <2>4, <2>6, WriteRefines DEF u
<1>3. CASE RemoveFinalizer(w)
  <2>1. pc[w] = "removeFinalizer" /\ Write(w, NoObj, "ok")
    BY <1>3 DEF RemoveFinalizer
  <2>2. Deleting(j) /\ (j.ids = <<>> \/ u.spec.group \notin Alive) /\ j \in Jobs
    BY <2>1, Busy DEF OnTask, DeleteSites
  <2>3. u # NoObj /\ u.deleting /\ Len(j.ids) = Len(u.ids)
    BY <2>2 DEF Deleting
  <2>4. u \in Objects
    BY <2>1, <2>3, Viewed
  <2>5. j.ids = <<>> => u.ids = <<>>
    BY <2>3, <2>4 DEF Objects
  <2> HIDE DEF u
  <2>6. Sound(NoObj) /\ Moves(u, NoObj)
    BY <2>2, <2>3, <2>5 DEF Sound, Moves
  <2> QED BY <2>1, <2>6, WriteRefines DEF u
<1>4. CASE ClearStatus(w)
  <2> DEFINE v == [u EXCEPT !.ids = <<>>, !.observed = TRUE]
  <2>1. pc[w] = "clearStatus" /\ Write(w, v, "after")
    BY <1>4 DEF ClearStatus
  <2>2. u # NoObj /\ u.deleting
    BY <2>1, Busy DEF OnTask, DeleteSites, Deleting
  <2>3. u \in Objects /\ Sound(u)
    BY <2>1, <2>2, Viewed
  <2> HIDE DEF u
  <2>4. v \in Objects /\ v.fin = u.fin /\ v.deleting /\ v.ids = <<>> /\ v.spec = u.spec
    <3>1. <<>> \in Seq(LBs)
      OBVIOUS
    <3> QED BY <2>2, <2>3, <3>1 DEF Objects
  <2>5. v # NoObj
    BY <2>4, NullAssumption
  <2> HIDE DEF v
  <2>6. Sound(v) /\ Moves(u, v)
    BY <2>2, <2>3, <2>4, <2>5 DEF Sound, Moves, Distinct
  <2> QED BY <2>1, <2>4, <2>6, WriteRefines DEF u
<1>5. CASE UpdateStatus(w)
  <2> DEFINE v == [u EXCEPT !.ids = j.results, !.observed = TRUE]
  <2>1. pc[w] = "updateStatus" /\ Write(w, v, "ok")
    BY <1>5 DEF UpdateStatus
  <2>2. /\ j.results \in Seq(LBs \union {Blank}) /\ Distinct(j.results) /\ j.arns \subseteq LBs
        /\ u # NoObj /\ u \in Objects /\ Updating(j) /\ StaleAt(j) = {}
    BY <2>1, Busy, BusyUpdating DEF UpdateSites, OnTask
  <2>3. \A p \in DOMAIN j.results : j.results[p] \in LBs
    BY <2>2 DEF StaleAt
  <2>4. j.results \in Seq(LBs)
    BY <2>2, <2>3
  <2>5. Held(u)
    BY <2>2 DEF Updating
  <2> HIDE DEF u
  <2>6. v \in Objects /\ v.fin /\ ~v.deleting /\ v.ids = j.results /\ v.spec = u.spec
    BY <2>2, <2>4, <2>5 DEF Objects, Held
  <2>7. v # NoObj
    BY <2>6, NullAssumption
  <2>8. Sound(v) /\ Moves(u, v)
    BY <2>2, <2>5, <2>6, <2>7 DEF Sound, Moves, Held
  <2> HIDE DEF v
  <2> QED BY <2>1, <2>6, <2>8, WriteRefines DEF u
<1> QED BY <1>1, <1>2, <1>3, <1>4, <1>5 DEF Work, Creates, Deletes, Updates

\* An edit of a user is a step of the lifecycle: the webhook keeps the group.
LEMMA EditRefines ==
  ASSUME BInv, NEW k \in Bindings, NEW s \in Specs \union {NoObj}, EditBinding(k, s)
  PROVE  [Lifecycle!Next]_(Lifecycle!vars)
<1> DEFINE u == Obj(k)
           v == Edited(u, s)
<1>1. /\ <<SpecOf(u), s>> \in Edits /\ (u # NoObj => ~u.deleting)
      /\ u # NoObj /\ s # NoObj => u.spec.group = s.group
      /\ log' = log \/ log' = [log EXCEPT ![k] = Append(log[k], v)]
      /\ Alive' = Alive
  BY DEF EditBinding, Commit, Admits, Alive
<1>2. u \in Objects \union {NoObj} /\ Sound(u)
  BY Newest
<1>3. u # NoObj \/ s # NoObj
  BY <1>1, EditAssumption DEF SpecOf
<1> HIDE DEF u
<1>4. v \in Objects \union {NoObj} /\ Sound(v)
  BY <1>1, <1>2, <1>3, EditedProps
<1>5. NoObj \notin Objects /\ NoObj \notin Specs
  BY NullAssumption
<1>6. Moves(u, v)
  <2>1. CASE u = NoObj
    <3>1. v = [spec |-> s, fin |-> FALSE, deleting |-> FALSE, ids |-> <<>>,
               observed |-> FALSE] /\ s \in Specs
      BY <1>3, <2>1 DEF Edited
    <3>2. v \in Objects /\ ~v.fin /\ ~v.deleting /\ v.ids = <<>>
      BY <3>1 DEF Objects
    <3> QED BY <1>5, <2>1, <3>2 DEF Moves
  <2>2. CASE u # NoObj /\ s # NoObj
    <3>1. v = [u EXCEPT !.spec = s, !.observed = FALSE] /\ s \in Specs
      BY <2>2 DEF Edited
    <3>2. v \in Objects /\ v.fin = u.fin /\ v.ids = u.ids /\ v.deleting = u.deleting
          /\ v.spec = s
      BY <1>2, <2>2, <3>1 DEF Objects
    <3> QED BY <1>1, <1>5, <2>2, <3>2 DEF Moves
  <2>3. CASE u # NoObj /\ s = NoObj /\ u.fin
    <3>1. v = [u EXCEPT !.deleting = TRUE, !.observed = FALSE]
      BY <2>3 DEF Edited
    <3>2. v \in Objects /\ v.fin = u.fin /\ v.ids = u.ids /\ v.deleting /\ v.spec = u.spec
      BY <1>2, <2>3, <3>1 DEF Objects
    <3> QED BY <1>1, <1>5, <2>3, <3>2 DEF Moves
  <2>4. CASE u # NoObj /\ s = NoObj /\ ~u.fin
    <3>1. v = NoObj
      BY <2>4 DEF Edited
    <3> QED BY <2>4, <3>1 DEF Moves
  <2> QED BY <2>1, <2>2, <2>3, <2>4
<1> HIDE DEF v
<1>7. CASE log' = log
  BY <1>1, <1>7, Stutters
<1>8. CASE log' = [log EXCEPT ![k] = Append(log[k], v)]
  BY <1>1, <1>4, <1>6, <1>8, MovesRefine DEF u
<1> QED BY <1>1, <1>7, <1>8

\* Every step is a step of the lifecycle or a stutter.
LEMMA NextRefines == BInv /\ [Next]_vars => [Lifecycle!Next]_(Lifecycle!vars)
<1> SUFFICES ASSUME BInv, [Next]_vars  PROVE [Lifecycle!Next]_(Lifecycle!vars)
  OBVIOUS
<1>1. CASE \E k \in Bindings, s \in Specs \union {NoObj} : EditBinding(k, s)
  BY <1>1, EditRefines
<1>2. ASSUME NEW g \in Groups, DeleteGroup(g)
      PROVE  [Lifecycle!Next]_(Lifecycle!vars)
  <2>1. groups \in GroupType /\ groups' = [groups EXCEPT ![g] = NoGroup] /\ log' = log
    BY <1>2 DEF DeleteGroup, BInv, TypeOK, GroupType
  <2>2. {h \in Groups : groups'[h] # NoGroup} = {h \in Groups : groups[h] # NoGroup} \ {g}
    BY <2>1 DEF GroupType
  <2>3. \A k \in Bindings : Image(Obj(k))' = Image(Obj(k))
    BY <2>1 DEF Image, Obj, IdSet
  <2>4. Lifecycle!GroupGoes(g)
    BY <2>2, <2>3 DEF Lifecycle!GroupGoes
  <2> QED BY <2>4 DEF Lifecycle!Next
<1>3. CASE \E w \in Workers : Work(w)
  BY <1>3, WorkRefines
<1>4. CASE \/ \E r \in Refs : \E e \in RefEdits : ChangeRef(r, e[2])
           \/ \E l \in LBs : LBActivate(l)
           \/ \E k \in Bindings : Deliver(k) \/ Resync(k)
           \/ \E w \in Workers, k \in Bindings : Take(w, k)
           \/ Crash
           \/ UNCHANGED vars
  <2>1. log' = log /\ groups' = groups
    BY <1>4 DEF ChangeRef, LBActivate, Deliver, Resync, Take, Call, Crash, vars
  <2>2. Alive' = Alive
    BY <2>1 DEF Alive
  <2> QED BY <2>1, <2>2, Stutters
<1> QED BY <1>1, <1>2, <1>3, <1>4 DEF Next

\* At the start no binding is there and every group is.
LEMMA InitRefines == Init => Lifecycle!Init
<1> SUFFICES ASSUME Init  PROVE Lifecycle!Init
  OBVIOUS
<1>1. \A k \in Bindings : Obj(k) = NoObj
  BY DEF Init, Obj
<1>2. \A k \in Bindings : Image(Obj(k)) = NoObj
  BY <1>1 DEF Image
<1>3. \A g \in Groups : groups[g] # NoGroup
  <2>1. [l \in LBs |-> None] \in [LBs -> Weights \union {None}]
    OBVIOUS
  <2>2. [l \in LBs |-> None] # NoGroup
    BY <2>1, NullAssumption
  <2> QED BY <2>2 DEF Init
<1> QED BY <1>2, <1>3 DEF Lifecycle!Init

\* The controller implements BindingLifecycle, with stale versions, failing
\* calls, panics and crashes: a binding goes only when its status names no
\* endpoint or its group is gone.
THEOREM RefinesBindingLifecycle == Spec => ImplementsBindingLifecycle
<1>1. Spec => Lifecycle!Init /\ [][Lifecycle!Next]_(Lifecycle!vars)
  BY InitRefines, NextRefines, Inductive, PTL DEF Spec
<1> QED BY <1>1 DEF ImplementsBindingLifecycle, Lifecycle!Spec
=============================================================================
