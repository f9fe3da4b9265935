---------------------- MODULE GlobalAcceleratorProofs ----------------------
(***************************************************************************)
(* Proofs about GlobalAccelerator, for every set of objects, workers,      *)
(* versions and accelerators and every bound on edits, faults and crashes: *)
(* the inductive invariant IInv, from it at most one accelerator per       *)
(* object and writes only by the worker that has the accelerator's object, *)
(* and the refinement of AcceleratorLifecycle.                             *)
(***************************************************************************)
EXTENDS GlobalAccelerator, TLAPS

AccType == [Arns -> Accelerators \union {NoAcc}]
SpentType == [changes : Nat, faults : Nat, crashes : Nat]

IInv == TypeOK /\ AtMostOneAccelerator /\ NoStaleFinding

\* What a step of a busy worker does to everything but its own pc and job.
Call(w) ==
  /\ w \in Workers /\ pc[w] # "idle"
  /\ UNCHANGED <<obj, watch, cache, active>>
  /\ acc' \in AccType /\ syncing' \in SUBSET Arns /\ spent' \in SpentType
  /\ \A h \in Keys \ {job[w].key} : Owned(h)' = Owned(h)
  /\ AtMostOneAccelerator'

-----------------------------------------------------------------------------
(* How the set of an object's accelerators changes *)

\* A step that leaves AWS alone changes nobody's accelerators.
LEMMA OwnedSame ==
  ASSUME acc' = acc
  PROVE  \A k \in Keys : Owned(k)' = Owned(k)
BY DEF Owned, Exists, TagsMatch

\* Rewriting an accelerator of k so that its tags still match.
LEMMA OwnedEdit ==
  ASSUME acc \in AccType, NEW k \in Keys, NEW a \in Owned(k),
         NEW r \in Accelerators, TagsMatch(r, k),
         acc' \in {acc, [acc EXCEPT ![a] = r]}
  PROVE  /\ acc' \in AccType
         /\ \A h \in Keys : Owned(h)' = Owned(h)
<1>1. a \in Arns /\ acc[a] # NoAcc /\ TagsMatch(acc[a], k)
  BY DEF Owned, Exists
<1>2. r # NoAcc
  BY NullAssumption
<1>3. acc' \in AccType
  BY <1>1 DEF AccType
<1>4. ASSUME NEW h \in Keys, NEW b \in Arns
      PROVE  b \in Owned(h)' <=> b \in Owned(h)
  <2>1. CASE b # a
    BY <1>1, <2>1 DEF Owned, Exists, TagsMatch, AccType
  <2>2. CASE b = a
    BY <1>1, <1>2, <2>2 DEF Owned, Exists, TagsMatch, AccType
  <2> QED BY <2>1, <2>2
<1> QED BY <1>3, <1>4 DEF Owned

\* Deleting an accelerator of k takes it from k and from nobody else.
LEMMA OwnedDelete ==
  ASSUME acc \in AccType, NEW k \in Keys, NEW a \in Owned(k),
         acc' \in {acc, [acc EXCEPT ![a] = NoAcc]}
  PROVE  /\ acc' \in AccType
         /\ \A h \in Keys \ {k} : Owned(h)' = Owned(h)
         /\ Owned(k)' \subseteq Owned(k)
         /\ Owned(k) \ {a} \subseteq Owned(k)'
<1>1. a \in Arns /\ acc[a] # NoAcc /\ TagsMatch(acc[a], k)
  BY DEF Owned, Exists
<1> QED BY <1>1 DEF Owned, Exists, TagsMatch, AccType

\* An accelerator created with the tags of k is one more of k's.
LEMMA OwnedCreate ==
  ASSUME acc \in AccType, NEW k \in Keys, NEW a \in Arns, ~Exists(a),
         NEW r \in Accelerators, TagsMatch(r, k),
         acc' \in {acc, [acc EXCEPT ![a] = r]}
  PROVE  /\ acc' \in AccType
         /\ \A h \in Keys \ {k} : Owned(h)' = Owned(h)
         /\ acc' = acc => Owned(k)' = Owned(k)
         /\ acc' # acc => Owned(k)' = Owned(k) \union {a}
<1>1. r # NoAcc
  BY NullAssumption
<1> QED BY <1>1 DEF Owned, Exists, TagsMatch, AccType

-----------------------------------------------------------------------------
(* Control: what Goto and Finish keep *)

\* A worker that does not move keeps its findings if its object's accelerators
\* stay the same.
LEMMA OthersKeep ==
  ASSUME IInv, NEW v \in Workers, pc[v] # "idle",
         pc'[v] = pc[v], job'[v] = job[v], job[v].key \in Keys,
         Owned(job[v].key) = {a \in Arns : acc'[a] # NoAcc /\ TagsMatch(acc'[a], job[v].key)}
  PROVE  (/\ OnTask(pc[v], job[v])
          /\ FindingsHold(pc[v], job[v], Owned(job[v].key)))'
<1>1. Owned(job[v].key)' = Owned(job[v].key)
  BY DEF Owned, Exists, TagsMatch
<1>2. OnTask(pc[v], job[v]) /\ FindingsHold(pc[v], job[v], Owned(job[v].key))
  BY DEF IInv, NoStaleFinding
<1>3. OnTask(pc[v], job[v])'
  BY <1>2 DEF OnTask
<1>4. FindingsHold(pc[v], job[v], Owned(job[v].key))'
  BY <1>1, <1>2 DEF FindingsHold
<1> QED BY <1>3, <1>4

\* A call after which worker w goes on with what it found out keeps IInv, if the
\* next call's findings hold.
LEMMA GotoKeeps ==
  ASSUME IInv, NEW w, Call(w), NEW site \in Sites, NEW j \in Jobs,
         j.key = job[w].key, Goto(w, site, j),
         OnTask(site, j), FindingsHold(site, j, Owned(j.key)')
  PROVE  IInv'
<1> USE DEF IInv, Call
<1>1. site # "idle" /\ j # NoJob
  BY NullAssumption DEF Sites, UpdateSites, CleanupSites
<1>2. /\ pc' = [pc EXCEPT ![w] = site] /\ pc' \in [Workers -> Sites \union {"idle"}]
      /\ job' = [job EXCEPT ![w] = j] /\ job' \in [Workers -> Jobs \union {NoJob}]
      /\ queue' = queue
  BY DEF Goto, TypeOK
<1>3. TypeOK'
  BY <1>1, <1>2 DEF TypeOK, AccType, SpentType
<1>4. AtMostOneAccelerator'
  BY DEF AtMostOneAccelerator
<1>5. OneWorkerPerKey'
  BY <1>2 DEF NoStaleFinding, OneWorkerPerKey, TypeOK
<1>6. ASSUME NEW v \in Workers, pc'[v] # "idle"
      PROVE  (/\ OnTask(pc[v], job[v])
              /\ FindingsHold(pc[v], job[v], Owned(job[v].key)))'
  <2>1. CASE v = w
    <3>1. pc'[v] = site /\ job'[v] = j
      BY <1>2, <2>1 DEF TypeOK
    <3>2. Owned(job[v].key)' = Owned(j.key)'
      BY <3>1 DEF Owned, Exists
    <3>3. OnTask(pc[v], job[v])'
      BY <3>1 DEF OnTask
    <3>4. FindingsHold(pc[v], job[v], Owned(job[v].key))'
      BY <3>1, <3>2 DEF FindingsHold
    <3> QED BY <3>3, <3>4
  <2>2. CASE v # w
    <3>1. pc'[v] = pc[v] /\ job'[v] = job[v] /\ pc[v] # "idle"
      BY <1>2, <1>6, <2>2 DEF TypeOK
    <3>2. job[v].key \in Keys \ {job[w].key}
      BY <3>1, <2>2 DEF TypeOK, NoStaleFinding, OneWorkerPerKey, Jobs
    <3>3. Owned(job[v].key) =
            {a \in Arns : acc'[a] # NoAcc /\ TagsMatch(acc'[a], job[v].key)}
      BY <3>2 DEF Owned, Exists, TagsMatch
    <3> QED BY <3>1, <3>2, <3>3, OthersKeep
  <2> QED BY <2>1, <2>2
<1> QED BY <1>3, <1>4, <1>5, <1>6 DEF NoStaleFinding

\* The end of a key keeps IInv: the queue lets go of it and so does the worker.
LEMMA FinishKeeps ==
  ASSUME IInv, NEW w, Call(w), NEW res, Finish(w, res)
  PROVE  IInv'
<1> USE DEF IInv, Call
<1> DEFINE k == job[w].key
           q == queue[QueueOf[w]]
<1>1. /\ pc' = [pc EXCEPT ![w] = "idle"] /\ pc' \in [Workers -> Sites \union {"idle"}]
      /\ job' = [job EXCEPT ![w] = NoJob] /\ job' \in [Workers -> Jobs \union {NoJob}]
      /\ queue' = [queue EXCEPT ![QueueOf[w]] = Finished(q, k, res)]
  BY DEF Finish, TypeOK
<1>2. QueueOf[w] \in Kinds /\ q \in QueueOver(Keys) /\ k \in Keys
  BY KindAssumption DEF TypeOK, Jobs
<1>3. /\ Finished(q, k, res) \in QueueOver(Keys)
      /\ Finished(q, k, res).processing = q.processing \ {k}
  BY <1>2 DEF Finished, Done, Add, QueueOver
<1>4. TypeOK'
  <2>1. queue' \in [Kinds -> QueueOver(Keys)]
    BY <1>1, <1>3 DEF TypeOK
  <2> QED BY <1>1, <2>1 DEF TypeOK, AccType, SpentType
<1>5. AtMostOneAccelerator'
  BY DEF AtMostOneAccelerator
<1>6. ASSUME NEW v \in Workers, pc'[v] # "idle"
      PROVE  /\ v # w /\ pc'[v] = pc[v] /\ job'[v] = job[v]
             /\ job[v].key \in Keys \ {k}
  <2>1. v # w /\ pc'[v] = pc[v] /\ job'[v] = job[v] /\ pc[v] # "idle"
    BY <1>1, <1>6 DEF TypeOK
  <2> QED BY <2>1 DEF TypeOK, NoStaleFinding, OneWorkerPerKey, Jobs
<1>7. OneWorkerPerKey'
  <2>1. ASSUME NEW v \in Workers, pc'[v] # "idle"
        PROVE  job'[v].key \in queue'[QueueOf[v]].processing
    <3>1. job[v].key \in queue[QueueOf[v]].processing /\ QueueOf[v] \in Kinds
      BY <1>6, <2>1, KindAssumption DEF NoStaleFinding, OneWorkerPerKey
    <3> QED BY <1>1, <1>2, <1>3, <1>6, <2>1, <3>1 DEF TypeOK
  <2> QED BY <1>6, <2>1 DEF NoStaleFinding, OneWorkerPerKey
<1>8. ASSUME NEW v \in Workers, pc'[v] # "idle"
      PROVE  (/\ OnTask(pc[v], job[v])
              /\ FindingsHold(pc[v], job[v], Owned(job[v].key)))'
  <2>1. Owned(job[v].key) = {a \in Arns : acc'[a] # NoAcc /\ TagsMatch(acc'[a], job[v].key)}
    BY <1>6, <1>8 DEF Owned, Exists, TagsMatch
  <2> QED BY <1>6, <1>8, <2>1, OthersKeep
<1> QED BY <1>4, <1>5, <1>7, <1>8 DEF NoStaleFinding

-----------------------------------------------------------------------------
(* The continuations of the workflow *)

\* The loop over the status hostnames keeps IInv.
LEMMA EnsureFromKeeps ==
  ASSUME IInv, NEW w, Call(w), NEW j \in Jobs, j.key = job[w].key,
         j.mode = "ensure", j.view \in Versions, NEW i \in Nat, i >= 1,
         EnsureFrom(w, j, i)
  PROVE  IInv'
<1>1. CASE Finish(w, "ok") \/ Finish(w, "err")
  BY <1>1, FinishKeeps
<1>2. ASSUME NEW n \in i .. Len(j.view.lbs),
             Goto(w, "loadBalancer", [j EXCEPT !.i = n, !.arn = None])
      PROVE  IInv'
  <2> DEFINE j2 == [j EXCEPT !.i = n, !.arn = None]
  <2>1. Len(j.view.lbs) \in Nat /\ DOMAIN j.view.lbs = 1 .. Len(j.view.lbs)
    BY VersionAssumption DEF IsVersion
  <2>2. n \in DOMAIN j.view.lbs /\ n \in Nat
    BY <2>1
  <2>3. /\ j2 \in Jobs /\ j2.key = job[w].key /\ j2.mode = "ensure"
        /\ j2.view = j.view /\ j2.i = n
    BY <2>2 DEF Jobs
  <2>4. OnTask("loadBalancer", j2)
    BY <2>2, <2>3 DEF OnTask, CleanupSites
  <2>5. FindingsHold("loadBalancer", j2, Owned(j2.key)')
    BY DEF FindingsHold, UpdateSites, CleanupSites
  <2>6. "loadBalancer" \in Sites
    BY DEF Sites
  <2> HIDE DEF j2
  <2>7. Goto(w, "loadBalancer", j2)
    BY <1>2 DEF j2
  <2> QED BY <2>3, <2>4, <2>5, <2>6, <2>7, GotoKeeps
<1> QED BY <1>1, <1>2 DEF EnsureFrom

\* Going on with the next accelerator keeps IInv, if all those left are still
\* the object's.
LEMMA NextKeeps ==
  ASSUME IInv, NEW w, Call(w), NEW j \in Jobs, j.key = job[w].key,
         j.mode = "ensure" => j.view \in Versions /\ j.i \in DOMAIN j.view.lbs,
         j.todo \subseteq Owned(j.key)', NextAccelerator(w, j)
  PROVE  IInv'
<1> DEFINE site == IF j.mode = "ensure" THEN "changed" ELSE "describe"
<1>1. PICK a \in j.todo : Goto(w, site, [j EXCEPT !.arn = a, !.todo = j.todo \ {a}])
  BY DEF NextAccelerator
<1> DEFINE j2 == [j EXCEPT !.arn = a, !.todo = j.todo \ {a}]
<1>2. /\ j2 \in Jobs /\ j2.key = job[w].key /\ j2.mode = j.mode /\ j2.view = j.view
      /\ j2.i = j.i /\ j2.arn = a /\ j2.todo = j.todo \ {a}
  BY DEF Jobs
<1>3. site \in Sites /\ OnTask(site, j2)
  BY <1>2 DEF OnTask, Sites, UpdateSites, CleanupSites
<1>4. FindingsHold(site, j2, Owned(j2.key)')
  BY <1>2 DEF FindingsHold
<1> HIDE DEF j2, site
<1>5. Goto(w, site, j2)
  BY <1>1 DEF j2
<1> QED BY <1>2, <1>3, <1>4, <1>5, GotoKeeps

\* The decision after the list keeps IInv: the list is exactly what the object has.
LEMMA ListedKeeps ==
  ASSUME IInv, NEW w, Call(w), NEW j \in Jobs, j.key = job[w].key, j.mode # "abort",
         j.mode = "ensure" => j.view \in Versions /\ j.i \in DOMAIN j.view.lbs,
         j.todo = Owned(j.key)', Listed(w, j)
  PROVE  IInv'
<1>1. CASE j.todo # {} /\ NextAccelerator(w, j)
  BY <1>1, NextKeeps
<1>2. CASE j.todo = {} /\ j.mode = "ensure" /\ Goto(w, "create", j)
  <2>1. "create" \in Sites /\ OnTask("create", j)
    BY <1>2 DEF OnTask, Sites, CleanupSites
  <2>2. FindingsHold("create", j, Owned(j.key)')
    BY <1>2 DEF FindingsHold, UpdateSites, CleanupSites
  <2> QED BY <1>2, <2>1, <2>2, GotoKeeps
<1>3. CASE Finish(w, "ok")
  BY <1>3, FinishKeeps
<1> QED BY <1>1, <1>2, <1>3 DEF Listed

\* The end of one update keeps IInv.
LEMMA UpdatedKeeps ==
  ASSUME IInv, NEW w, Call(w), NEW j \in Jobs, j.key = job[w].key,
         j.mode = "ensure", j.view \in Versions, j.i \in DOMAIN j.view.lbs,
         j.todo \subseteq Owned(j.key)', Updated(w, j)
  PROVE  IInv'
<1>1. CASE NextAccelerator(w, j)
  BY <1>1, NextKeeps
<1>2. CASE EnsureFrom(w, j, j.i + 1)
  <2>1. j.i + 1 \in Nat /\ j.i + 1 >= 1
    BY DEF Jobs
  <2> QED BY <1>2, <2>1, EnsureFromKeeps
<1> QED BY <1>1, <1>2 DEF Updated

\* The end of one cleanup keeps IInv.
LEMMA CleanedKeeps ==
  ASSUME IInv, NEW w, Call(w), NEW j \in Jobs, j.key = job[w].key, j.mode # "ensure",
         j.todo \subseteq Owned(j.key)', NEW ok, Cleaned(w, j, ok)
  PROVE  IInv'
<1>1. CASE NextAccelerator(w, j)
  BY <1>1, NextKeeps
<1>2. CASE Finish(w, "ok") \/ Finish(w, "err")
  BY <1>2, FinishKeeps
<1> QED BY <1>1, <1>2 DEF Cleaned

-----------------------------------------------------------------------------
(* Calls *)

\* What a worker at one of the calls about one accelerator can count on.
LEMMA AtOwn ==
  ASSUME IInv, NEW w \in Workers, pc[w] \in UpdateSites \union CleanupSites
  PROVE  /\ pc[w] # "idle" /\ job[w] \in Jobs /\ job[w].key \in Keys
         /\ job[w].arn \in Owned(job[w].key) /\ job[w].arn \in Arns
         /\ acc[job[w].arn] \in Accelerators /\ Exists(job[w].arn)
         /\ TagsMatch(acc[job[w].arn], job[w].key)
         /\ job[w].todo \subseteq Owned(job[w].key) \ {job[w].arn}
         /\ pc[w] \in UpdateSites => /\ job[w].mode = "ensure"
                                     /\ job[w].view \in Versions
                                     /\ job[w].i \in DOMAIN job[w].view.lbs
                                     /\ Host(job[w]) \in LBs
         /\ pc[w] \in CleanupSites => job[w].mode # "ensure"
<1>1. pc[w] \notin {"idle", "read"}
  BY DEF UpdateSites, CleanupSites
<1>2. job[w] \in Jobs /\ job[w].key \in Keys
  BY <1>1 DEF IInv, TypeOK, Jobs
<1>3. OnTask(pc[w], job[w]) /\ FindingsHold(pc[w], job[w], Owned(job[w].key))
  BY <1>1 DEF IInv, NoStaleFinding
<1>4. /\ job[w].arn \in Owned(job[w].key)
      /\ job[w].todo \subseteq Owned(job[w].key) \ {job[w].arn}
  BY <1>3 DEF FindingsHold
<1>5. /\ job[w].arn \in Arns /\ Exists(job[w].arn)
      /\ TagsMatch(acc[job[w].arn], job[w].key)
  BY <1>4 DEF Owned
<1>6. acc[job[w].arn] \in Accelerators
  BY <1>5 DEF IInv, TypeOK, Exists
<1>7. pc[w] \in UpdateSites => /\ job[w].mode = "ensure" /\ job[w].view \in Versions
                               /\ job[w].i \in DOMAIN job[w].view.lbs
  BY <1>1, <1>3 DEF OnTask
<1>8. pc[w] \in UpdateSites => Host(job[w]) \in LBs
  BY <1>7, VersionAssumption DEF Host, IsVersion
<1>9. pc[w] \in CleanupSites => job[w].mode # "ensure"
  BY <1>3 DEF OnTask
<1> QED BY <1>1, <1>2, <1>4, <1>5, <1>6, <1>7, <1>8, <1>9

\* A call that changes nothing in AWS.
LEMMA ReadCall ==
  ASSUME IInv, NEW w \in Workers, pc[w] # "idle", UNCHANGED <<cluster, active>>,
         acc' = acc, syncing' \in SUBSET Arns, spent' \in SpentType
  PROVE  Call(w) /\ \A h \in Keys : Owned(h)' = Owned(h)
<1>1. \A h \in Keys : Owned(h)' = Owned(h)
  BY OwnedSame
<1>2. AtMostOneAccelerator'
  BY <1>1 DEF IInv, AtMostOneAccelerator
<1> QED BY <1>1, <1>2 DEF Call, cluster, IInv, TypeOK, AccType

\* A call that writes the worker's accelerator and leaves its tags matching.
LEMMA EditCall ==
  ASSUME IInv, NEW w \in Workers, pc[w] \in UpdateSites \union CleanupSites,
         UNCHANGED <<cluster, active>>,
         NEW r \in Accelerators, TagsMatch(r, job[w].key),
         acc' \in {acc, [acc EXCEPT ![job[w].arn] = r]},
         syncing' \in SUBSET Arns, spent' \in SpentType
  PROVE  Call(w) /\ \A h \in Keys : Owned(h)' = Owned(h)
<1>1. acc' \in AccType /\ \A h \in Keys : Owned(h)' = Owned(h)
  BY AtOwn, OwnedEdit DEF IInv, TypeOK, AccType
<1>2. AtMostOneAccelerator'
  BY <1>1 DEF IInv, AtMostOneAccelerator
<1> QED BY <1>1, <1>2, AtOwn DEF Call, cluster

\* From one call about the accelerator to the next.
LEMMA FollowKeeps ==
  ASSUME IInv, NEW w \in Workers, Call(w), \A h \in Keys : Owned(h)' = Owned(h),
         NEW site, Goto(w, site, job[w]),
         \/ pc[w] \in UpdateSites /\ site \in UpdateSites
         \/ pc[w] \in CleanupSites /\ site \in CleanupSites
  PROVE  IInv'
<1> DEFINE j == job[w]
<1>1. j \in Jobs /\ j.key \in Keys
  BY AtOwn
<1>2. site \in Sites
  BY DEF Sites
<1>3. OnTask(site, j)
  BY AtOwn DEF OnTask, UpdateSites, CleanupSites
<1>4. Owned(job[w].key) = {a \in Arns : acc'[a] # NoAcc /\ TagsMatch(acc'[a], job[w].key)}
  BY <1>1 DEF Owned, Exists, TagsMatch
<1>5. \A h : h = job[w].key => FindingsHold(site, j, Owned(h)')
  BY <1>4, AtOwn DEF FindingsHold, UpdateSites, CleanupSites, Owned, Exists
<1> QED BY <1>1, <1>2, <1>3, <1>5, GotoKeeps

\* A call about the accelerator, answered or failed, that writes record r.
LEMMA WriteCall ==
  ASSUME IInv, NEW w \in Workers, pc[w] \in UpdateSites \union CleanupSites,
         UNCHANGED <<cluster, active>>, syncing' \in SUBSET Arns,
         NEW r, Exists(job[w].arn) => r \in Accelerators /\ TagsMatch(r, job[w].key),
         NEW allowed,
         LET new == [acc EXCEPT ![job[w].arn] = r]
         IN  Answers(allowed, new) \/ Fails(w, allowed, new)
  PROVE  Call(w) /\ \A h \in Keys : Owned(h)' = Owned(h)
<1>1. acc' \in {acc, [acc EXCEPT ![job[w].arn] = r]}
  BY DEF Answers, Fails
<1>2. spent' \in SpentType
  <2>1. spent' \in {spent, [spent EXCEPT !.faults = spent.faults + 1]}
    BY DEF Answers, Fails
  <2> QED BY <2>1 DEF IInv, TypeOK, SpentType
<1>3. r \in Accelerators /\ TagsMatch(r, job[w].key)
  BY AtOwn
<1> QED BY <1>1, <1>2, <1>3, EditCall

\* The same for a call that only reads.
LEMMA AskCall ==
  ASSUME IInv, NEW w \in Workers, pc[w] # "idle", UNCHANGED <<cluster, active>>,
         syncing' = syncing, NEW allowed, Answers(allowed, acc) \/ Fails(w, allowed, acc)
  PROVE  Call(w) /\ \A h \in Keys : Owned(h)' = Owned(h)
<1>1. acc' = acc /\ spent' \in SpentType
  BY DEF Answers, Fails, IInv, TypeOK, SpentType
<1> QED BY <1>1, ReadCall DEF IInv, TypeOK

\* The accelerators a worker has still to handle remain the object's.
LEMMA TodoKept ==
  ASSUME IInv, NEW w \in Workers, pc[w] \in UpdateSites \union CleanupSites,
         \A h \in Keys : Owned(h)' = Owned(h)
  PROVE  \A h : h = job[w].key => job[w].todo \subseteq Owned(h)'
BY AtOwn

\* createGlobalAccelerator... gives up and its caller cleans up.
LEMMA AbortKeeps ==
  ASSUME IInv, NEW w \in Workers, Call(w), \A h \in Keys : Owned(h)' = Owned(h),
         pc[w] \in UpdateSites, AbortCreate(w, job[w])
  PROVE  IInv'
<1> DEFINE j == [job[w] EXCEPT !.mode = "abort"]
<1>1. /\ j \in Jobs /\ j.key = job[w].key /\ j.mode = "abort"
      /\ j.arn = job[w].arn /\ j.todo = job[w].todo
  BY AtOwn DEF Jobs
<1>2. "describe" \in Sites /\ OnTask("describe", j)
  BY <1>1 DEF OnTask, Sites, UpdateSites, CleanupSites
<1>3. \A h : h = job[w].key => FindingsHold("describe", j, Owned(h)')
  BY <1>1, AtOwn DEF FindingsHold
<1> HIDE DEF j
<1>4. Goto(w, "describe", j)
  BY DEF AbortCreate, j
<1> QED BY <1>1, <1>2, <1>3, <1>4, GotoKeeps

-----------------------------------------------------------------------------
(* ProcessNextWorkItem and the list *)

\* A worker that gets a key is the only one to have it.
LEMMA TakeKeeps ==
  ASSUME IInv, NEW w \in Workers, NEW k \in Keys, Take(w, k)
  PROVE  IInv'
<1> DEFINE j == [key |-> k, view |-> NoObj, i |-> 0, listed |-> {}, todo |-> {},
                 arn |-> None, mode |-> "ensure"]
           q == queue[QueueOf[w]]
<1>1. /\ pc[w] = "idle" /\ pc' = [pc EXCEPT ![w] = "read"]
      /\ job' = [job EXCEPT ![w] = j] /\ j \in Jobs /\ j.key = k /\ j.mode = "ensure"
      /\ queue' = [queue EXCEPT ![QueueOf[w]] = Get(q, k)]
      /\ UNCHANGED <<obj, watch, cache, active, acc, syncing, spent>>
      /\ KindOf[k] = QueueOf[w] /\ k \notin q.processing
  BY DEF Take, At, cluster, Jobs, CanGet
<1>2. QueueOf[w] \in Kinds /\ q \in QueueOver(Keys)
  BY KindAssumption DEF IInv, TypeOK
<1>3. Get(q, k) \in QueueOver(Keys) /\ Get(q, k).processing = q.processing \union {k}
  BY <1>2 DEF Get, QueueOver
<1>4. TypeOK'
  <2>1. job' \in [Workers -> Jobs \union {NoJob}] /\ pc' \in [Workers -> Sites \union {"idle"}]
    BY <1>1 DEF IInv, TypeOK, Sites
  <2>2. queue' \in [Kinds -> QueueOver(Keys)]
    BY <1>1, <1>3 DEF IInv, TypeOK
  <2>3. j # NoJob
    BY <1>1, NullAssumption
  <2> HIDE DEF j, q
  <2>4. \A v \in Workers : (pc'[v] = "idle") <=> (job'[v] = NoJob)
    BY <1>1, <2>3 DEF IInv, TypeOK
  <2> QED BY <1>1, <2>1, <2>2, <2>4 DEF IInv, TypeOK
<1>5. \A h \in Keys : Owned(h)' = Owned(h)
  BY <1>1, OwnedSame
<1>6. AtMostOneAccelerator'
  BY <1>5 DEF IInv, AtMostOneAccelerator
<1> HIDE DEF j
<1>7. ASSUME NEW v \in Workers, v # w, pc'[v] # "idle"
      PROVE  /\ pc'[v] = pc[v] /\ job'[v] = job[v] /\ pc[v] # "idle"
             /\ job[v].key \in Keys \ {k}
             /\ job'[v].key \in queue'[QueueOf[v]].processing
  <2>1. pc'[v] = pc[v] /\ job'[v] = job[v] /\ pc[v] # "idle"
    BY <1>1, <1>7 DEF IInv, TypeOK
  <2>2. /\ KindOf[job[v].key] = QueueOf[v] /\ QueueOf[v] \in Kinds
        /\ job[v].key \in queue[QueueOf[v]].processing /\ job[v].key \in Keys
    BY <2>1, KindAssumption DEF IInv, TypeOK, NoStaleFinding, OneWorkerPerKey, Jobs
  <2>3. job[v].key # k
    BY <1>1, <2>2
  <2>4. job'[v].key \in queue'[QueueOf[v]].processing
    BY <1>1, <1>2, <1>3, <2>1, <2>2 DEF IInv, TypeOK
  <2> QED BY <2>1, <2>2, <2>3, <2>4
<1>8. pc'[w] = "read" /\ job'[w] = j /\ k \in queue'[QueueOf[w]].processing
  BY <1>1, <1>2, <1>3 DEF IInv, TypeOK
<1>9. OneWorkerPerKey'
  BY <1>1, <1>7, <1>8 DEF OneWorkerPerKey, IInv, NoStaleFinding
<1>10. ASSUME NEW v \in Workers, pc'[v] # "idle"
       PROVE  (/\ OnTask(pc[v], job[v])
               /\ FindingsHold(pc[v], job[v], Owned(job[v].key)))'
  <2>1. CASE v = w
    BY <1>1, <1>8, <2>1 DEF OnTask, FindingsHold, UpdateSites, CleanupSites
  <2>2. CASE v # w
    <3>1. Owned(job[v].key) =
            {a \in Arns : acc'[a] # NoAcc /\ TagsMatch(acc'[a], job[v].key)}
      BY <1>1 DEF Owned, Exists
    <3> QED BY <1>7, <1>10, <2>2, <3>1, OthersKeep
  <2> QED BY <2>1, <2>2
<1> QED BY <1>4, <1>6, <1>9, <1>10 DEF IInv, NoStaleFinding

\* Reading the cached object keeps IInv.
LEMMA ReadObjectKeeps ==
  ASSUME IInv, NEW w \in Workers, ReadObject(w)
  PROVE  IInv'
<1> DEFINE v == cache[job[w].key]
           j == [job[w] EXCEPT !.view = v]
           cleanup == [j EXCEPT !.mode = "cleanup"]
<1>1. pc[w] = "read" /\ UNCHANGED <<cluster, active, acc, syncing, spent>>
  BY DEF ReadObject, At
<1>2. job[w] \in Jobs /\ job[w].key \in Keys
  BY <1>1 DEF IInv, TypeOK, Jobs
<1>3. v \in Versions \union {NoObj}
  BY <1>2 DEF IInv, TypeOK
<1>4. j \in Jobs /\ j.key = job[w].key /\ j.view = v /\ j.mode = job[w].mode
  BY <1>2, <1>3 DEF Jobs
<1>5. cleanup \in Jobs /\ cleanup.key = job[w].key /\ cleanup.mode = "cleanup"
  BY <1>2, <1>3 DEF Jobs
<1>6. Call(w)
  BY <1>1, ReadCall DEF IInv, TypeOK, SpentType
<1>7. CASE Goto(w, "list", cleanup)
  <2>1. "list" \in Sites /\ OnTask("list", cleanup)
    BY <1>5 DEF OnTask, Sites, UpdateSites, CleanupSites
  <2>2. \A h : FindingsHold("list", cleanup, Owned(h)')
    BY DEF FindingsHold, UpdateSites, CleanupSites
  <2> HIDE DEF cleanup
  <2> QED BY <1>5, <1>6, <1>7, <2>1, <2>2, GotoKeeps
<1>8. CASE Finish(w, "ok")
  BY <1>6, <1>8, FinishKeeps
<1>9. CASE v # NoObj /\ EnsureFrom(w, j, 1)
  <2>1. job[w].mode = "ensure"
    BY <1>1 DEF IInv, NoStaleFinding, OnTask
  <2>2. j \in Jobs /\ j.key = job[w].key /\ j.mode = "ensure" /\ j.view \in Versions
    BY <1>3, <1>4, <1>9, <2>1
  <2> HIDE DEF j, v
  <2>3. EnsureFrom(w, j, 1) /\ 1 \in Nat /\ 1 >= 1
    BY <1>9
  <2> QED BY <1>6, <2>2, <2>3, EnsureFromKeeps
<1> QED BY <1>7, <1>8, <1>9 DEF ReadObject

-----------------------------------------------------------------------------
(* EnsureGlobalAccelerator..., up to the creation *)

\* What a worker before the choice of an accelerator can count on.
LEMMA AtList ==
  ASSUME IInv, NEW w \in Workers, pc[w] \in {"loadBalancer", "list", "tags", "create"}
  PROVE  /\ pc[w] # "idle" /\ job[w] \in Jobs /\ job[w].key \in Keys
         /\ job[w].mode # "abort"
         /\ job[w].mode = "ensure" =>
              job[w].view \in Versions /\ job[w].i \in DOMAIN job[w].view.lbs
         /\ pc[w] \in {"loadBalancer", "create"} => job[w].mode = "ensure"
         /\ FindingsHold(pc[w], job[w], Owned(job[w].key))
<1>1. pc[w] \notin {"idle", "read"}
  OBVIOUS
<1>2. job[w] \in Jobs /\ job[w].key \in Keys
  BY <1>1 DEF IInv, TypeOK, Jobs
<1>3. OnTask(pc[w], job[w]) /\ FindingsHold(pc[w], job[w], Owned(job[w].key))
  BY <1>1 DEF IInv, NoStaleFinding
<1> QED BY <1>1, <1>2, <1>3 DEF OnTask

\* Asking for the load balancer's state keeps IInv.
LEMMA DescribeLoadBalancerKeeps ==
  ASSUME IInv, NEW w \in Workers, DescribeLoadBalancer(w)
  PROVE  IInv'
<1> DEFINE j == job[w]
<1>1. pc[w] = "loadBalancer" /\ UNCHANGED <<cluster, active, syncing>>
  BY DEF DescribeLoadBalancer, At
<1>2. Call(w)
  BY <1>1, AskCall DEF DescribeLoadBalancer
<1>3. /\ j \in Jobs /\ j.mode = "ensure"
      /\ j.view \in Versions /\ j.i \in DOMAIN j.view.lbs
  BY <1>1, AtList
<1>4. CASE Goto(w, "list", j)
  <2>1. "list" \in Sites /\ OnTask("list", j)
    BY <1>3 DEF OnTask, Sites, UpdateSites, CleanupSites
  <2>2. \A h : FindingsHold("list", j, Owned(h)')
    BY DEF FindingsHold, UpdateSites, CleanupSites
  <2> QED BY <1>2, <1>3, <1>4, <2>1, <2>2, GotoKeeps
<1>5. CASE Finish(w, "after") \/ Finish(w, "err")
  BY <1>2, <1>5, FinishKeeps
<1> QED BY <1>4, <1>5 DEF DescribeLoadBalancer

\* The list of accelerators leaves out none of the object's.
LEMMA ListAcceleratorsKeeps ==
  ASSUME IInv, NEW w \in Workers, ListAccelerators(w)
  PROVE  IInv'
<1> DEFINE all == {a \in Arns : Exists(a)}
           j == [job[w] EXCEPT !.listed = all, !.todo = {}]
<1>1. pc[w] = "list" /\ UNCHANGED <<cluster, active, syncing>>
  BY DEF ListAccelerators, At
<1>2. Call(w) /\ \A h \in Keys : Owned(h)' = Owned(h)
  BY <1>1, AskCall DEF ListAccelerators
<1>3. /\ j \in Jobs /\ j.key = job[w].key /\ j.key \in Keys /\ j.mode # "abort"
      /\ j.mode = "ensure" => j.view \in Versions /\ j.i \in DOMAIN j.view.lbs
      /\ j.todo = {} /\ j.listed = all
  BY <1>1, AtList DEF Jobs
<1>4. \A h \in Keys : Owned(h)' \subseteq all
  BY <1>2 DEF Owned
<1> HIDE DEF j, all
<1>5. CASE all = {} /\ Listed(w, j)
  <2>1. \A h \in Keys : Owned(h)' = {}
    BY <1>4, <1>5
  <2> QED BY <1>2, <1>3, <1>5, <2>1, ListedKeeps
<1>6. CASE Goto(w, "tags", j)
  <2>1. "tags" \in Sites /\ OnTask("tags", j)
    BY <1>3 DEF OnTask, Sites, UpdateSites, CleanupSites
  <2>2. \A h \in Keys : FindingsHold("tags", j, Owned(h)')
    BY <1>3, <1>4 DEF FindingsHold, UpdateSites, CleanupSites
  <2> QED BY <1>2, <1>3, <1>6, <2>1, <2>2, GotoKeeps
<1>7. CASE Finish(w, "err")
  BY <1>2, <1>7, FinishKeeps
<1> QED BY <1>5, <1>6, <1>7 DEF ListAccelerators, all, j

\* Sorting the listed accelerators by their tags loses none and adds none: the
\* tags of the object's accelerators cannot change while the worker has it.
LEMMA ListTagsKeeps ==
  ASSUME IInv, NEW w \in Workers, ListTags(w)
  PROVE  IInv'
<1> DEFINE k == job[w].key
           rest(a) == job[w].listed \ {a}
           found(a) == IF TagsMatch(acc[a], k) THEN job[w].todo \union {a} ELSE job[w].todo
           j(a) == [job[w] EXCEPT !.listed = rest(a), !.todo = found(a)]
<1>1. pc[w] = "tags" /\ UNCHANGED <<cluster, active, syncing>>
  BY DEF ListTags, At
<1>2. PICK a \in job[w].listed :
        \/ /\ Answers(Exists(a), acc)
           /\ IF rest(a) = {} THEN Listed(w, j(a)) ELSE Goto(w, "tags", j(a))
        \/ Fails(w, Exists(a), acc) /\ Finish(w, "err")
  BY DEF ListTags
<1>3. Call(w) /\ \A h \in Keys : Owned(h)' = Owned(h)
  BY <1>1, <1>2, AskCall
<1>4. CASE Fails(w, Exists(a), acc) /\ Finish(w, "err")
  BY <1>3, <1>4, FinishKeeps
<1>5. CASE Exists(a) /\ IF rest(a) = {} THEN Listed(w, j(a)) ELSE Goto(w, "tags", j(a))
  <2>1. /\ job[w] \in Jobs /\ k \in Keys /\ a \in Arns
        /\ job[w].todo \subseteq Owned(k)
        /\ Owned(k) \subseteq job[w].listed \union job[w].todo
    BY <1>1, AtList DEF FindingsHold, Jobs
  <2>2. found(a) \subseteq Owned(k) /\ Owned(k) \subseteq rest(a) \union found(a)
    BY <1>5, <2>1 DEF Owned
  <2>3. found(a) \in SUBSET Arns /\ rest(a) \in SUBSET Arns
    BY <2>1 DEF Jobs
  <2>4. /\ j(a) \in Jobs /\ j(a).key = k /\ j(a).mode = job[w].mode
        /\ j(a).view = job[w].view /\ j(a).i = job[w].i
        /\ j(a).listed = rest(a) /\ j(a).todo = found(a)
    BY <2>1, <2>3 DEF Jobs
  <2>5. /\ j(a).mode # "abort"
        /\ j(a).mode = "ensure" => j(a).view \in Versions /\ j(a).i \in DOMAIN j(a).view.lbs
    BY <1>1, <2>4, AtList
  <2>6. \A h : h = k => found(a) \subseteq Owned(h)' /\ Owned(h)' \subseteq rest(a) \union found(a)
    BY <1>3, <2>1, <2>2
  <2> HIDE DEF j, found, rest, k
  <2>7. CASE rest(a) = {} /\ Listed(w, j(a))
    <3>1. ASSUME NEW h, h = k  PROVE  j(a).todo = Owned(h)'
      <4>1. found(a) \subseteq Owned(h)' /\ Owned(h)' \subseteq found(a)
        BY <2>6, <2>7, <3>1
      <4>2. found(a) = Owned(h)'
        BY <4>1
      <4> QED BY <2>4, <4>2
    <3> QED BY <1>3, <2>4, <2>5, <2>7, <3>1, ListedKeeps DEF k
  <2>8. CASE Goto(w, "tags", j(a))
    <3>1. "tags" \in Sites /\ OnTask("tags", j(a))
      BY <2>5 DEF OnTask, Sites, UpdateSites, CleanupSites
    <3>2. \A h : h = k => FindingsHold("tags", j(a), Owned(h)')
      BY <2>4, <2>6 DEF FindingsHold, UpdateSites, CleanupSites
    <3> QED BY <1>3, <2>4, <2>8, <3>1, <3>2, GotoKeeps DEF k
  <2> QED BY <1>5, <2>7, <2>8
<1> QED BY <1>2, <1>4, <1>5 DEF Answers

\* The creation finds the object still without accelerator and leaves it with one.
LEMMA CreateAcceleratorKeeps ==
  ASSUME IInv, NEW w \in Workers, CreateAccelerator(w)
  PROVE  IInv'
<1> DEFINE j == job[w]
           r == NewAccelerator(j.key, j.view, Host(j))
           j2(a) == [j EXCEPT !.arn = a]
<1>1. pc[w] = "create" /\ UNCHANGED <<cluster, active, syncing>>
  BY DEF CreateAccelerator, At
<1>2. /\ j \in Jobs /\ j.key \in Keys /\ j.mode = "ensure" /\ pc[w] # "idle"
      /\ j.view \in Versions /\ j.i \in DOMAIN j.view.lbs
      /\ Owned(j.key) = {} /\ j.todo = {}
  BY <1>1, AtList DEF FindingsHold
<1>3. r \in Accelerators /\ TagsMatch(r, j.key)
  <2>1. Host(j) \in LBs /\ j.view.name \in Names
    BY <1>2, VersionAssumption DEF Host, IsVersion
  <2> QED BY <1>2, <2>1, ClusterAssumption DEF NewAccelerator, Accelerators, TagsMatch
<1>4. CASE Fails(w, FALSE, acc) /\ Finish(w, "err")
  <2>1. Call(w)
    BY <1>1, <1>2, <1>4, AskCall
  <2> QED BY <1>4, <2>1, FinishKeeps
<1>5. ASSUME NEW a \in Arns, ~Exists(a),
             LET new == [acc EXCEPT ![a] = r]
             IN  \/ Answers(TRUE, new) /\ Goto(w, "createListener", j2(a))
                 \/ Fails(w, TRUE, new) /\ Finish(w, "err")
      PROVE  IInv'
  <2> HIDE DEF r
  <2>1. acc' \in {acc, [acc EXCEPT ![a] = r]}
    BY <1>5 DEF Answers, Fails
  <2>2. /\ acc' \in AccType /\ \A h \in Keys \ {j.key} : Owned(h)' = Owned(h)
        /\ \A h : h = j.key => Owned(h)' = IF acc' = acc THEN {} ELSE {a}
    <3>1. acc \in AccType
      BY DEF IInv, TypeOK, AccType
    <3>2. ASSUME NEW h, h = j.key
          PROVE  /\ acc' = acc => Owned(h)' = Owned(h)
                 /\ acc' # acc => Owned(h)' = Owned(h) \union {a}
      BY <1>2, <1>3, <1>5, <2>1, <3>1, <3>2, OwnedCreate
    <3>3. \A h : h = j.key => Owned(h) = {}
      BY <1>2
    <3>4. acc' \in AccType /\ \A h \in Keys \ {j.key} : Owned(h)' = Owned(h)
      BY <1>2, <1>3, <1>5, <2>1, <3>1, OwnedCreate
    <3> QED BY <3>2, <3>3, <3>4
  <2>3. AtMostOneAccelerator'
    BY <2>2 DEF IInv, AtMostOneAccelerator
  <2>4. spent' \in SpentType
    <3>1. spent' \in {spent, [spent EXCEPT !.faults = spent.faults + 1]}
      BY <1>5 DEF Answers, Fails
    <3> QED BY <3>1 DEF IInv, TypeOK, SpentType
  <2>5. Call(w)
    BY <1>1, <1>2, <2>2, <2>3, <2>4 DEF Call, cluster, IInv, TypeOK
  <2>6. CASE Finish(w, "err")
    BY <2>5, <2>6, FinishKeeps
  <2>7. CASE acc' = [acc EXCEPT ![a] = r] /\ Goto(w, "createListener", j2(a))
    <3>1. /\ j2(a) \in Jobs /\ j2(a).key = j.key /\ j2(a).mode = "ensure"
          /\ j2(a).view = j.view /\ j2(a).i = j.i /\ j2(a).arn = a /\ j2(a).todo = {}
      BY <1>2 DEF Jobs
    <3>2. acc' # acc
      BY <1>3, <1>5, <2>7, NullAssumption DEF Exists, IInv, TypeOK
    <3>3. "createListener" \in Sites /\ OnTask("createListener", j2(a))
      BY <1>2, <3>1 DEF OnTask, Sites, UpdateSites, CleanupSites
    <3>4. \A h : h = j.key => FindingsHold("createListener", j2(a), Owned(h)')
      BY <2>2, <3>1, <3>2 DEF FindingsHold
    <3> HIDE DEF j2
    <3> QED BY <1>2, <2>5, <2>7, <3>1, <3>3, <3>4, GotoKeeps
  <2> QED BY <1>5, <2>6, <2>7 DEF Answers
<1> QED BY <1>4, <1>5 DEF CreateAccelerator

-----------------------------------------------------------------------------
(* The calls that build or update one accelerator *)

\* A rewritten accelerator is one, and its tags still match.
LEMMA RecordKept ==
  ASSUME IInv, NEW w \in Workers, pc[w] \in UpdateSites
  PROVE  LET j == job[w]
             good(r) == r \in Accelerators /\ TagsMatch(r, j.key)
         IN  /\ good([acc[j.arn] EXCEPT !.listener = Wanted(j.view)])
             /\ good([acc[j.arn] EXCEPT !.group = {Host(j)}])
             /\ good([acc[j.arn] EXCEPT !.enabled = TRUE, !.name = j.view.name])
             /\ good([acc[j.arn] EXCEPT !.managed = TRUE, !.owner = j.key, !.host = Host(j)])
<1> DEFINE j == job[w]
           s == acc[j.arn]
<1>1. s \in Accelerators /\ TagsMatch(s, j.key) /\ j.key \in Keys /\ Host(j) \in LBs
  BY AtOwn
<1>2. /\ j.view.ports \in Seq(Ports) /\ j.view.protocol \in {"tcp", "udp"}
      /\ j.view.name \in Names
  BY AtOwn, VersionAssumption DEF IsVersion
<1>3. Wanted(j.view) \in Listeners
  BY <1>2 DEF Wanted, Listeners
<1> HIDE DEF s, j
<1>4. LET r == [s EXCEPT !.listener = Wanted(j.view)]
      IN  r \in Accelerators /\ TagsMatch(r, j.key)
  BY <1>1, <1>3 DEF Accelerators, TagsMatch
<1>5. LET r == [s EXCEPT !.group = {Host(j)}]
      IN  r \in Accelerators /\ TagsMatch(r, j.key)
  BY <1>1 DEF Accelerators, TagsMatch
<1>6. LET r == [s EXCEPT !.enabled = TRUE, !.name = j.view.name]
      IN  r \in Accelerators /\ TagsMatch(r, j.key)
  BY <1>1, <1>2 DEF Accelerators, TagsMatch
<1>7. LET r == [s EXCEPT !.managed = TRUE, !.owner = j.key, !.host = Host(j)]
      IN  r \in Accelerators /\ TagsMatch(r, j.key)
  BY <1>1 DEF Accelerators, TagsMatch
<1> QED BY <1>4, <1>5, <1>6, <1>7 DEF s, j

\* After a step of the workflow that ends with the accelerator done.
LEMMA DoneKeeps ==
  ASSUME IInv, NEW w \in Workers, Call(w), \A h \in Keys : Owned(h)' = Owned(h),
         pc[w] \in UpdateSites,
         \/ Updated(w, job[w])
         \/ EnsureFrom(w, job[w], job[w].i + 1)
  PROVE  IInv'
<1>1. /\ job[w] \in Jobs /\ job[w].mode = "ensure" /\ job[w].view \in Versions
      /\ job[w].i \in DOMAIN job[w].view.lbs
      /\ job[w].i + 1 \in Nat /\ job[w].i + 1 >= 1
  BY AtOwn DEF Jobs
<1>2. \A h : h = job[w].key => job[w].todo \subseteq Owned(h)'
  BY TodoKept
<1>3. CASE Updated(w, job[w])
  BY <1>1, <1>2, <1>3, UpdatedKeeps
<1>4. CASE EnsureFrom(w, job[w], job[w].i + 1)
  BY <1>1, <1>4, EnsureFromKeeps
<1> QED BY <1>3, <1>4

\* The first listener keeps IInv, whether it is created or not.
LEMMA CreateListenerKeeps ==
  ASSUME IInv, NEW w \in Workers, CreateListener(w)
  PROVE  IInv'
<1> DEFINE j == job[w]
<1>1. pc[w] = "createListener" /\ UNCHANGED <<cluster, active, syncing>>
  BY DEF CreateListener, At
<1>2. pc[w] \in UpdateSites /\ "createEndpointGroup" \in UpdateSites
  BY <1>1 DEF UpdateSites
<1>3. Call(w) /\ \A h \in Keys : Owned(h)' = Owned(h)
  BY <1>1, <1>2, RecordKept, WriteCall DEF CreateListener, IInv, TypeOK
<1>4. \/ Goto(w, "createEndpointGroup", j) \/ AbortCreate(w, j)
      \/ EnsureFrom(w, j, j.i + 1)
  BY DEF CreateListener
<1> QED BY <1>2, <1>3, <1>4, FollowKeeps, AbortKeeps, DoneKeeps

\* The first endpoint group keeps IInv.
LEMMA CreateEndpointGroupKeeps ==
  ASSUME IInv, NEW w \in Workers, CreateEndpointGroup(w)
  PROVE  IInv'
<1> DEFINE j == job[w]
<1>1. pc[w] = "createEndpointGroup" /\ UNCHANGED <<cluster, active, syncing>>
  BY DEF CreateEndpointGroup, At
<1>2. pc[w] \in UpdateSites
  BY <1>1 DEF UpdateSites
<1>3. Call(w) /\ \A h \in Keys : Owned(h)' = Owned(h)
  BY <1>1, <1>2, RecordKept, WriteCall DEF CreateEndpointGroup, IInv, TypeOK
<1>4. EnsureFrom(w, j, j.i + 1) \/ AbortCreate(w, j)
  BY DEF CreateEndpointGroup
<1> QED BY <1>2, <1>3, <1>4, AbortKeeps, DoneKeeps

\* The comparison of name, state and tags keeps IInv.
LEMMA AcceleratorChangedKeeps ==
  ASSUME IInv, NEW w \in Workers, AcceleratorChanged(w)
  PROVE  IInv'
<1>1. pc[w] = "changed" /\ UNCHANGED <<cluster, active, syncing>>
  BY DEF AcceleratorChanged, At
<1>2. pc[w] \in UpdateSites /\ {"update", "getListener"} \subseteq UpdateSites
  BY <1>1 DEF UpdateSites
<1>3. Call(w) /\ \A h \in Keys : Owned(h)' = Owned(h)
  BY <1>1, AskCall DEF AcceleratorChanged
<1>4. Goto(w, "update", job[w]) \/ Goto(w, "getListener", job[w])
  BY DEF AcceleratorChanged
<1> QED BY <1>2, <1>3, <1>4, FollowKeeps

\* UpdateAccelerator keeps IInv: it does not touch the tags.
LEMMA UpdateAcceleratorKeeps ==
  ASSUME IInv, NEW w \in Workers, UpdateAccelerator(w)
  PROVE  IInv'
<1>1. pc[w] = "update" /\ UNCHANGED <<cluster, active, syncing>>
  BY DEF UpdateAccelerator, At
<1>2. pc[w] \in UpdateSites /\ "tagResource" \in UpdateSites
  BY <1>1 DEF UpdateSites
<1>3. Call(w) /\ \A h \in Keys : Owned(h)' = Owned(h)
  <2> DEFINE arn == job[w].arn
             r == [acc[arn] EXCEPT !.enabled = TRUE, !.name = job[w].view.name]
  <2>1. r \in Accelerators /\ TagsMatch(r, job[w].key)
    BY <1>2, RecordKept
  <2>2. [acc EXCEPT ![arn].enabled = TRUE, ![arn].name = job[w].view.name] = [acc EXCEPT ![arn] = r]
    BY DEF IInv, TypeOK
  <2>3. LET new == [acc EXCEPT ![arn] = r]
        IN  Answers(Exists(arn), new) \/ Fails(w, Exists(arn), new)
    BY <2>2 DEF UpdateAccelerator
  <2>4. syncing' \in SUBSET Arns
    BY <1>1 DEF IInv, TypeOK
  <2> HIDE DEF r
  <2> QED BY <1>1, <1>2, <2>1, <2>3, <2>4, WriteCall
<1>4. Goto(w, "tagResource", job[w]) \/ Finish(w, "err")
  BY DEF UpdateAccelerator
<1> QED BY <1>2, <1>3, <1>4, FollowKeeps, FinishKeeps

\* TagResource keeps IInv: the tags it writes still match.
LEMMA TagResourceKeeps ==
  ASSUME IInv, NEW w \in Workers, TagResource(w)
  PROVE  IInv'
<1>1. pc[w] = "tagResource" /\ UNCHANGED <<cluster, active, syncing>>
  BY DEF TagResource, At
<1>2. pc[w] \in UpdateSites /\ "getListener" \in UpdateSites
  BY <1>1 DEF UpdateSites
<1>3. Call(w) /\ \A h \in Keys : Owned(h)' = Owned(h)
  <2> DEFINE arn == job[w].arn
             r == [acc[arn] EXCEPT !.managed = TRUE, !.owner = job[w].key, !.host = Host(job[w])]
  <2>1. r \in Accelerators /\ TagsMatch(r, job[w].key)
    BY <1>2, RecordKept
  <2>2. [acc EXCEPT ![arn].managed = TRUE, ![arn].owner = job[w].key,
                   ![arn].host = Host(job[w])] = [acc EXCEPT ![arn] = r]
    BY DEF IInv, TypeOK
  <2>3. LET new == [acc EXCEPT ![arn] = r]
        IN  Answers(Exists(arn), new) \/ Fails(w, Exists(arn), new)
    BY <2>2 DEF TagResource
  <2>4. syncing' \in SUBSET Arns
    BY <1>1 DEF IInv, TypeOK
  <2> HIDE DEF r
  <2> QED BY <1>1, <1>2, <2>1, <2>3, <2>4, WriteCall
<1>4. Goto(w, "getListener", job[w]) \/ Finish(w, "err")
  BY DEF TagResource
<1> QED BY <1>2, <1>3, <1>4, FollowKeeps, FinishKeeps

\* Reading the listener keeps IInv.
LEMMA GetListenerKeeps ==
  ASSUME IInv, NEW w \in Workers, GetListener(w)
  PROVE  IInv'
<1>1. pc[w] = "getListener" /\ UNCHANGED <<cluster, active, syncing>>
  BY DEF GetListener, At
<1>2. /\ pc[w] \in UpdateSites
      /\ {"newListener", "updateListener", "getEndpointGroup"} \subseteq UpdateSites
  BY <1>1 DEF UpdateSites
<1>3. Call(w) /\ \A h \in Keys : Owned(h)' = Owned(h)
  BY <1>1, AskCall DEF GetListener
<1>4. \/ \E site \in {"newListener", "updateListener", "getEndpointGroup"} :
           Goto(w, site, job[w])
      \/ Finish(w, "err")
  BY DEF GetListener
<1> QED BY <1>2, <1>3, <1>4, FollowKeeps, FinishKeeps

\* Writing the listener keeps IInv.
LEMMA PutListenerKeeps ==
  ASSUME IInv, NEW w \in Workers, PutListener(w)
  PROVE  IInv'
<1>1. /\ pc[w] \in {"newListener", "updateListener"}
      /\ UNCHANGED <<cluster, active, syncing>>
  BY DEF PutListener, At
<1>2. pc[w] \in UpdateSites /\ "getEndpointGroup" \in UpdateSites
  BY <1>1 DEF UpdateSites
<1>3. Call(w) /\ \A h \in Keys : Owned(h)' = Owned(h)
  BY <1>1, <1>2, RecordKept, WriteCall DEF PutListener, IInv, TypeOK
<1>4. Goto(w, "getEndpointGroup", job[w]) \/ Finish(w, "err")
  BY DEF PutListener
<1> QED BY <1>2, <1>3, <1>4, FollowKeeps, FinishKeeps

\* Reading the endpoint group keeps IInv.
LEMMA GetEndpointGroupKeeps ==
  ASSUME IInv, NEW w \in Workers, GetEndpointGroup(w)
  PROVE  IInv'
<1>1. pc[w] = "getEndpointGroup" /\ UNCHANGED <<cluster, active, syncing>>
  BY DEF GetEndpointGroup, At
<1>2. /\ pc[w] \in UpdateSites
      /\ {"newEndpointGroup", "updateEndpointGroup"} \subseteq UpdateSites
  BY <1>1 DEF UpdateSites
<1>3. Call(w) /\ \A h \in Keys : Owned(h)' = Owned(h)
  BY <1>1, AskCall DEF GetEndpointGroup
<1>4. \/ \E site \in {"newEndpointGroup", "updateEndpointGroup"} : Goto(w, site, job[w])
      \/ Updated(w, job[w]) \/ Finish(w, "err")
  BY DEF GetEndpointGroup
<1> QED BY <1>2, <1>3, <1>4, FollowKeeps, FinishKeeps, DoneKeeps

\* Writing the endpoint group keeps IInv.
LEMMA PutEndpointGroupKeeps ==
  ASSUME IInv, NEW w \in Workers, PutEndpointGroup(w)
  PROVE  IInv'
<1>1. /\ pc[w] \in {"newEndpointGroup", "updateEndpointGroup"}
      /\ UNCHANGED <<cluster, active, syncing>>
  BY DEF PutEndpointGroup, At
<1>2. pc[w] \in UpdateSites
  BY <1>1 DEF UpdateSites
<1>3. Call(w) /\ \A h \in Keys : Owned(h)' = Owned(h)
  BY <1>1, <1>2, RecordKept, WriteCall DEF PutEndpointGroup, IInv, TypeOK
<1>4. Updated(w, job[w]) \/ Finish(w, "err")
  BY DEF PutEndpointGroup
<1> QED BY <1>2, <1>3, <1>4, FinishKeeps, DoneKeeps

-----------------------------------------------------------------------------
(* The calls that clean up *)

\* Taking an accelerator apart leaves its tags alone.
LEMMA RemainsKept ==
  ASSUME IInv, NEW w \in Workers, pc[w] \in CleanupSites
  PROVE  LET j == job[w]
             good(r) == r \in Accelerators /\ TagsMatch(r, j.key)
         IN  /\ good([acc[j.arn] EXCEPT !.group = {}])
             /\ good([acc[j.arn] EXCEPT !.listener = None])
             /\ good([acc[j.arn] EXCEPT !.enabled = FALSE])
<1> DEFINE s == acc[job[w].arn]
           k == job[w].key
<1>1. s \in Accelerators /\ TagsMatch(s, k)
  BY AtOwn
<1> HIDE DEF s, k
<1>2. LET r == [s EXCEPT !.group = {}] IN r \in Accelerators /\ TagsMatch(r, k)
  BY <1>1 DEF Accelerators, TagsMatch
<1>3. LET r == [s EXCEPT !.listener = None] IN r \in Accelerators /\ TagsMatch(r, k)
  BY <1>1 DEF Accelerators, TagsMatch
<1>4. LET r == [s EXCEPT !.enabled = FALSE] IN r \in Accelerators /\ TagsMatch(r, k)
  BY <1>1 DEF Accelerators, TagsMatch
<1> QED BY <1>2, <1>3, <1>4 DEF s, k

\* After a step of the cleanup that ends with the accelerator done.
LEMMA CleanupEndKeeps ==
  ASSUME IInv, NEW w \in Workers, Call(w), \A h \in Keys : Owned(h)' = Owned(h),
         pc[w] \in CleanupSites, NEW ok, Cleaned(w, job[w], ok)
  PROVE  IInv'
<1>1. job[w] \in Jobs /\ job[w].mode # "ensure"
  BY AtOwn
<1>2. \A h : h = job[w].key => job[w].todo \subseteq Owned(h)'
  BY TodoKept
<1> QED BY <1>1, <1>2, CleanedKeeps

\* The first read of the cleanup keeps IInv.
LEMMA DescribeAcceleratorKeeps ==
  ASSUME IInv, NEW w \in Workers, DescribeAccelerator(w)
  PROVE  IInv'
<1>1. pc[w] = "describe" /\ UNCHANGED <<cluster, active, syncing>>
  BY DEF DescribeAccelerator, At
<1>2. pc[w] \in CleanupSites /\ "relatedListener" \in CleanupSites
  BY <1>1 DEF CleanupSites
<1>3. Call(w) /\ \A h \in Keys : Owned(h)' = Owned(h)
  BY <1>1, AskCall DEF DescribeAccelerator
<1>4. Goto(w, "relatedListener", job[w]) \/ Cleaned(w, job[w], TRUE)
  BY DEF DescribeAccelerator
<1> QED BY <1>2, <1>3, <1>4, FollowKeeps, CleanupEndKeeps

\* The second read of the cleanup keeps IInv.
LEMMA RelatedListenerKeeps ==
  ASSUME IInv, NEW w \in Workers, RelatedListener(w)
  PROVE  IInv'
<1>1. pc[w] = "relatedListener" /\ UNCHANGED <<cluster, active, syncing>>
  BY DEF RelatedListener, At
<1>2. pc[w] \in CleanupSites /\ {"relatedEndpointGroup", "disable"} \subseteq CleanupSites
  BY <1>1 DEF CleanupSites
<1>3. Call(w) /\ \A h \in Keys : Owned(h)' = Owned(h)
  BY <1>1, AskCall DEF RelatedListener
<1>4. Goto(w, "relatedEndpointGroup", job[w]) \/ Goto(w, "disable", job[w])
  BY DEF RelatedListener
<1> QED BY <1>2, <1>3, <1>4, FollowKeeps

\* The third read of the cleanup keeps IInv.
LEMMA RelatedEndpointGroupKeeps ==
  ASSUME IInv, NEW w \in Workers, RelatedEndpointGroup(w)
  PROVE  IInv'
<1>1. pc[w] = "relatedEndpointGroup" /\ UNCHANGED <<cluster, active, syncing>>
  BY DEF RelatedEndpointGroup, At
<1>2. /\ pc[w] \in CleanupSites
      /\ {"deleteEndpointGroup", "deleteListener"} \subseteq CleanupSites
  BY <1>1 DEF CleanupSites
<1>3. Call(w) /\ \A h \in Keys : Owned(h)' = Owned(h)
  BY <1>1, AskCall DEF RelatedEndpointGroup
<1>4. Goto(w, "deleteEndpointGroup", job[w]) \/ Goto(w, "deleteListener", job[w])
  BY DEF RelatedEndpointGroup
<1> QED BY <1>2, <1>3, <1>4, FollowKeeps

\* Deleting the endpoint group keeps IInv.
LEMMA DeleteEndpointGroupKeeps ==
  ASSUME IInv, NEW w \in Workers, DeleteEndpointGroup(w)
  PROVE  IInv'
<1>1. pc[w] = "deleteEndpointGroup" /\ UNCHANGED <<cluster, active, syncing>>
  BY DEF DeleteEndpointGroup, At
<1>2. pc[w] \in CleanupSites /\ "deleteListener" \in CleanupSites
  BY <1>1 DEF CleanupSites
<1>3. Call(w) /\ \A h \in Keys : Owned(h)' = Owned(h)
  BY <1>1, <1>2, RemainsKept, WriteCall DEF DeleteEndpointGroup, IInv, TypeOK
<1>4. Goto(w, "deleteListener", job[w]) \/ Cleaned(w, job[w], FALSE)
  BY DEF DeleteEndpointGroup
<1> QED BY <1>2, <1>3, <1>4, FollowKeeps, CleanupEndKeeps

\* Deleting the listener keeps IInv.
LEMMA DeleteListenerKeeps ==
  ASSUME IInv, NEW w \in Workers, DeleteListener(w)
  PROVE  IInv'
<1>1. pc[w] = "deleteListener" /\ UNCHANGED <<cluster, active, syncing>>
  BY DEF DeleteListener, At
<1>2. pc[w] \in CleanupSites /\ "disable" \in CleanupSites
  BY <1>1 DEF CleanupSites
<1>3. Call(w) /\ \A h \in Keys : Owned(h)' = Owned(h)
  BY <1>1, <1>2, RemainsKept, WriteCall DEF DeleteListener, IInv, TypeOK
<1>4. Goto(w, "disable", job[w]) \/ Cleaned(w, job[w], FALSE)
  BY DEF DeleteListener
<1> QED BY <1>2, <1>3, <1>4, FollowKeeps, CleanupEndKeeps

\* Disabling the accelerator keeps IInv.
LEMMA DisableAcceleratorKeeps ==
  ASSUME IInv, NEW w \in Workers, DisableAccelerator(w)
  PROVE  IInv'
<1>1. pc[w] = "disable" /\ UNCHANGED <<cluster, active>>
  BY DEF DisableAccelerator, At
<1>2. pc[w] \in CleanupSites /\ "poll" \in CleanupSites
  BY <1>1 DEF CleanupSites
<1>3. syncing' \in SUBSET Arns
  BY <1>2, AtOwn DEF DisableAccelerator, IInv, TypeOK
<1>4. Call(w) /\ \A h \in Keys : Owned(h)' = Owned(h)
  BY <1>1, <1>2, <1>3, RemainsKept, WriteCall DEF DisableAccelerator
<1>5. Goto(w, "poll", job[w]) \/ Cleaned(w, job[w], FALSE)
  BY DEF DisableAccelerator
<1> QED BY <1>2, <1>4, <1>5, FollowKeeps, CleanupEndKeeps

\* Waiting for the accelerator keeps IInv.
LEMMA PollAcceleratorKeeps ==
  ASSUME IInv, NEW w \in Workers, PollAccelerator(w)
  PROVE  IInv'
<1>1. pc[w] = "poll" /\ UNCHANGED <<cluster, active, syncing>>
  BY DEF PollAccelerator, At
<1>2. pc[w] \in CleanupSites /\ "delete" \in CleanupSites
  BY <1>1 DEF CleanupSites
<1>3. Call(w) /\ \A h \in Keys : Owned(h)' = Owned(h)
  BY <1>1, AskCall DEF PollAccelerator
<1>4. Goto(w, "delete", job[w]) \/ Cleaned(w, job[w], FALSE)
  BY DEF PollAccelerator
<1> QED BY <1>2, <1>3, <1>4, FollowKeeps, CleanupEndKeeps

\* Deleting the accelerator keeps IInv: what is left to clean up is still there.
LEMMA DeleteAcceleratorKeeps ==
  ASSUME IInv, NEW w \in Workers, DeleteAccelerator(w)
  PROVE  IInv'
<1> DEFINE j == job[w]
           new == [acc EXCEPT ![j.arn] = NoAcc]
<1>1. pc[w] = "delete" /\ UNCHANGED <<cluster, active, syncing>>
  BY DEF DeleteAccelerator, At
<1>2. pc[w] \in CleanupSites
  BY <1>1 DEF CleanupSites
<1>3. /\ j \in Jobs /\ j.key \in Keys /\ j.mode # "ensure" /\ pc[w] # "idle"
      /\ j.arn \in Owned(j.key) /\ j.todo \subseteq Owned(j.key) \ {j.arn}
  BY <1>2, AtOwn
<1>4. /\ acc' \in {acc, new}
      /\ spent' \in {spent, [spent EXCEPT !.faults = spent.faults + 1]}
      /\ Cleaned(w, j, TRUE) \/ Cleaned(w, j, FALSE)
  BY DEF DeleteAccelerator, Answers, Fails
<1>5. spent' \in SpentType /\ acc \in AccType
  <2> HIDE DEF new
  <2>1. spent \in SpentType /\ acc \in AccType
    BY DEF IInv, TypeOK, SpentType, AccType
  <2>2. spent' \in SpentType
    BY <1>4, <2>1 DEF SpentType
  <2> QED BY <2>1, <2>2
<1>6. ASSUME NEW h, h = j.key
      PROVE  /\ acc' \in AccType
             /\ \A g \in Keys \ {h} : Owned(g)' = Owned(g)
             /\ Owned(h)' \subseteq Owned(h)
             /\ j.todo \subseteq Owned(h)'
  BY <1>3, <1>4, <1>5, <1>6, OwnedDelete
<1>7. \A h \in Keys : Owned(h)' \subseteq Owned(h)
  BY <1>6
<1>8. AtMostOneAccelerator'
  BY <1>7 DEF IInv, AtMostOneAccelerator
<1>9. Call(w)
  BY <1>1, <1>3, <1>5, <1>6, <1>8 DEF Call, cluster, IInv, TypeOK
<1>10. \A h : h = j.key => j.todo \subseteq Owned(h)'
  BY <1>6
<1> QED BY <1>3, <1>4, <1>9, <1>10, CleanedKeeps

-----------------------------------------------------------------------------
(* The environment *)

\* A step that leaves the workers, the accelerators and the keys in work alone.
LEMMA AsideKeeps ==
  ASSUME IInv, TypeOK', UNCHANGED <<pc, job, acc>>,
         \A kind \in Kinds : queue[kind].processing \subseteq queue'[kind].processing
  PROVE  IInv'
<1>1. \A h \in Keys : Owned(h)' = Owned(h)
  BY OwnedSame
<1>2. AtMostOneAccelerator'
  BY <1>1 DEF IInv, AtMostOneAccelerator
<1>3. ASSUME NEW v \in Workers, pc[v] # "idle"
      PROVE  /\ job[v].key \in Keys /\ QueueOf[v] \in Kinds
             /\ job[v].key \in queue'[QueueOf[v]].processing
  <2>1. /\ job[v].key \in Keys /\ QueueOf[v] \in Kinds
        /\ job[v].key \in queue[QueueOf[v]].processing
    BY <1>3, KindAssumption DEF IInv, TypeOK, NoStaleFinding, OneWorkerPerKey, Jobs
  <2> QED BY <2>1
<1>4. OneWorkerPerKey'
  BY <1>3 DEF IInv, NoStaleFinding, OneWorkerPerKey
<1>5. ASSUME NEW v \in Workers, pc'[v] # "idle"
      PROVE  (/\ OnTask(pc[v], job[v])
              /\ FindingsHold(pc[v], job[v], Owned(job[v].key)))'
  <2>1. Owned(job[v].key) =
          {a \in Arns : acc'[a] # NoAcc /\ TagsMatch(acc'[a], job[v].key)}
    BY DEF Owned, Exists
  <2> QED BY <1>3, <1>5, <2>1, OthersKeep
<1> QED BY <1>2, <1>4, <1>5 DEF IInv, NoStaleFinding

\* An edit of an object keeps IInv: it touches no worker and no accelerator.
LEMMA ChangeKeeps ==
  ASSUME IInv, NEW k \in Keys, NEW v \in Versions \union {NoObj}, Change(k, v)
  PROVE  IInv'
<1>1. /\ obj' = [obj EXCEPT ![k] = v] /\ watch' = [watch EXCEPT ![k] = Append(watch[k], v)]
      /\ spent' = [spent EXCEPT !.changes = spent.changes + 1]
      /\ UNCHANGED <<cache, queue, pc, job, acc, syncing, active>>
  BY DEF Change, aws
<1>2. Append(watch[k], v) \in Seq(Versions \union {NoObj})
  BY DEF IInv, TypeOK
<1>3. watch' \in [Keys -> Seq(Versions \union {NoObj})]
  BY <1>1, <1>2 DEF IInv, TypeOK
<1>4. spent' \in SpentType
  <2>1. spent \in SpentType /\ spent' = [spent EXCEPT !.changes = spent.changes + 1]
    BY <1>1 DEF IInv, TypeOK, SpentType
  <2> QED BY <2>1 DEF SpentType
<1>5. obj' \in [Keys -> Versions \union {NoObj}]
  BY <1>1 DEF IInv, TypeOK
<1>6. TypeOK'
  BY <1>1, <1>3, <1>4, <1>5 DEF IInv, TypeOK, SpentType
<1> QED BY <1>1, <1>6, AsideKeeps

\* An informer event keeps IInv: it only adds a key that waits.
LEMMA DeliverKeeps ==
  ASSUME IInv, NEW k \in Keys, Deliver(k)
  PROVE  IInv'
<1> DEFINE s == watch[k]
           q == queue[KindOf[k]]
<1>1. PICK n \in {1, Len(s)} :
        /\ cache' = [cache EXCEPT ![k] = s[n]]
        /\ watch' = [watch EXCEPT ![k] = SubSeq(s, n + 1, Len(s))]
        /\ queue' \in {queue, [queue EXCEPT ![KindOf[k]] = Add(q, k)]}
  BY DEF Deliver
<1>2. s # <<>> /\ UNCHANGED <<obj, pc, job, acc, syncing, active, spent>>
  BY DEF Deliver, aws
<1>3. s \in Seq(Versions \union {NoObj})
  BY DEF IInv, TypeOK
<1>4. n \in 1 .. Len(s)
  <2>1. Len(s) \in Nat /\ Len(s) # 0
    BY <1>2, <1>3
  <2> QED BY <2>1
<1>5. s[n] \in Versions \union {NoObj}
  BY <1>3, <1>4
<1>6. SubSeq(s, n + 1, Len(s)) \in Seq(Versions \union {NoObj})
  <2>1. \A m \in n + 1 .. Len(s) : s[m] \in Versions \union {NoObj}
    BY <1>3, <1>4
  <2> QED BY <1>3, <1>4, <2>1
<1>7. /\ KindOf[k] \in Kinds /\ q \in QueueOver(Keys)
      /\ Add(q, k) \in QueueOver(Keys) /\ Add(q, k).processing = q.processing
  <2>1. KindOf[k] \in Kinds /\ q \in QueueOver(Keys)
    BY KindAssumption DEF IInv, TypeOK
  <2> HIDE DEF q
  <2> QED BY <2>1 DEF QueueOver, Add
<1>8. /\ queue' \in [Kinds -> QueueOver(Keys)]
      /\ \A kind \in Kinds : queue[kind].processing \subseteq queue'[kind].processing
  <2> HIDE DEF q
  <2>1. queue \in [Kinds -> QueueOver(Keys)]
    BY DEF IInv, TypeOK
  <2>2. q = queue[KindOf[k]]
    BY DEF q
  <2> QED BY <1>1, <1>7, <2>1, <2>2
<1>9. cache' \in [Keys -> Versions \union {NoObj}]
  BY <1>1, <1>5 DEF IInv, TypeOK
<1>10. watch' \in [Keys -> Seq(Versions \union {NoObj})]
  <2> HIDE DEF s
  <2> QED BY <1>1, <1>6 DEF IInv, TypeOK
<1>11. TypeOK'
  BY <1>2, <1>8, <1>9, <1>10 DEF IInv, TypeOK
<1> QED BY <1>2, <1>8, <1>11, AsideKeeps

\* Load balancers becoming active and accelerators becoming deployed.
LEMMA AwsKeeps ==
  ASSUME IInv, (\E l \in LBs : LBActivate(l)) \/ (\E a \in Arns : AwsDeploys(a))
  PROVE  IInv'
<1>1. /\ UNCHANGED <<obj, watch, cache, queue, pc, job, acc, spent>>
      /\ active' \in SUBSET LBs /\ syncing' \in SUBSET Arns
  BY DEF LBActivate, AwsDeploys, Balancers, cluster, IInv, TypeOK
<1>2. TypeOK'
  BY <1>1 DEF IInv, TypeOK
<1> QED BY <1>1, <1>2, AsideKeeps

\* The end of the process keeps IInv: no worker has anything, the queues are new.
LEMMA CrashKeeps ==
  ASSUME IInv, Crash
  PROVE  IInv'
<1>1. /\ spent' = [spent EXCEPT !.crashes = spent.crashes + 1]
      /\ cache' = obj /\ watch' = [k \in Keys |-> <<>>]
      /\ pc' = [w \in Workers |-> "idle"] /\ job' = [w \in Workers |-> NoJob]
      /\ UNCHANGED <<obj, acc, syncing, active>>
  BY DEF Crash, aws
<1>2. queue' \in [Kinds -> QueueOver(Keys)]
  BY DEF Crash, EmptyQueue, QueueOver
<1>3. spent' \in SpentType
  BY <1>1 DEF IInv, TypeOK, SpentType
<1>4. TypeOK'
  BY <1>1, <1>2, <1>3 DEF IInv, TypeOK, SpentType
<1>5. AtMostOneAccelerator'
  BY <1>1, OwnedSame DEF IInv, AtMostOneAccelerator
<1>6. \A w \in Workers : pc'[w] = "idle"
  BY <1>1
<1> QED BY <1>4, <1>5, <1>6 DEF IInv, NoStaleFinding, OneWorkerPerKey

-----------------------------------------------------------------------------
(* The theorems *)

\* IInv at the start: nobody has an accelerator, no worker has a key.
LEMMA InitIInv == Init => IInv
<1> SUFFICES ASSUME Init  PROVE IInv
  OBVIOUS
<1>1. /\ EmptyQueue \in QueueOver(Keys) /\ active \in SUBSET LBs
      /\ <<>> \in Seq(Versions \union {NoObj})
  BY DEF EmptyQueue, QueueOver, Init, Balancers
<1>2. TypeOK
  BY <1>1, FirstAccsAssumption DEF Init, TypeOK
<1>3. \A k \in Keys : Owned(k) = {}
  BY FirstAccsAssumption DEF Init, Owned, Exists, TagsMatch
<1>4. AtMostOneAccelerator
  BY <1>3 DEF AtMostOneAccelerator
<1>5. NoStaleFinding
  BY DEF Init, NoStaleFinding, OneWorkerPerKey
<1> QED BY <1>2, <1>4, <1>5 DEF IInv

\* Every call of EnsureGlobalAccelerator... keeps IInv.
LEMMA EnsuresKeeps ==
  ASSUME IInv, NEW w \in Workers, Ensures(w)
  PROVE  IInv'
BY DescribeLoadBalancerKeeps, ListAcceleratorsKeeps, ListTagsKeeps,
   CreateAcceleratorKeeps, CreateListenerKeeps, CreateEndpointGroupKeeps,
   AcceleratorChangedKeeps, UpdateAcceleratorKeeps, TagResourceKeeps,
   GetListenerKeeps, PutListenerKeeps, GetEndpointGroupKeeps, PutEndpointGroupKeeps
   DEF Ensures

\* Every call of CleanupGlobalAccelerator keeps IInv.
LEMMA CleansUpKeeps ==
  ASSUME IInv, NEW w \in Workers, CleansUp(w)
  PROVE  IInv'
BY DescribeAcceleratorKeeps, RelatedListenerKeeps, RelatedEndpointGroupKeeps,
   DeleteEndpointGroupKeeps, DeleteListenerKeeps, DisableAcceleratorKeeps,
   PollAcceleratorKeeps, DeleteAcceleratorKeeps DEF CleansUp

\* Every step keeps IInv.
LEMMA NextIInv == IInv /\ [Next]_vars => IInv'
<1> SUFFICES ASSUME IInv, [Next]_vars  PROVE IInv'
  OBVIOUS
<1>1. CASE \E k \in Keys, v \in Versions \union {NoObj} : Change(k, v)
  BY <1>1, ChangeKeeps
<1>2. CASE \E k \in Keys : Deliver(k)
  BY <1>2, DeliverKeeps
<1>3. CASE (\E l \in LBs : LBActivate(l)) \/ (\E a \in Arns : AwsDeploys(a))
  BY <1>3, AwsKeeps
<1>4. CASE \E w \in Workers, k \in Keys : Take(w, k)
  BY <1>4, TakeKeeps
<1>5. CASE \E w \in Workers : Work(w)
  BY <1>5, ReadObjectKeeps, EnsuresKeeps, CleansUpKeeps DEF Work
<1>6. CASE Crash
  BY <1>6, CrashKeeps
<1>7. CASE UNCHANGED vars
  <2>1. TypeOK'
    BY <1>7 DEF vars, IInv, TypeOK
  <2> QED BY <1>7, <2>1, AsideKeeps DEF vars
<1> QED BY <1>1, <1>2, <1>3, <1>4, <1>5, <1>6, <1>7 DEF Next

\* IInv holds in every reachable state.
THEOREM Inductive == Spec => []IInv
BY InitIInv, NextIInv, PTL DEF Spec

\* Type correctness, for any objects, workers and versions.
THEOREM TypeCorrect == Spec => []TypeOK
<1>1. IInv => TypeOK
  BY DEF IInv
<1> QED BY <1>1, Inductive, PTL

\* An object never has two accelerators, however many workers share its queue
\* and whatever fails, is retried or is cut off by a restart.
THEOREM AtMostOne == Spec => []AtMostOneAccelerator
<1>1. IInv => AtMostOneAccelerator
  BY DEF IInv
<1> QED BY <1>1, Inductive, PTL

\* No worker acts on a finding that is out of date: one worker per object, and
\* between its calls only it changes what it has found out.
THEOREM NoStale == Spec => []NoStaleFinding
<1>1. IInv => NoStaleFinding
  BY DEF IInv
<1> QED BY <1>1, Inductive, PTL

-----------------------------------------------------------------------------
(* Writes *)

\* Worker w, busy with one accelerator of its object, writes at most that one.
EditsOwn(w) ==
  /\ pc[w] \in UpdateSites \union CleanupSites
  /\ \E r : acc' \in {acc, [acc EXCEPT ![job[w].arn] = r]}

\* Every step writes nothing, the worker's own accelerator, or a new one.
LEMMA Writes ==
  ASSUME IInv, NEW w \in Workers, Work(w)
  PROVE  \/ acc' = acc
         \/ EditsOwn(w)
         \/ \E a \in Arns : \E r : ~Exists(a) /\ acc' = [acc EXCEPT ![a] = r]
<1>1. CASE \/ ReadObject(w) \/ DescribeLoadBalancer(w) \/ ListAccelerators(w)
           \/ ListTags(w) \/ AcceleratorChanged(w) \/ GetListener(w)
           \/ GetEndpointGroup(w) \/ DescribeAccelerator(w) \/ RelatedListener(w)
           \/ RelatedEndpointGroup(w) \/ PollAccelerator(w)
  BY <1>1 DEF ReadObject, DescribeLoadBalancer, ListAccelerators, ListTags,
       AcceleratorChanged, GetListener, GetEndpointGroup, DescribeAccelerator,
       RelatedListener, RelatedEndpointGroup, PollAccelerator, Answers, Fails
<1>2. CASE CreateAccelerator(w)
  BY <1>2 DEF CreateAccelerator, Answers, Fails
<1>3. CASE CreateListener(w)
  BY <1>3 DEF CreateListener, At, UpdateSites, EditsOwn, Answers, Fails
<1>4. CASE CreateEndpointGroup(w)
  BY <1>4 DEF CreateEndpointGroup, At, UpdateSites, EditsOwn, Answers, Fails
<1>5. CASE UpdateAccelerator(w)
  BY <1>5 DEF UpdateAccelerator, At, UpdateSites, EditsOwn, Answers, Fails
<1>6. CASE TagResource(w)
  BY <1>6 DEF TagResource, At, UpdateSites, EditsOwn, Answers, Fails
<1>7. CASE PutListener(w)
  BY <1>7 DEF PutListener, At, UpdateSites, EditsOwn, Answers, Fails
<1>8. CASE PutEndpointGroup(w)
  BY <1>8 DEF PutEndpointGroup, At, UpdateSites, EditsOwn, Answers, Fails
<1>9. CASE DeleteEndpointGroup(w)
  BY <1>9 DEF DeleteEndpointGroup, At, CleanupSites, EditsOwn, Answers, Fails
<1>10. CASE DeleteListener(w)
  BY <1>10 DEF DeleteListener, At, CleanupSites, EditsOwn, Answers, Fails
<1>11. CASE DisableAccelerator(w)
  BY <1>11 DEF DisableAccelerator, At, CleanupSites, EditsOwn, Answers, Fails
<1>12. CASE DeleteAccelerator(w)
  BY <1>12 DEF DeleteAccelerator, At, CleanupSites, EditsOwn, Answers, Fails
<1> QED BY <1>1, <1>2, <1>3, <1>4, <1>5, <1>6, <1>7, <1>8, <1>9, <1>10, <1>11, <1>12
        DEF Work, Ensures, CleansUp

\* An accelerator that exists is only written while a worker has the object its
\* tags name (of this cluster); a foreign one never.
THEOREM OwnerWrites == Spec => OnlyOwnerWrites
<1>1. ASSUME IInv, [Next]_vars, NEW a \in Arns, acc[a] # NoAcc, acc'[a] # acc[a]
      PROVE  /\ acc[a].managed /\ acc[a].cluster = ClusterName
             /\ \E w \in Workers : pc[w] # "idle" /\ acc[a].owner = job[w].key
  <2>1. PICK w \in Workers : Work(w)
    BY <1>1 DEF Next, vars, Change, Deliver, LBActivate, AwsDeploys, Take, Crash, aws
  <2>2. EditsOwn(w)
    <3>1. ASSUME NEW b \in Arns, NEW r, ~Exists(b), acc' = [acc EXCEPT ![b] = r]
          PROVE  FALSE
      BY <1>1, <3>1 DEF Exists, IInv, TypeOK
    <3> QED BY <1>1, <2>1, <3>1, Writes
  <2>3. a = job[w].arn
    <3>1. PICK r : acc' \in {acc, [acc EXCEPT ![job[w].arn] = r]}
      BY <2>2 DEF EditsOwn
    <3>2. a \in DOMAIN acc
      BY <1>1 DEF IInv, TypeOK
    <3> QED BY <1>1, <3>1, <3>2
  <2>4. pc[w] # "idle" /\ a \in Owned(job[w].key)
    BY <1>1, <2>2, <2>3, AtOwn DEF EditsOwn
  <2> QED BY <2>4 DEF Owned, TagsMatch
<1>2. IInv /\ [Next]_vars =>
        [\A a \in Arns :
           acc[a] # NoAcc /\ acc'[a] # acc[a] =>
             /\ acc[a].managed /\ acc[a].cluster = ClusterName
             /\ \E w \in Workers : pc[w] # "idle" /\ acc[a].owner = job[w].key]_vars
  BY <1>1
<1> QED BY <1>2, Inductive, PTL DEF Spec, OnlyOwnerWrites

-----------------------------------------------------------------------------
(* The comparison of ports *)

Mentions(s) == {s[n] : n \in DOMAIN s}

Once(s) == \A m, n \in DOMAIN s : s[m] = s[n] => m = n

\* listenerPortChangedFrom...: comparing ports by counting never takes lists of
\* the same ports for changed ones, and sees every change as long as neither list
\* has a port twice (with one it may not: 443 twice against nothing is unseen).
THEOREM PortChangeSeen ==
  ASSUME NEW have \in Seq(Ports), NEW want \in Seq(Ports)
  PROVE  /\ PortChanged(have, want) => Mentions(have) # Mentions(want)
         /\ Once(have) /\ Once(want) /\ Mentions(have) # Mentions(want)
              => PortChanged(have, want)
<1> DEFINE both == have \o want
           h == Len(have)
           l == Len(both)
<1>1. /\ h \in Nat /\ l \in Nat /\ l = h + Len(want) /\ Len(want) \in Nat
      /\ DOMAIN have = 1 .. h /\ DOMAIN want = 1 .. Len(want) /\ DOMAIN both = 1 .. l
      /\ \A n \in DOMAIN have : n \in DOMAIN both /\ both[n] = have[n]
      /\ \A n \in DOMAIN want : h + n \in DOMAIN both /\ both[h + n] = want[n]
  OBVIOUS
<1>2. \A n \in DOMAIN both : \/ n \in DOMAIN have
                             \/ n - h \in DOMAIN want /\ both[n] = want[n - h]
  OBVIOUS
<1>3. PortChanged(have, want) <=>
        \E n \in DOMAIN both : \A m \in DOMAIN both : both[m] = both[n] => m = n
  BY DEF PortChanged
<1> HIDE DEF both, h, l
<1>4. ASSUME NEW n \in DOMAIN both, \A m \in DOMAIN both : both[m] = both[n] => m = n,
             Mentions(have) = Mentions(want)
      PROVE  FALSE
  <2>1. CASE n \in DOMAIN have
    <3>1. PICK m \in DOMAIN want : want[m] = both[n]
      <4>1. both[n] = have[n] /\ have[n] \in Mentions(have)
        BY <1>1, <2>1 DEF Mentions
      <4>2. both[n] \in Mentions(want)
        BY <1>4, <4>1
      <4> QED BY <4>2 DEF Mentions
    <3>2. h + m = n
      BY <1>1, <1>4, <3>1
    <3> QED BY <1>1, <2>1, <3>2
  <2>2. CASE n - h \in DOMAIN want /\ both[n] = want[n - h]
    <3>1. PICK m \in DOMAIN have : have[m] = both[n]
      <4>1. both[n] \in Mentions(want)
        BY <2>2 DEF Mentions
      <4>2. both[n] \in Mentions(have)
        BY <1>4, <4>1
      <4> QED BY <4>2 DEF Mentions
    <3>2. m = n
      BY <1>1, <1>4, <3>1
    <3> QED BY <1>1, <2>2, <3>2
  <2> QED BY <1>2, <1>4, <2>1, <2>2
<1>5. ASSUME Once(have), Once(want), Mentions(have) # Mentions(want)
      PROVE  PortChanged(have, want)
  <2>1. CASE \E n \in DOMAIN have : have[n] \notin Mentions(want)
    <3>1. PICK n \in DOMAIN have : have[n] \notin Mentions(want)
      BY <2>1
    <3>2. ASSUME NEW m \in DOMAIN both, both[m] = both[n]  PROVE m = n
      <4>1. CASE m \in DOMAIN have
        BY <1>1, <1>5, <3>1, <3>2, <4>1 DEF Once
      <4>2. CASE m - h \in DOMAIN want /\ both[m] = want[m - h]
        BY <1>1, <3>1, <3>2, <4>2 DEF Mentions
      <4> QED BY <1>2, <3>2, <4>1, <4>2
    <3> QED BY <1>1, <1>3, <3>1, <3>2
  <2>2. CASE \E n \in DOMAIN want : want[n] \notin Mentions(have)
    <3>1. PICK n \in DOMAIN want : want[n] \notin Mentions(have)
      BY <2>2
    <3>2. ASSUME NEW m \in DOMAIN both, both[m] = both[h + n]  PROVE m = h + n
      <4>1. CASE m \in DOMAIN have
        BY <1>1, <3>1, <3>2, <4>1 DEF Mentions
      <4>2. CASE m - h \in DOMAIN want /\ both[m] = want[m - h]
        <5>1. m - h = n
          BY <1>1, <1>5, <3>1, <3>2, <4>2 DEF Once
        <5> QED BY <1>1, <5>1, <3>2
      <4> QED BY <1>2, <3>2, <4>1, <4>2
    <3> QED BY <1>1, <1>3, <3>1, <3>2
  <2> QED BY <1>5, <2>1, <2>2 DEF Mentions
<1> QED BY <1>3, <1>4, <1>5

-----------------------------------------------------------------------------
(* The refinement of AcceleratorLifecycle *)

StageOf(r) ==
  [enabled |-> r.enabled, listener |-> r.listener # None, group |-> r.group # {}]

Layered(r) == r.group # {} => r.listener # None

\* What the refinement needs besides IInv: no endpoint group without a listener.
AllLayered == \A k \in Keys : \A a \in Owned(k) : Layered(acc[a])

\* What a step of a busy worker does to its object's accelerator.
Rewrites(w) ==
  /\ pc[w] \in UpdateSites \union CleanupSites
  /\ \E r \in Accelerators :
       /\ TagsMatch(r, job[w].key) /\ Layered(r)
       /\ acc' = [acc EXCEPT ![job[w].arn] = r]
       /\ Lifecycle!Moves(StageOf(acc[job[w].arn]), StageOf(r))

Removes(w) ==
  /\ pc[w] \in CleanupSites
  /\ acc' = [acc EXCEPT ![job[w].arn] = NoAcc]
  /\ ~acc[job[w].arn].enabled /\ acc[job[w].arn].listener = None

Creates(w) ==
  /\ pc[w] = "create"
  /\ \E a \in Arns, r \in Accelerators :
       /\ ~Exists(a) /\ TagsMatch(r, job[w].key)
       /\ r.enabled /\ r.listener = None /\ r.group = {}
       /\ acc' = [acc EXCEPT ![a] = r]

\* One call changes one of the three fields, in the order of the layers.
LEMMA StageMoves ==
  ASSUME NEW s \in Accelerators, NEW r \in Accelerators,
         \/ r.listener = s.listener /\ r.group = s.group
         \/ s.listener = None /\ r.listener # None
              /\ r.enabled = s.enabled /\ r.group = s.group
         \/ s.listener # None /\ r.listener # None /\ r.enabled = s.enabled
         \/ s.group = {} /\ r.group = {} /\ r.listener = None /\ r.enabled = s.enabled
  PROVE  Lifecycle!Moves(StageOf(s), StageOf(r))
<1> DEFINE t == StageOf(s)
           u == StageOf(r)
<1>1. /\ t \in Lifecycle!Stage /\ u \in Lifecycle!Stage
      /\ t.enabled = s.enabled /\ u.enabled = r.enabled
      /\ t.listener <=> s.listener # None
      /\ u.listener <=> r.listener # None
      /\ t.group <=> s.group # {}
      /\ u.group <=> r.group # {}
  BY DEF StageOf, Lifecycle!Stage, Accelerators
<1> SUFFICES Lifecycle!Moves(t, u)
  OBVIOUS
<1> HIDE DEF t, u
<1>2. CASE t.listener = u.listener /\ t.group = u.group
  <2>1. u = [t EXCEPT !.enabled = u.enabled] /\ u.enabled \in BOOLEAN
    BY <1>1, <1>2 DEF Lifecycle!Stage
  <2> QED BY <2>1 DEF Lifecycle!Moves
<1>3. CASE t.listener = FALSE /\ u.listener = TRUE /\ t.enabled = u.enabled /\ t.group = u.group
  <2>1. u = [t EXCEPT !.listener = TRUE]
    BY <1>1, <1>3 DEF Lifecycle!Stage
  <2> QED BY <1>3, <2>1 DEF Lifecycle!Moves
<1>4. CASE t.listener = TRUE /\ u.listener = TRUE /\ t.enabled = u.enabled
  <2>1. u = [t EXCEPT !.group = u.group] /\ u.group \in BOOLEAN
    BY <1>1, <1>4 DEF Lifecycle!Stage
  <2> QED BY <1>4, <2>1 DEF Lifecycle!Moves
<1>5. CASE t.group = FALSE /\ u.group = FALSE /\ u.listener = FALSE /\ t.enabled = u.enabled
  <2>1. u = [t EXCEPT !.listener = FALSE]
    BY <1>1, <1>5 DEF Lifecycle!Stage
  <2> QED BY <1>5, <2>1 DEF Lifecycle!Moves
<1>6. /\ t.listener \in BOOLEAN /\ u.listener \in BOOLEAN
      /\ t.group \in BOOLEAN /\ u.group \in BOOLEAN
  BY <1>1 DEF Lifecycle!Stage
<1>7. \/ t.listener = u.listener /\ t.group = u.group
      \/ t.listener = FALSE /\ u.listener = TRUE /\ t.enabled = u.enabled /\ t.group = u.group
      \/ t.listener = TRUE /\ u.listener = TRUE /\ t.enabled = u.enabled
      \/ t.group = FALSE /\ u.group = FALSE /\ u.listener = FALSE /\ t.enabled = u.enabled
  BY <1>1, <1>6
<1> QED BY <1>2, <1>3, <1>4, <1>5, <1>7

\* The writes that build: each is one move of the lifecycle.
LEMMA BuildStages ==
  ASSUME IInv, NEW w \in Workers, pc[w] \in UpdateSites, Layered(acc[job[w].arn])
  PROVE  LET j == job[w]
             s == acc[j.arn]
             good(r) == /\ r \in Accelerators /\ TagsMatch(r, j.key) /\ Layered(r)
                        /\ Lifecycle!Moves(StageOf(s), StageOf(r))
         IN  /\ good([s EXCEPT !.listener = Wanted(j.view)])
             /\ s.listener # None => good([s EXCEPT !.group = {Host(j)}])
             /\ good([s EXCEPT !.enabled = TRUE, !.name = j.view.name])
             /\ good([s EXCEPT !.managed = TRUE, !.owner = j.key, !.host = Host(j)])
<1> DEFINE j == job[w]
           s == acc[j.arn]
           r1 == [s EXCEPT !.listener = Wanted(j.view)]
           r2 == [s EXCEPT !.group = {Host(j)}]
           r3 == [s EXCEPT !.enabled = TRUE, !.name = j.view.name]
           r4 == [s EXCEPT !.managed = TRUE, !.owner = j.key, !.host = Host(j)]
           good(r) == r \in Accelerators /\ TagsMatch(r, j.key)
<1>1. good(r1) /\ good(r2) /\ good(r3) /\ good(r4)
  BY RecordKept
<1>2. s \in Accelerators /\ Layered(s)
  BY AtOwn
<1>3. Wanted(j.view) # None
  <2>1. Wanted(j.view) \in Listeners
    BY AtOwn, VersionAssumption DEF IsVersion, Wanted, Listeners
  <2> QED BY <2>1, NullAssumption
<1> HIDE DEF s, j
<1>4. /\ r1.enabled = s.enabled /\ r1.listener # None /\ r1.group = s.group
      /\ r2.enabled = s.enabled /\ r2.listener = s.listener /\ r2.group # {}
      /\ r3.enabled = TRUE /\ r3.listener = s.listener /\ r3.group = s.group
      /\ r4.enabled = s.enabled /\ r4.listener = s.listener /\ r4.group = s.group
      /\ s.enabled \in BOOLEAN
  BY <1>2, <1>3 DEF Accelerators
<1> HIDE DEF r1, r2, r3, r4
<1>5. Layered(r1) /\ (s.listener # None => Layered(r2)) /\ Layered(r3) /\ Layered(r4)
  BY <1>2, <1>4 DEF Layered
<1>6. /\ Lifecycle!Moves(StageOf(s), StageOf(r1))
      /\ s.listener # None => Lifecycle!Moves(StageOf(s), StageOf(r2))
      /\ Lifecycle!Moves(StageOf(s), StageOf(r3))
      /\ Lifecycle!Moves(StageOf(s), StageOf(r4))
  BY <1>1, <1>2, <1>4, StageMoves
<1> QED BY <1>1, <1>5, <1>6 DEF s, j, r1, r2, r3, r4

\* And those that take apart.
LEMMA CleanupStages ==
  ASSUME IInv, NEW w \in Workers, pc[w] \in CleanupSites, Layered(acc[job[w].arn])
  PROVE  LET j == job[w]
             s == acc[j.arn]
             good(r) == /\ r \in Accelerators /\ TagsMatch(r, j.key) /\ Layered(r)
                        /\ Lifecycle!Moves(StageOf(s), StageOf(r))
         IN  /\ s.group # {} => good([s EXCEPT !.group = {}])
             /\ s.group = {} => good([s EXCEPT !.listener = None])
             /\ good([s EXCEPT !.enabled = FALSE])
<1> DEFINE j == job[w]
           s == acc[j.arn]
           r1 == [s EXCEPT !.group = {}]
           r2 == [s EXCEPT !.listener = None]
           r3 == [s EXCEPT !.enabled = FALSE]
           good(r) == r \in Accelerators /\ TagsMatch(r, j.key)
<1>1. good(r1) /\ good(r2) /\ good(r3)
  BY RemainsKept
<1>2. s \in Accelerators /\ Layered(s)
  BY AtOwn
<1> HIDE DEF s, j
<1>3. /\ r1.enabled = s.enabled /\ r1.listener = s.listener /\ r1.group = {}
      /\ r2.enabled = s.enabled /\ r2.listener = None /\ r2.group = s.group
      /\ r3.enabled = FALSE /\ r3.listener = s.listener /\ r3.group = s.group
  BY <1>2 DEF Accelerators
<1> HIDE DEF r1, r2, r3
<1>4. Layered(r1) /\ (s.group = {} => Layered(r2)) /\ Layered(r3)
  BY <1>2, <1>3 DEF Layered
<1>5. /\ s.group # {} => Lifecycle!Moves(StageOf(s), StageOf(r1))
      /\ s.group = {} => Lifecycle!Moves(StageOf(s), StageOf(r2))
      /\ Lifecycle!Moves(StageOf(s), StageOf(r3))
  BY <1>1, <1>2, <1>3, StageMoves DEF Layered
<1> QED BY <1>1, <1>4, <1>5 DEF s, j, r1, r2, r3

\* Each call of a worker, as a step of the lifecycle.
LEMMA WorkDoes ==
  ASSUME IInv, AllLayered, NEW w \in Workers, Work(w)
  PROVE  acc' = acc \/ Rewrites(w) \/ Removes(w) \/ Creates(w)
<1> DEFINE j == job[w]
           s == acc[j.arn]
<1>1. pc[w] \in UpdateSites \union CleanupSites => Layered(s)
  BY AtOwn DEF AllLayered
<1>2. CASE \/ ReadObject(w) \/ DescribeLoadBalancer(w) \/ ListAccelerators(w)
           \/ ListTags(w) \/ AcceleratorChanged(w) \/ GetListener(w)
           \/ GetEndpointGroup(w) \/ DescribeAccelerator(w) \/ RelatedListener(w)
           \/ RelatedEndpointGroup(w) \/ PollAccelerator(w)
  BY <1>2 DEF ReadObject, DescribeLoadBalancer, ListAccelerators, ListTags,
       AcceleratorChanged, GetListener, GetEndpointGroup, DescribeAccelerator,
       RelatedListener, RelatedEndpointGroup, PollAccelerator, Answers, Fails
<1>3. CASE CreateAccelerator(w)
  <2> DEFINE r == NewAccelerator(j.key, j.view, Host(j))
  <2>1. pc[w] = "create"
    BY <1>3 DEF CreateAccelerator, At
  <2>2. /\ j.key \in Keys /\ j.view \in Versions /\ j.i \in DOMAIN j.view.lbs
    BY <2>1, AtList
  <2>3. Host(j) \in LBs /\ j.view.name \in Names
    BY <2>2, VersionAssumption DEF Host, IsVersion
  <2>4. /\ r \in Accelerators /\ TagsMatch(r, j.key)
        /\ r.enabled /\ r.listener = None /\ r.group = {}
    BY <2>2, <2>3, ClusterAssumption DEF NewAccelerator, Accelerators, TagsMatch
  <2> HIDE DEF r
  <2>5. acc' = acc \/ \E a \in Arns : ~Exists(a) /\ acc' = [acc EXCEPT ![a] = r]
    BY <1>3 DEF CreateAccelerator, Answers, Fails, r
  <2> QED BY <2>1, <2>4, <2>5 DEF Creates
<1>4. CASE CreateListener(w) \/ PutListener(w)
  <2>1. pc[w] \in UpdateSites
    BY <1>4 DEF CreateListener, PutListener, At, UpdateSites
  <2>2. acc' = acc \/ acc' = [acc EXCEPT ![j.arn] = [s EXCEPT !.listener = Wanted(j.view)]]
    BY <1>4 DEF CreateListener, PutListener, Answers, Fails
  <2> QED BY <1>1, <2>1, <2>2, BuildStages DEF Rewrites
<1>5. CASE CreateEndpointGroup(w) \/ PutEndpointGroup(w)
  <2>1. pc[w] \in UpdateSites
    BY <1>5 DEF CreateEndpointGroup, PutEndpointGroup, At, UpdateSites
  <2>2. \/ acc' = acc
        \/ s.listener # None /\ acc' = [acc EXCEPT ![j.arn] = [s EXCEPT !.group = {Host(j)}]]
    BY <1>5 DEF CreateEndpointGroup, PutEndpointGroup, Answers, Fails
  <2> QED BY <1>1, <2>1, <2>2, BuildStages DEF Rewrites
<1>6. CASE UpdateAccelerator(w)
  <2>1. pc[w] \in UpdateSites
    BY <1>6 DEF UpdateAccelerator, At, UpdateSites
  <2>2. \/ acc' = acc
        \/ acc' = [[acc EXCEPT ![j.arn].enabled = TRUE] EXCEPT ![j.arn].name = j.view.name]
    BY <1>6 DEF UpdateAccelerator, Answers, Fails
  <2>3. \/ acc' = acc
        \/ acc' = [acc EXCEPT ![j.arn] = [s EXCEPT !.enabled = TRUE, !.name = j.view.name]]
    BY <2>1, <2>2, AtOwn DEF IInv, TypeOK
  <2> QED BY <1>1, <2>1, <2>3, BuildStages DEF Rewrites
<1>7. CASE TagResource(w)
  <2>1. pc[w] \in UpdateSites
    BY <1>7 DEF TagResource, At, UpdateSites
  <2>2. \/ acc' = acc
        \/ acc' = [acc EXCEPT ![j.arn] =
                     [s EXCEPT !.managed = TRUE, !.owner = j.key, !.host = Host(j)]]
    BY <1>7, <2>1, AtOwn DEF TagResource, Answers, Fails, IInv, TypeOK
  <2> QED BY <1>1, <2>1, <2>2, BuildStages DEF Rewrites
<1>8. CASE DeleteEndpointGroup(w)
  <2>1. pc[w] \in CleanupSites
    BY <1>8 DEF DeleteEndpointGroup, At, CleanupSites
  <2>2. \/ acc' = acc
        \/ s.group # {} /\ acc' = [acc EXCEPT ![j.arn] = [s EXCEPT !.group = {}]]
    BY <1>8 DEF DeleteEndpointGroup, Answers, Fails
  <2> QED BY <1>1, <2>1, <2>2, CleanupStages DEF Rewrites
<1>9. CASE DeleteListener(w)
  <2>1. pc[w] \in CleanupSites
    BY <1>9 DEF DeleteListener, At, CleanupSites
  <2>2. \/ acc' = acc
        \/ s.group = {} /\ acc' = [acc EXCEPT ![j.arn] = [s EXCEPT !.listener = None]]
    BY <1>9 DEF DeleteListener, Answers, Fails
  <2> QED BY <1>1, <2>1, <2>2, CleanupStages DEF Rewrites
<1>10. CASE DisableAccelerator(w)
  <2>1. pc[w] \in CleanupSites
    BY <1>10 DEF DisableAccelerator, At, CleanupSites
  <2>2. acc' = acc \/ acc' = [acc EXCEPT ![j.arn] = [s EXCEPT !.enabled = FALSE]]
    BY <1>10 DEF DisableAccelerator, Answers, Fails
  <2> QED BY <1>1, <2>1, <2>2, CleanupStages DEF Rewrites
<1>11. CASE DeleteAccelerator(w)
  BY <1>11 DEF DeleteAccelerator, At, CleanupSites, Answers, Fails, Removes
<1> QED BY <1>2, <1>3, <1>4, <1>5, <1>6, <1>7, <1>8, <1>9, <1>10, <1>11
        DEF Work, Ensures, CleansUp

\* A step that leaves AWS alone is a stutter of the lifecycle.
LEMMA SameStages ==
  ASSUME acc' = acc
  PROVE  Stages' = Stages /\ (AllLayered => AllLayered')
BY OwnedSame DEF Stages, AllLayered

\* A rewritten accelerator is one move of its object's slot.
LEMMA RewriteMoves ==
  ASSUME IInv, AllLayered, NEW w \in Workers, Rewrites(w)
  PROVE  AllLayered' /\ Lifecycle!Next
<1> DEFINE k == job[w].key
           a == job[w].arn
<1>1. PICK r \in Accelerators :
        /\ TagsMatch(r, k) /\ Layered(r)
        /\ acc' = [acc EXCEPT ![a] = r]
        /\ Lifecycle!Moves(StageOf(acc[a]), StageOf(r))
  BY DEF Rewrites
<1>2. k \in Keys /\ a \in Arns /\ a \in Owned(k) /\ acc \in AccType
  BY AtOwn DEF Rewrites, IInv, TypeOK, AccType
<1> HIDE DEF k, a
<1>3. \A h \in Keys : Owned(h)' = Owned(h)
  BY <1>1, <1>2, OwnedEdit
<1>4. \A h \in Keys \ {k} : \A b \in Owned(h) : b # a
  BY <1>2 DEF Owned, TagsMatch
<1>5. acc'[a] = r /\ \A b \in Arns \ {a} : acc'[b] = acc[b]
  BY <1>1, <1>2 DEF AccType
<1>6. AllLayered'
  BY <1>1, <1>2, <1>3, <1>5 DEF AllLayered, Owned
<1>7. /\ Stages[k][a] = StageOf(acc[a])
      /\ a \in DOMAIN Stages[k]
  BY <1>2 DEF Stages, StageOf
<1>8. StageOf(r) \in Lifecycle!Stage
  BY <1>1 DEF StageOf, Lifecycle!Stage, Accelerators
<1>9. Stages' = [Stages EXCEPT ![k][a] = StageOf(r)]
  <2> DEFINE new == [Stages EXCEPT ![k][a] = StageOf(r)]
  <2>1. Stages = [h \in Keys |-> [b \in Owned(h) |-> StageOf(acc[b])]]
    BY DEF Stages, StageOf
  <2>2. Stages' = [h \in Keys |-> [b \in Owned(h) |-> StageOf(acc'[b])]]
    BY <1>3 DEF Stages, StageOf
  <2>3. new = [h \in Keys |-> IF h = k THEN [Stages[k] EXCEPT ![a] = StageOf(r)]
                              ELSE Stages[h]]
    BY <2>1, Zenon
  <2>4. [Stages[k] EXCEPT ![a] = StageOf(r)] = [b \in Owned(k) |-> StageOf(acc'[b])]
    <3>1. Stages[k] = [b \in Owned(k) |-> StageOf(acc[b])]
      BY <1>2, <2>1
    <3>2. \A b \in Owned(k) : b # a => acc'[b] = acc[b]
      BY <1>5 DEF Owned
    <3> QED BY <1>2, <1>5, <3>1, <3>2
  <2>5. ASSUME NEW h \in Keys, h # k
        PROVE  Stages[h] = [b \in Owned(h) |-> StageOf(acc'[b])]
    <3>1. \A b \in Owned(h) : acc'[b] = acc[b]
      BY <1>4, <1>5, <2>5 DEF Owned
    <3> QED BY <2>1, <3>1
  <2> HIDE DEF new
  <2> QED BY <2>2, <2>3, <2>4, <2>5 DEF new
<1>10. Lifecycle!Move(k, a)
  BY <1>1, <1>7, <1>8, <1>9 DEF Lifecycle!Move
<1> QED BY <1>2, <1>6, <1>10 DEF Lifecycle!Next

\* A deleted accelerator leaves its object's slot empty.
LEMMA RemoveDeletes ==
  ASSUME IInv, AllLayered, NEW w \in Workers, Removes(w)
  PROVE  AllLayered' /\ Lifecycle!Next
<1> DEFINE k == job[w].key
           a == job[w].arn
<1>1. /\ acc' = [acc EXCEPT ![a] = NoAcc]
      /\ ~acc[a].enabled /\ acc[a].listener = None
  BY DEF Removes
<1>2. k \in Keys /\ a \in Arns /\ a \in Owned(k) /\ acc \in AccType
  BY AtOwn DEF Removes, IInv, TypeOK, AccType
<1> HIDE DEF k, a
<1>3. acc[a].group = {}
  BY <1>1, <1>2 DEF AllLayered, Layered
<1>4. /\ \A h \in Keys \ {k} : Owned(h)' = Owned(h)
      /\ \A h : h = k => Owned(h)' \subseteq Owned(h)
  BY <1>1, <1>2, OwnedDelete
<1>5. acc'[a] = NoAcc /\ \A b \in Arns \ {a} : acc'[b] = acc[b]
  BY <1>1, <1>2 DEF AccType
<1>6. \A h : h = k => Owned(h)' = {}
  <2>1. Owned(k) = {a}
    BY <1>2 DEF IInv, AtMostOneAccelerator
  <2>2. \A h : a \notin Owned(h)'
    BY <1>5 DEF Owned, Exists
  <2> QED BY <1>4, <2>1, <2>2
<1>7. \A h \in Keys \ {k} : \A b \in Owned(h) : b # a /\ b \in Arns
  BY <1>2 DEF Owned, TagsMatch
<1>8. AllLayered'
  BY <1>4, <1>5, <1>6, <1>7 DEF AllLayered
<1>9. /\ a \in DOMAIN Stages[k]
      /\ ~Stages[k][a].enabled /\ ~Stages[k][a].listener /\ ~Stages[k][a].group
  BY <1>1, <1>2, <1>3 DEF Stages
<1>10. Stages' = [Stages EXCEPT ![k] = [b \in {} |-> Lifecycle!Bare]]
  <2>1. Stages = [h \in Keys |-> [b \in Owned(h) |-> StageOf(acc[b])]]
    BY DEF Stages, StageOf
  <2>2. Stages' = [h \in Keys |-> [b \in Owned(h)' |-> StageOf(acc'[b])]]
    BY DEF Stages, StageOf
  <2>3. ASSUME NEW h \in Keys, h # k
        PROVE  Stages[h] = [b \in Owned(h)' |-> StageOf(acc'[b])]
    <3>1. \A b \in Owned(h) : acc'[b] = acc[b]
      BY <1>5, <1>7, <2>3
    <3>2. Owned(h)' = Owned(h)
      BY <1>4, <2>3
    <3> QED BY <2>1, <3>1, <3>2
  <2>4. ASSUME NEW h, h = k
        PROVE  [b \in Owned(h)' |-> StageOf(acc'[b])] = [b \in {} |-> Lifecycle!Bare]
    BY <1>6, <2>4
  <2> QED BY <2>1, <2>2, <2>3, <2>4
<1>11. Lifecycle!Delete(k, a)
  BY <1>9, <1>10 DEF Lifecycle!Delete
<1> QED BY <1>2, <1>8, <1>11 DEF Lifecycle!Next

\* A created accelerator fills an empty slot with a bare one.
LEMMA CreateCreates ==
  ASSUME IInv, AllLayered, NEW w \in Workers, Creates(w)
  PROVE  AllLayered' /\ Lifecycle!Next
<1> DEFINE k == job[w].key
<1>1. PICK a \in Arns, r \in Accelerators :
        /\ ~Exists(a) /\ TagsMatch(r, k)
        /\ r.enabled /\ r.listener = None /\ r.group = {}
        /\ acc' = [acc EXCEPT ![a] = r]
  BY DEF Creates
<1>2. k \in Keys /\ Owned(k) = {} /\ acc \in AccType
  BY AtList DEF Creates, FindingsHold, IInv, TypeOK, AccType
<1> HIDE DEF k
<1>3. acc'[a] = r /\ \A b \in Arns \ {a} : acc'[b] = acc[b]
  BY <1>1, <1>2 DEF AccType
<1>4. r # NoAcc /\ acc[a] = NoAcc
  BY <1>1, NullAssumption DEF Exists
<1>5. /\ \A h \in Keys \ {k} : Owned(h)' = Owned(h)
      /\ \A h : h = k => Owned(h)' = {a}
  BY <1>1, <1>2, <1>3, <1>4, OwnedCreate
<1>6. \A h \in Keys : \A b \in Owned(h) : b # a /\ b \in Arns
  BY <1>4 DEF Owned, Exists
<1>7. AllLayered'
  <2>1. Layered(r)
    BY <1>1 DEF Layered
  <2>2. \A h \in Keys : \A b \in Owned(h)' : Layered(acc'[b])
    BY <1>3, <1>5, <1>6, <2>1 DEF AllLayered
  <2> QED BY <2>2 DEF AllLayered, Layered
<1>8. StageOf(r) = Lifecycle!Bare
  BY <1>1 DEF StageOf, Lifecycle!Bare, Accelerators
<1>9. Stages' = [Stages EXCEPT ![k] = [b \in {a} |-> Lifecycle!Bare]]
  <2>1. Stages = [h \in Keys |-> [b \in Owned(h) |-> StageOf(acc[b])]]
    BY DEF Stages, StageOf
  <2>2. Stages' = [h \in Keys |-> [b \in Owned(h)' |-> StageOf(acc'[b])]]
    BY DEF Stages, StageOf
  <2>3. ASSUME NEW h \in Keys, h # k
        PROVE  Stages[h] = [b \in Owned(h)' |-> StageOf(acc'[b])]
    <3>1. \A b \in Owned(h) : acc'[b] = acc[b]
      BY <1>3, <1>6
    <3>2. Owned(h)' = Owned(h)
      BY <1>5, <2>3
    <3> QED BY <2>1, <3>1, <3>2
  <2>4. ASSUME NEW h, h = k
        PROVE  [b \in Owned(h)' |-> StageOf(acc'[b])] = [b \in {a} |-> Lifecycle!Bare]
    BY <1>3, <1>5, <1>8, <2>4
  <2> QED BY <2>1, <2>2, <2>3, <2>4
<1>10. DOMAIN Stages[k] = {}
  BY <1>2 DEF Stages
<1>11. Lifecycle!Create(k, a)
  BY <1>9, <1>10 DEF Lifecycle!Create
<1> QED BY <1>2, <1>7, <1>11 DEF Lifecycle!Next

\* The start is a start of the lifecycle.
LEMMA InitStages == Init => AllLayered /\ Lifecycle!Init
<1> SUFFICES ASSUME Init  PROVE AllLayered /\ Lifecycle!Init
  OBVIOUS
<1>1. \A k \in Keys : Owned(k) = {}
  BY FirstAccsAssumption DEF Init, Owned, Exists, TagsMatch
<1>2. AllLayered
  BY <1>1 DEF AllLayered
<1>3. Stages = [k \in Keys |-> [a \in {} |-> Lifecycle!Bare]]
  <2>1. Stages = [k \in Keys |-> [a \in Owned(k) |-> StageOf(acc[a])]]
    BY DEF Stages, StageOf
  <2>2. ASSUME NEW k \in Keys
        PROVE  [a \in Owned(k) |-> StageOf(acc[a])] = [a \in {} |-> Lifecycle!Bare]
    BY <1>1
  <2> QED BY <2>1, <2>2
<1> QED BY <1>2, <1>3 DEF Lifecycle!Init

\* Every step is a step or a stutter of the lifecycle.
LEMMA NextStages ==
  IInv /\ AllLayered /\ [Next]_vars => AllLayered' /\ [Lifecycle!Next]_Stages
<1> SUFFICES ASSUME IInv, AllLayered, [Next]_vars
             PROVE  AllLayered' /\ [Lifecycle!Next]_Stages
  OBVIOUS
<1>1. CASE acc' = acc
  BY <1>1, SameStages
<1>2. CASE \E w \in Workers : Work(w)
  BY <1>2, WorkDoes, SameStages, RewriteMoves, RemoveDeletes, CreateCreates
<1>3. acc' = acc \/ \E w \in Workers : Work(w)
  BY DEF Next, vars, Change, Deliver, LBActivate, AwsDeploys, Take, Crash, aws
<1> QED BY <1>1, <1>2, <1>3

\* The controller implements AcceleratorLifecycle, whatever the interleaving of
\* workers, edits, failures and restarts.
THEOREM RefinesLifecycle == Spec => ImplementsLifecycle
<1>1. Init => AllLayered /\ Lifecycle!Init
  BY InitStages
<1>2. IInv /\ AllLayered /\ [Next]_vars => AllLayered' /\ [Lifecycle!Next]_Stages
  BY NextStages
<1> QED BY <1>1, <1>2, Inductive, PTL DEF Spec, ImplementsLifecycle, Lifecycle!Spec
=============================================================================
