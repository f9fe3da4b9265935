------------------- MODULE GlobalAcceleratorAtRestProofs -------------------
(***************************************************************************)
(* Proofs about GlobalAccelerator at rest: when no key waits and the       *)
(* informer has told everything, every object that asks for an accelerator *)
(* has one that serves it, and one that is gone or unmanaged has none.     *)
(*                                                                         *)
(* Both follow from a ledger kept for every object whose key does not wait *)
(* in the queue: either a worker is on it with the version the cache holds *)
(* and the accelerator it is at is as far as its calls have brought it, or *)
(* nothing is left to do.                                                  *)
(***************************************************************************)
EXTENDS GlobalAcceleratorProofs

TitledSites == UpdateSites \ {"changed", "update"}
TaggedSites == TitledSites \ {"tagResource"}
ListeningSites == {"createEndpointGroup", "getEndpointGroup", "newEndpointGroup",
                   "updateEndpointGroup"}

\* The two calls whose errors the workflow takes for answers while it builds.
BuildAnswered ==
  /\ \A kind \in Kinds : <<kind, "changed">> \notin FaultSites
  /\ <<"ingress", "createListener">> \notin FaultSites

\* The call whose error the cleanup takes for "not there".
CleanupAnswered == \A kind \in Kinds : <<kind, "describe">> \notin FaultSites

\* Users never take the eligibility away, and what they unmanage has its load
\* balancer status: the handlers, and the head of the process functions, let
\* nothing else through to the cleanup.
CleanupReached ==
  \A e \in Edits : e[2] # NoObj => e[2].eligible /\ (e[2].managed \/ e[2].lbs # <<>>)

Waiting(k) == k \in queue[KindOf[k]].pending

Holds(w, k) == pc[w] # "idle" /\ job[w].key = k

\* The accelerators of an object, by ARN.
Holdings(k) == [a \in Owned(k) |-> acc[a]]

\* The versions whose accelerator QuiescentSynced asks for.
NeedsOne(c) ==
  BuildAnswered /\ c # NoObj /\ c.eligible /\ c.managed /\ ElbHosts(c) # {}

\* Those QuiescentClean wants without any.  A process that starts anew is not
\* told of them.
NeedsNone(c) ==
  CleanupAnswered /\ CleanupReached /\ MaxCrashes = 0 /\ (c = NoObj \/ ~c.managed)

\* A worker with job j is about what version c needs.  The cleanup after a failed
\* creation ends with an error: the key will wait again.
OnPurpose(j, c) ==
  j.mode # "abort" =>
    /\ NeedsOne(c) => j.mode = "ensure" /\ j.view = c /\ j.i \in ElbHosts(c)
    /\ NeedsNone(c) => j.mode = "cleanup"

\* Accelerator r is as far as the calls before this one bring it.
Progress(site, j, c, r) ==
  /\ site \in TitledSites => r.enabled /\ r.name = c.name
  /\ site \in TaggedSites => r.host = Host(j)
  /\ site \in ListeningSites => r.listener # None /\ ~ListenerChanged(r.listener, c)

\* What the worker of an object that has the accelerators "mine" is doing if the
\* cache has version c of it.
OnIt(site, j, c, mine) ==
  site # "read" =>
    /\ OnPurpose(j, c)
    /\ NeedsOne(c) /\ j.mode = "ensure" => Progress(site, j, c, mine[j.arn])

\* Version c needs nothing.
Settled(c, mine) ==
  /\ NeedsOne(c) => \E a \in DOMAIN mine : Serves(mine[a], c)
  /\ NeedsNone(c) => DOMAIN mine = {}

Ledger == \A k \in Keys : ~Waiting(k) =>
  /\ \A w \in Workers : Holds(w, k) => OnIt(pc[w], job[w], cache[k], Holdings(k))
  /\ (\A w \in Workers : ~Holds(w, k)) => Settled(cache[k], Holdings(k))

\* The last version on its way to the informer is the one in the API server.
Told == \A k \in Keys :
  obj[k] = IF watch[k] = <<>> THEN cache[k] ELSE watch[k][Len(watch[k])]

\* Objects are only ever what edits make them.
Edited(v) == v = NoObj \/ \E e \in Edits : e[2] = v

AllEdited == \A k \in Keys :
  Edited(obj[k]) /\ Edited(cache[k]) /\ \A n \in DOMAIN watch[k] : Edited(watch[k][n])

\* The inductive invariant, beside IInv.
RestInv == Ledger /\ Told /\ AllEdited

-----------------------------------------------------------------------------
(* The informer *)

\* A relist that skips events, or the next event: what is left in the watch.
LEMMA Delivered ==
  ASSUME IInv, NEW k \in Keys, Deliver(k)
  PROVE  \E n \in 1 .. Len(watch[k]) :
           /\ cache'[k] = watch[k][n]
           /\ \A h \in Keys \ {k} : cache'[h] = cache[h] /\ watch'[h] = watch[h]
           /\ watch'[k] = SubSeq(watch[k], n + 1, Len(watch[k]))
           /\ DOMAIN watch'[k] = 1 .. (Len(watch[k]) - n)
           /\ \A m \in 1 .. (Len(watch[k]) - n) : watch'[k][m] = watch[k][n + m]
           /\ watch'[k] = <<>> <=> n = Len(watch[k])
           /\ n < Len(watch[k]) => watch'[k][Len(watch'[k])] = watch[k][Len(watch[k])]
<1> DEFINE s == watch[k]
<1>1. /\ watch \in [Keys -> Seq(Versions \union {NoObj})]
      /\ cache \in [Keys -> Versions \union {NoObj}]
  BY DEF IInv, TypeOK
<1>2. PICK n \in {1, Len(s)} :
        /\ cache' = [cache EXCEPT ![k] = s[n]]
        /\ watch' = [watch EXCEPT ![k] = SubSeq(s, n + 1, Len(s))]
  BY DEF Deliver
<1>3. s # <<>> /\ s \in Seq(Versions \union {NoObj})
  BY <1>1 DEF Deliver
<1>4. Len(s) \in Nat /\ Len(s) > 0 /\ n \in 1 .. Len(s)
  BY <1>3
<1> DEFINE r == SubSeq(s, n + 1, Len(s))
<1>5. /\ cache'[k] = s[n] /\ watch'[k] = r
      /\ \A h \in Keys \ {k} : cache'[h] = cache[h] /\ watch'[h] = watch[h]
  BY <1>1, <1>2
<1>6. /\ Len(r) = Len(s) - n /\ DOMAIN r = 1 .. (Len(s) - n)
      /\ \A m \in 1 .. (Len(s) - n) : r[m] = s[n + m]
      /\ r = <<>> <=> n = Len(s)
  <2> HIDE DEF s
  <2>1. n + 1 \in Int /\ Len(s) \in Int
    BY <1>4
  <2>2. CASE n = Len(s)
    <3>1. r = <<>>
      BY <1>3, <1>4, <2>2
    <3> QED BY <1>4, <2>2, <3>1
  <2>3. CASE n < Len(s)
    <3>1. /\ Len(r) = Len(s) - n /\ DOMAIN r = 1 .. (Len(s) - n)
          /\ \A m \in 1 .. (Len(s) - n) : r[m] = s[n + m]
      BY <1>3, <1>4, <2>3
    <3> HIDE DEF r
    <3>2. r # <<>>
      BY <1>4, <2>3, <3>1
    <3> QED BY <1>4, <2>3, <3>1, <3>2
  <2> QED BY <1>4, <2>2, <2>3
<1> HIDE DEF s, r
<1>7. n < Len(s) => r[Len(r)] = s[Len(s)]
  <2>1. n < Len(s) => Len(r) \in 1 .. (Len(s) - n) /\ n + Len(r) = Len(s)
    BY <1>4, <1>6
  <2> QED BY <1>6, <2>1
<1>8. \E m \in 1 .. Len(s) :
        /\ cache'[k] = s[m]
        /\ \A h \in Keys \ {k} : cache'[h] = cache[h] /\ watch'[h] = watch[h]
        /\ watch'[k] = SubSeq(s, m + 1, Len(s))
        /\ DOMAIN watch'[k] = 1 .. (Len(s) - m)
        /\ \A i \in 1 .. (Len(s) - m) : watch'[k][i] = s[m + i]
        /\ watch'[k] = <<>> <=> m = Len(s)
        /\ m < Len(s) => watch'[k][Len(watch'[k])] = s[Len(s)]
  <2>1. /\ cache'[k] = s[n] /\ watch'[k] = r /\ r = SubSeq(s, n + 1, Len(s))
        /\ \A h \in Keys \ {k} : cache'[h] = cache[h] /\ watch'[h] = watch[h]
    BY <1>5 DEF r
  <2> QED BY <1>4, <1>6, <1>7, <2>1
<1> QED BY <1>8 DEF s

\* A call leaves the objects and the informer alone.
LEMMA WorkKeepsObjects ==
  ASSUME NEW w \in Workers, Work(w)
  PROVE  UNCHANGED <<obj, watch, cache, active>>
BY DEF Work, Ensures, CleansUp, ReadObject, DescribeLoadBalancer, ListAccelerators,
   ListTags, CreateAccelerator, CreateListener, CreateEndpointGroup, AcceleratorChanged,
   UpdateAccelerator, TagResource, GetListener, PutListener, GetEndpointGroup,
   PutEndpointGroup, DescribeAccelerator, RelatedListener, RelatedEndpointGroup,
   DeleteEndpointGroup, DeleteListener, DisableAccelerator, PollAccelerator,
   DeleteAccelerator, At, cluster

\* Told and AllEdited after every step.
LEMMA ToldKept ==
  ASSUME IInv, Told, AllEdited, [Next]_vars
  PROVE  Told' /\ AllEdited'
<1>1. /\ obj \in [Keys -> Versions \union {NoObj}] /\ cache \in [Keys -> Versions \union {NoObj}]
      /\ watch \in [Keys -> Seq(Versions \union {NoObj})]
  BY DEF IInv, TypeOK
<1>2. ASSUME NEW k \in Keys, NEW v \in Versions \union {NoObj}, Change(k, v)
      PROVE  Told' /\ AllEdited'
  <2> DEFINE s == Append(watch[k], v)
  <2>1. /\ obj' = [obj EXCEPT ![k] = v] /\ watch' = [watch EXCEPT ![k] = s]
        /\ cache' = cache /\ <<obj[k], v>> \in Edits
    BY <1>2 DEF Change
  <2>2. watch[k] \in Seq(Versions \union {NoObj})
    BY <1>1
  <2>3. /\ Len(watch[k]) \in Nat /\ Len(s) = Len(watch[k]) + 1 /\ s[Len(watch[k]) + 1] = v
        /\ DOMAIN s = 1 .. (Len(watch[k]) + 1) /\ DOMAIN watch[k] = 1 .. Len(watch[k])
        /\ \A n \in DOMAIN watch[k] : s[n] = watch[k][n]
    BY <2>2
  <2> HIDE DEF s
  <2>4. s # <<>> /\ s[Len(s)] = v
    BY <2>3
  <2>5. Edited(v)
    BY <2>1 DEF Edited
  <2>6. \A n \in DOMAIN s : Edited(s[n])
    BY <2>3, <2>5 DEF AllEdited
  <2>7. /\ obj'[k] = v /\ watch'[k] = s /\ cache'[k] = cache[k]
        /\ \A h \in Keys \ {k} : obj'[h] = obj[h] /\ watch'[h] = watch[h] /\ cache'[h] = cache[h]
    BY <1>1, <2>1
  <2>8. Told'
    BY <2>4, <2>7 DEF Told
  <2>9. AllEdited'
    BY <2>5, <2>6, <2>7 DEF AllEdited, Edited
  <2> QED BY <2>8, <2>9
<1>3. ASSUME NEW k \in Keys, Deliver(k)
      PROVE  Told' /\ AllEdited'
  <2> DEFINE s == watch[k]
  <2>1. PICK n \in 1 .. Len(s) :
           /\ cache'[k] = s[n]
           /\ \A h \in Keys \ {k} : cache'[h] = cache[h] /\ watch'[h] = watch[h]
           /\ DOMAIN watch'[k] = 1 .. (Len(s) - n)
           /\ \A m \in 1 .. (Len(s) - n) : watch'[k][m] = s[n + m]
           /\ watch'[k] = <<>> <=> n = Len(s)
           /\ n < Len(s) => watch'[k][Len(watch'[k])] = s[Len(s)]
    BY <1>3, Delivered
  <2>2. /\ s # <<>> /\ obj' = obj /\ Len(s) \in Nat /\ DOMAIN s = 1 .. Len(s)
        /\ n \in 1 .. Len(s) /\ (n = Len(s) \/ n < Len(s))
    BY <1>1, <1>3, <2>1 DEF Deliver
  <2>3. obj[k] = s[Len(s)] /\ \A m \in DOMAIN s : Edited(s[m])
    BY <2>2 DEF Told, AllEdited
  <2>4. obj'[k] = IF watch'[k] = <<>> THEN cache'[k] ELSE watch'[k][Len(watch'[k])]
    <3> HIDE DEF s
    <3>1. CASE n = Len(s)
      BY <2>1, <2>2, <2>3, <3>1
    <3>2. CASE n < Len(s)
      BY <2>1, <2>2, <2>3, <3>2
    <3> QED BY <2>1, <2>2, <3>1, <3>2
  <2>5. Edited(cache'[k]) /\ \A m \in DOMAIN watch'[k] : Edited(watch'[k][m])
    <3> HIDE DEF s
    <3>1. ASSUME NEW m \in 1 .. (Len(s) - n)
          PROVE  n + m \in 1 .. Len(s)
      <4> DEFINE last == Len(s)
      <4>1. last \in Nat /\ n \in 1 .. last /\ m \in 1 .. (last - n)
        BY <2>2, <3>1
      <4> HIDE DEF last
      <4>2. n + m \in 1 .. last
        BY <4>1
      <4> QED BY <4>2 DEF last
    <3>2. ASSUME NEW m \in 1 .. (Len(s) - n)
          PROVE  Edited(watch'[k][m])
      <4>1. watch'[k][m] = s[n + m] /\ Edited(s[n + m])
        BY <2>1, <2>2, <2>3, <3>1
      <4> QED BY <4>1
    <3>3. Edited(cache'[k])
      BY <2>1, <2>2, <2>3
    <3> QED BY <2>1, <3>2, <3>3
  <2>6. Told'
    BY <2>1, <2>2, <2>4 DEF Told
  <2>7. AllEdited'
    <3> HIDE DEF s
    <3>1. ASSUME NEW h \in Keys
          PROVE  /\ Edited(obj'[h]) /\ Edited(cache'[h])
                 /\ \A m \in DOMAIN watch'[h] : Edited(watch'[h][m])
      BY <2>1, <2>2, <2>5 DEF AllEdited
    <3> QED BY <3>1 DEF AllEdited, Edited
  <2> QED BY <2>6, <2>7
<1>4. CASE Crash
  <2>1. obj' = obj /\ cache' = obj /\ watch' = [k \in Keys |-> <<>>]
    BY <1>4 DEF Crash
  <2>2. \A k \in Keys : watch'[k] = <<>> /\ DOMAIN watch'[k] = {}
    BY <2>1
  <2> QED BY <2>1, <2>2 DEF Told, AllEdited, Edited
<1>5. CASE UNCHANGED <<obj, watch, cache>>
  BY <1>5 DEF Told, AllEdited, Edited
<1> QED BY <1>2, <1>3, <1>4, <1>5, WorkKeepsObjects DEF Next, vars, LBActivate, AwsDeploys, Take, At,
        cluster

-----------------------------------------------------------------------------
(* The ledger: a worker goes on, or lets go *)

\* The ledger of one object.
Account(k) ==
  /\ \A w \in Workers : Holds(w, k) => OnIt(pc[w], job[w], cache[k], Holdings(k))
  /\ (\A w \in Workers : ~Holds(w, k)) => Settled(cache[k], Holdings(k))

\* Worker w, which has key k, takes a step.
Steps(w, k) ==
  /\ IInv /\ IInv' /\ Ledger /\ Call(w) /\ AllEdited
  /\ k \in Keys /\ job[w].key = k
  /\ \A h \in Keys \ {k} : Holdings(h)' = Holdings(h)

\* An object has the same accelerators if none of them is written and it gets or
\* loses none.
LEMMA HoldingsSame ==
  ASSUME NEW k, Owned(k)' = Owned(k), \A a \in Owned(k) : acc'[a] = acc[a]
  PROVE  Holdings(k)' = Holdings(k)
BY DEF Holdings

\* Whose account is as before.
LEMMA AccountKept ==
  ASSUME NEW k, Account(k), Holdings(k)' = Holdings(k), cache'[k] = cache[k],
         \A w \in Workers : /\ Holds(w, k)' <=> Holds(w, k)
                            /\ Holds(w, k) => pc'[w] = pc[w] /\ job'[w] = job[w]
  PROVE  Account(k)'
<1>1. ASSUME NEW w \in Workers, Holds(w, k)'
      PROVE  OnIt(pc'[w], job'[w], cache'[k], Holdings(k)')
  <2>1. /\ pc'[w] = pc[w] /\ job'[w] = job[w]
        /\ OnIt(pc[w], job[w], cache[k], Holdings(k))
    BY <1>1 DEF Account
  <2> QED BY <2>1
<1>2. ASSUME \A w \in Workers : ~Holds(w, k)'
      PROVE  Settled(cache'[k], Holdings(k)')
  <2>1. Settled(cache[k], Holdings(k))
    BY <1>2 DEF Account
  <2> QED BY <2>1
<1> QED BY <1>1, <1>2 DEF Account, OnIt, OnPurpose, Progress, Settled

\* A step of worker w leaves the accounts of the other objects alone.
LEMMA OthersKept ==
  ASSUME NEW w, NEW k, Steps(w, k), NEW h \in Keys, h # k, ~Waiting(h),
         \A v \in Workers \ {w} : pc'[v] = pc[v] /\ job'[v] = job[v],
         pc'[w] = "idle" \/ job'[w].key = k
  PROVE  Account(h)'
<1>1. Holdings(h)' = Holdings(h) /\ cache'[h] = cache[h]
  BY DEF Steps, Call
<1>2. Account(h)
  BY DEF Steps, Ledger, Account
<1>3. ~Holds(w, h) /\ ~Holds(w, h)'
  BY DEF Steps, Holds
<1>4. \A v \in Workers : /\ Holds(v, h)' <=> Holds(v, h)
                         /\ Holds(v, h) => pc'[v] = pc[v] /\ job'[v] = job[v]
  BY <1>3 DEF Holds
<1> QED BY <1>1, <1>2, <1>4, AccountKept

\* The worker goes on: what it is on now is what its object needs.
LEMMA GotoLedger ==
  ASSUME NEW w, NEW k, Steps(w, k), NEW site, site # "idle", NEW j, j.key = k,
         Goto(w, site, j), ~Waiting(k) => OnIt(site, j, cache[k], Holdings(k)')
  PROVE  Ledger'
<1>1. /\ pc' = [pc EXCEPT ![w] = site] /\ job' = [job EXCEPT ![w] = j]
      /\ queue' = queue /\ cache' = cache /\ w \in Workers
  BY DEF Goto, Steps, Call
<1>2. /\ pc'[w] = site /\ job'[w] = j
      /\ \A v \in Workers \ {w} : pc'[v] = pc[v] /\ job'[v] = job[v]
  BY <1>1 DEF Steps, IInv, TypeOK
<1>3. \A h : Waiting(h)' <=> Waiting(h)
  BY <1>1 DEF Waiting
<1>4. ASSUME NEW h \in Keys, ~Waiting(h)', h # k
      PROVE  Account(h)'
  BY <1>2, <1>3, <1>4, OthersKept
<1>5. ASSUME NEW v \in Workers, Holds(v, k)'
      PROVE  v = w
  BY <1>1, <1>2, <1>5 DEF Steps, IInv, NoStaleFinding, OneWorkerPerKey, Holds
<1>6. Holds(w, k)'
  BY <1>2 DEF Holds
<1>7. ASSUME ~Waiting(k)'
      PROVE  Account(k)'
  <2>1. OnIt(site, j, cache[k], Holdings(k)')
    BY <1>3, <1>7
  <2>2. OnIt(pc'[w], job'[w], cache'[k], Holdings(k)')
    BY <1>1, <1>2, <2>1
  <2>3. \A v \in Workers : Holds(v, k)' => OnIt(pc'[v], job'[v], cache'[k], Holdings(k)')
    BY <1>5, <2>2
  <2> QED BY <1>1, <1>6, <2>3 DEF Account, OnIt, OnPurpose, Progress
<1> QED BY <1>4, <1>7 DEF Ledger, Account

\* The worker lets go of the key: either it waits again or nothing is left to do.
LEMMA FinishLedger ==
  ASSUME NEW w, NEW k, Steps(w, k), NEW res, Finish(w, res),
         ~Requeues(res) /\ ~Waiting(k) => Settled(cache[k], Holdings(k)')
  PROVE  Ledger'
<1> DEFINE q == queue[QueueOf[w]]
<1>1. /\ pc' = [pc EXCEPT ![w] = "idle"] /\ job' = [job EXCEPT ![w] = NoJob]
      /\ queue' = [queue EXCEPT ![QueueOf[w]] = Finished(q, k, res)]
      /\ cache' = cache /\ w \in Workers
  BY DEF Finish, Steps, Call
<1>2. /\ pc'[w] = "idle"
      /\ \A v \in Workers \ {w} : pc'[v] = pc[v] /\ job'[v] = job[v]
  BY <1>1 DEF Steps, IInv, TypeOK
<1>3. /\ QueueOf[w] \in Kinds /\ q \in QueueOver(Keys) /\ pc[w] # "idle"
      /\ KindOf[k] = QueueOf[w]
  BY <1>1, KindAssumption DEF Steps, Call, IInv, TypeOK, NoStaleFinding, OneWorkerPerKey
<1>4. Finished(q, k, res).pending = IF Requeues(res) THEN q.pending \union {k} ELSE q.pending
  BY <1>3 DEF Finished, Done, Add, QueueOver
<1>5. /\ \A h \in Keys \ {k} : Waiting(h)' <=> Waiting(h)
      /\ Waiting(k)' <=> Waiting(k) \/ Requeues(res)
  <2> HIDE DEF q
  <2>1. q = queue[QueueOf[w]] /\ queue \in [Kinds -> QueueOver(Keys)]
    BY DEF q, Steps, IInv, TypeOK
  <2>2. /\ queue'[QueueOf[w]].pending = IF Requeues(res) THEN q.pending \union {k} ELSE q.pending
        /\ \A kind \in Kinds \ {QueueOf[w]} : queue'[kind] = queue[kind]
    BY <1>1, <1>3, <1>4, <2>1
  <2>3. \A h \in Keys : KindOf[h] \in Kinds
    BY KindAssumption
  <2> QED BY <1>3, <2>1, <2>2, <2>3 DEF Waiting, Steps
<1>6. ASSUME NEW h \in Keys, ~Waiting(h)', h # k
      PROVE  Account(h)'
  BY <1>2, <1>5, <1>6, OthersKept
<1>7. ASSUME NEW v \in Workers, Holds(v, k)'
      PROVE  FALSE
  <2>1. v # w /\ Holds(v, k) /\ Holds(w, k)
    BY <1>2, <1>3, <1>7 DEF Holds, Steps
  <2> QED BY <1>1, <2>1 DEF Steps, IInv, NoStaleFinding, OneWorkerPerKey, Holds
<1>8. ASSUME ~Waiting(k)'
      PROVE  Account(k)'
  <2>1. Settled(cache'[k], Holdings(k)')
    BY <1>1, <1>5, <1>8
  <2> QED BY <1>7, <2>1 DEF Account, Settled
<1> QED BY <1>6, <1>8 DEF Ledger, Account

\* A worker that gets a key is to read its object.
LEMMA TakeLedger ==
  ASSUME IInv, IInv', Ledger, NEW w \in Workers, NEW k \in Keys, Take(w, k)
  PROVE  Ledger'
<1> DEFINE q == queue[QueueOf[w]]
<1>1. /\ pc[w] = "idle" /\ pc' = [pc EXCEPT ![w] = "read"] /\ KindOf[k] = QueueOf[w]
      /\ queue' = [queue EXCEPT ![QueueOf[w]] = Get(q, k)]
      /\ UNCHANGED <<cache, acc, spent>>
  BY DEF Take, At, cluster
<1>2. pc'[w] = "read" /\ job'[w].key = k
  BY <1>1 DEF Take, IInv, TypeOK
<1>3. \A v \in Workers \ {w} : pc'[v] = pc[v] /\ job'[v] = job[v]
  BY <1>1 DEF Take, IInv, TypeOK
<1>4. /\ QueueOf[w] \in Kinds /\ queue \in [Kinds -> QueueOver(Keys)]
      /\ \A h \in Keys : KindOf[h] \in Kinds
  BY KindAssumption DEF IInv, TypeOK
<1>5. /\ queue'[QueueOf[w]].pending = q.pending \ {k}
      /\ \A kind \in Kinds \ {QueueOf[w]} : queue'[kind] = queue[kind]
  BY <1>1, <1>4 DEF Get
<1>6. \A h \in Keys \ {k} : Waiting(h)' <=> Waiting(h)
  BY <1>4, <1>5 DEF Waiting
<1>7. \A h \in Keys : Holdings(h)' = Holdings(h)
  BY <1>1, OwnedSame, HoldingsSame
<1>8. ASSUME NEW h \in Keys, ~Waiting(h)'
      PROVE  Account(h)'
  <2>1. CASE h = k
    <3>1. Holds(w, k)'
      BY <1>2 DEF Holds
    <3>2. ASSUME NEW v \in Workers, Holds(v, k)'
          PROVE  v = w
      BY <3>1, <3>2 DEF IInv, NoStaleFinding, OneWorkerPerKey, Holds
    <3>3. \A v \in Workers : Holds(v, k)' => pc'[v] = "read"
      BY <1>2, <3>2
    <3> QED BY <2>1, <3>1, <3>3 DEF Account, OnIt
  <2>2. CASE h # k
    <3>1. Account(h)
      BY <1>6, <1>8, <2>2 DEF Ledger, Account
    <3>2. ~Holds(w, h) /\ ~Holds(w, h)'
      BY <1>1, <1>2, <2>2 DEF Holds
    <3>3. \A v \in Workers : /\ Holds(v, h)' <=> Holds(v, h)
                             /\ Holds(v, h) => pc'[v] = pc[v] /\ job'[v] = job[v]
      BY <1>3, <3>2 DEF Holds
    <3> QED BY <1>1, <1>7, <3>1, <3>3, AccountKept
  <2> QED BY <2>1, <2>2
<1> QED BY <1>8 DEF Ledger, Account

-----------------------------------------------------------------------------
(* The ledger: the informer and the environment *)

\* A step that leaves the cache, the queues, the workers and AWS's accelerators
\* alone.
LEMMA AsideLedger ==
  ASSUME Ledger, UNCHANGED <<cache, queue, pc, job, acc>>
  PROVE  Ledger'
<1>1. \A k \in Keys : Holdings(k)' = Holdings(k) /\ (Waiting(k)' <=> Waiting(k))
  BY OwnedSame, HoldingsSame DEF Waiting
<1>2. \A k : \A w \in Workers : Holds(w, k)' <=> Holds(w, k)
  BY DEF Holds
<1>3. ASSUME NEW k \in Keys, ~Waiting(k)'
      PROVE  Account(k)'
  <2>1. Account(k)
    BY <1>1, <1>3 DEF Ledger, Account
  <2> QED BY <1>1, <1>2, <2>1, AccountKept
<1> QED BY <1>3 DEF Ledger, Account

\* A version that needs something and is not the cached one makes the handlers
\* enqueue the key, unless the two need the same.
LEMMA NotifiesNeeds ==
  ASSUME NEW k \in Keys, NEW old, NEW new, Edited(old), Edited(new), ~Notifies(k, old, new)
  PROVE  /\ NeedsOne(new) => old = new
         /\ NeedsNone(new) => NeedsNone(old)
<1>1. NeedsOne(new) => old = new
  BY DEF NeedsOne, Notifies
<1>2. CASE NeedsNone(new)
  <2>1. old # NoObj => old.eligible
    BY <1>2 DEF NeedsNone, CleanupReached, Edited
  <2>2. new # NoObj => new.eligible
    BY <1>2 DEF NeedsNone, CleanupReached, Edited
  <2>3. old = NoObj \/ ~old.managed
    BY <1>2, <2>1, <2>2 DEF Notifies, NeedsNone
  <2> QED BY <1>1, <1>2, <2>3 DEF NeedsNone
<1> QED BY <1>1, <1>2

\* The informer's next version either is no news or makes the key wait.
LEMMA DeliverLedger ==
  ASSUME IInv, Ledger, AllEdited, AllEdited', NEW k \in Keys, Deliver(k)
  PROVE  Ledger'
<1>1. PICK n \in {1, Len(watch[k])} :
        /\ cache' = [cache EXCEPT ![k] = watch[k][n]]
        /\ queue' = IF Notifies(k, cache[k], watch[k][n])
                    THEN [queue EXCEPT ![KindOf[k]] = Add(queue[KindOf[k]], k)]
                    ELSE queue
  BY DEF Deliver
<1>2. UNCHANGED <<pc, job, acc>>
  BY DEF Deliver, aws
<1>3. cache'[k] = watch[k][n] /\ \A h \in Keys \ {k} : cache'[h] = cache[h]
  BY <1>1 DEF IInv, TypeOK
<1>4. Edited(cache[k]) /\ Edited(cache'[k])
  BY DEF AllEdited, Edited
<1>5. /\ queue \in [Kinds -> QueueOver(Keys)] /\ \A h \in Keys : KindOf[h] \in Kinds
  BY KindAssumption DEF IInv, TypeOK
<1>6. /\ \A h \in Keys : Waiting(h) => Waiting(h)'
      /\ Notifies(k, cache[k], cache'[k]) => Waiting(k)'
  <2>1. CASE queue' = queue /\ ~Notifies(k, cache[k], cache'[k])
    BY <2>1 DEF Waiting
  <2>2. CASE queue' = [queue EXCEPT ![KindOf[k]] = Add(queue[KindOf[k]], k)]
    <3>1. /\ queue'[KindOf[k]].pending = queue[KindOf[k]].pending \union {k}
          /\ \A kind \in Kinds \ {KindOf[k]} : queue'[kind] = queue[kind]
      BY <1>5, <2>2 DEF Add, QueueOver
    <3> QED BY <1>5, <3>1 DEF Waiting
  <2> QED BY <1>1, <1>3, <2>1, <2>2
<1>7. \A h \in Keys : Holdings(h)' = Holdings(h)
  BY <1>2, OwnedSame, HoldingsSame
<1>8. ASSUME NEW h \in Keys, ~Waiting(h)'
      PROVE  (NeedsOne(cache'[h]) => cache[h] = cache'[h])
             /\ (NeedsNone(cache'[h]) => NeedsNone(cache[h]))
  <2>1. CASE h = k
    BY <1>4, <1>6, <1>8, <2>1, NotifiesNeeds
  <2>2. CASE h # k
    BY <1>3, <2>2
  <2> QED BY <2>1, <2>2
<1>9. ASSUME NEW h \in Keys, ~Waiting(h)', NEW w \in Workers, Holds(w, h)'
      PROVE  OnIt(pc'[w], job'[w], cache'[h], Holdings(h)')
  <2>1. OnIt(pc[w], job[w], cache[h], Holdings(h))
    BY <1>2, <1>6, <1>9 DEF Ledger, Holds
  <2>2. /\ NeedsOne(cache'[h]) => cache[h] = cache'[h]
        /\ NeedsNone(cache'[h]) => NeedsNone(cache[h])
    BY <1>8, <1>9
  <2>3. OnIt(pc[w], job[w], cache'[h], Holdings(h))
    BY <2>1, <2>2 DEF OnIt, OnPurpose
  <2> QED BY <1>2, <1>7, <2>3
<1>10. ASSUME NEW h \in Keys, ~Waiting(h)', \A w \in Workers : ~Holds(w, h)'
       PROVE  Settled(cache'[h], Holdings(h)')
  <2>1. Settled(cache[h], Holdings(h))
    BY <1>2, <1>6, <1>10 DEF Ledger, Holds
  <2>2. /\ NeedsOne(cache'[h]) => cache[h] = cache'[h]
        /\ NeedsNone(cache'[h]) => NeedsNone(cache[h])
    BY <1>8, <1>10
  <2>3. Settled(cache'[h], Holdings(h))
    BY <2>1, <2>2 DEF Settled
  <2> QED BY <1>7, <2>3
<1> QED BY <1>9, <1>10 DEF Ledger, OnIt, OnPurpose, Progress, Settled

\* A new process lists every object, and its handlers enqueue those that want
\* an accelerator.
LEMMA CrashLedger ==
  ASSUME IInv, Crash
  PROVE  Ledger'
<1>1. cache' = obj /\ \A w \in Workers : pc'[w] = "idle"
  BY DEF Crash
<1>2. \A c : ~NeedsNone(c)
  BY BoundAssumption DEF NeedsNone, Crash, IInv, TypeOK
<1>3. ASSUME NEW k \in Keys, ~Waiting(k)'
      PROVE  Settled(cache'[k], Holdings(k)')
  <2>1. queue'[KindOf[k]].pending =
          {h \in Keys : KindOf[h] = KindOf[k] /\ obj[h] # NoObj /\ Notifies(h, NoObj, obj[h])}
    BY KindAssumption DEF Crash, EmptyQueue
  <2>2. obj[k] = NoObj \/ ~Notifies(k, NoObj, obj[k])
    BY <1>3, <2>1 DEF Waiting
  <2>3. ~NeedsOne(obj[k])
    BY <2>2 DEF NeedsOne, Notifies
  <2> QED BY <1>1, <1>2, <2>3 DEF Settled
<1> QED BY <1>1, <1>3 DEF Ledger, Holds, Settled

-----------------------------------------------------------------------------
(* Where the worker's accelerator is, and whose *)

\* A call of worker w is a step of the worker that has k, and touches nobody
\* else's accelerators.
LEMMA WorkSteps ==
  ASSUME IInv, AllLayered, Ledger, AllEdited, NEW w \in Workers, Work(w),
         NEW k, k = job[w].key
  PROVE  Steps(w, k)
<1>1. pc[w] # "idle" /\ UNCHANGED <<obj, watch, cache, active>>
  <2>1. pc[w] \in Sites /\ "idle" \notin Sites
    BY DEF Work, Ensures, CleansUp, ReadObject, DescribeLoadBalancer, ListAccelerators,
       ListTags, CreateAccelerator, CreateListener, CreateEndpointGroup, AcceleratorChanged,
       UpdateAccelerator, TagResource, GetListener, PutListener, GetEndpointGroup,
       PutEndpointGroup, DescribeAccelerator, RelatedListener, RelatedEndpointGroup,
       DeleteEndpointGroup, DeleteListener, DisableAccelerator, PollAccelerator,
       DeleteAccelerator, At, Sites, UpdateSites, CleanupSites
  <2> QED BY <2>1, WorkKeepsObjects
<1>2. job[w] \in Jobs /\ k \in Keys
  BY <1>1 DEF IInv, TypeOK, Jobs
<1>3. IInv'
  BY NextIInv DEF Next
<1>4. ASSUME NEW h \in Keys, h # k
      PROVE  Owned(h)' = Owned(h) /\ Holdings(h)' = Holdings(h)
  <2>1. CASE acc' = acc
    BY <2>1, OwnedSame, HoldingsSame
  <2>2. CASE Rewrites(w) \/ Removes(w)
    <3>1. PICK r \in Accelerators \union {NoAcc} :
            /\ acc' = [acc EXCEPT ![job[w].arn] = r]
            /\ r # NoAcc => TagsMatch(r, k)
      BY <1>2, <2>2 DEF Rewrites, Removes
    <3>2. pc[w] \in UpdateSites \union CleanupSites
      BY <2>2 DEF Rewrites, Removes
    <3>3. /\ job[w].arn \in Arns /\ acc[job[w].arn] # NoAcc
          /\ TagsMatch(acc[job[w].arn], k)
      BY <1>2, <3>2, AtOwn DEF Exists
    <3>4. \A b \in Arns : b # job[w].arn => acc'[b] = acc[b]
      BY <3>1 DEF IInv, TypeOK
    <3>5. acc'[job[w].arn] = r
      BY <3>1, <3>3 DEF IInv, TypeOK
    <3>6. Owned(h)' = Owned(h)
      BY <1>4, <3>1, <3>3, <3>4, <3>5 DEF Owned, Exists, TagsMatch
    <3>7. \A b \in Owned(h) : acc'[b] = acc[b]
      BY <1>4, <3>3, <3>4 DEF Owned, TagsMatch
    <3> QED BY <3>6, <3>7, HoldingsSame
  <2>3. CASE Creates(w)
    <3>1. PICK a \in Arns, r \in Accelerators :
            ~Exists(a) /\ TagsMatch(r, k) /\ acc' = [acc EXCEPT ![a] = r]
      BY <2>3 DEF Creates
    <3>2. acc'[a] = r /\ \A b \in Arns \ {a} : acc'[b] = acc[b]
      BY <3>1 DEF IInv, TypeOK
    <3>3. Owned(h)' = Owned(h)
      BY <1>4, <3>1, <3>2 DEF Owned, Exists, TagsMatch
    <3>4. \A b \in Owned(h) : acc'[b] = acc[b]
      BY <3>1, <3>2 DEF Owned, Exists
    <3> QED BY <3>3, <3>4, HoldingsSame
  <2> QED BY <2>1, <2>2, <2>3, WorkDoes
<1>5. acc' \in AccType /\ syncing' \in SUBSET Arns /\ spent' \in SpentType /\ AtMostOneAccelerator'
  BY <1>3 DEF IInv, TypeOK, AccType, SpentType
<1>6. Call(w)
  BY <1>1, <1>2, <1>4, <1>5 DEF Call
<1> QED BY <1>2, <1>3, <1>4, <1>6 DEF Steps

\* The worker on the way with the purpose it has, before or past the building.
LEMMA StepLedger ==
  ASSUME NEW w, NEW k, Steps(w, k), NEW site, site \notin TitledSites \union {"idle"},
         NEW j, j.key = k, Goto(w, site, j), ~Waiting(k) => OnPurpose(j, cache[k])
  PROVE  Ledger'
<1>1. ~Waiting(k) => OnIt(site, j, cache[k], Holdings(k)')
  BY DEF OnIt, Progress, TitledSites, TaggedSites, ListeningSites, UpdateSites
<1> QED BY <1>1, GotoLedger

\* The worker in the building, with its accelerator as far as it should be.
LEMMA BuildLedger ==
  ASSUME NEW w, NEW k, Steps(w, k), NEW site \in UpdateSites, NEW j, j.key = k,
         Goto(w, site, j), ~Waiting(k) => OnPurpose(j, cache[k]),
         ~Waiting(k) /\ NeedsOne(cache[k]) => Progress(site, j, cache[k], acc'[j.arn])
  PROVE  Ledger'
<1>1. w \in Workers /\ pc'[w] = site /\ job'[w] = j /\ site # "idle"
  BY DEF Goto, Steps, Call, IInv, TypeOK, UpdateSites
<1>2. FindingsHold(pc[w], job[w], Owned(job[w].key))'
  BY <1>1 DEF Steps, IInv, NoStaleFinding
<1>3. j.arn \in Owned(k)'
  <2>1. \A h : job'[w].key = h => Owned(job[w].key)' = Owned(h)'
    BY DEF Owned, Exists
  <2>2. Owned(job[w].key)' = Owned(k)'
    BY <1>1, <2>1
  <2>3. job'[w].arn \in Owned(job[w].key)'
    BY <1>1, <1>2 DEF FindingsHold
  <2> QED BY <1>1, <2>2, <2>3
<1>4. Holdings(k)'[j.arn] = acc'[j.arn]
  BY <1>3 DEF Holdings
<1>5. ~Waiting(k) => OnIt(site, j, cache[k], Holdings(k)')
  BY <1>4 DEF OnIt
<1> QED BY <1>1, <1>5, GotoLedger

\* A worker that fails or waits puts the key back.
LEMMA RetryLedger ==
  ASSUME NEW w, NEW k, Steps(w, k), Finish(w, "err") \/ Finish(w, "after")
  PROVE  Ledger'
<1>1. Requeues("err") /\ Requeues("after")
  BY DEF Requeues
<1> QED BY <1>1, FinishLedger

\* The ledger of a worker's object past the reading of it.
LEMMA AtLedger ==
  ASSUME IInv, Ledger, NEW w \in Workers, pc[w] \notin {"idle", "read"}, NEW k, k = job[w].key
  PROVE  /\ ~Waiting(k) => OnPurpose(job[w], cache[k])
         /\ pc[w] \in UpdateSites /\ ~Waiting(k) /\ NeedsOne(cache[k]) =>
              /\ job[w].view = cache[k] /\ job[w].i \in ElbHosts(cache[k])
              /\ Progress(pc[w], job[w], cache[k], acc[job[w].arn])
<1>1. k \in Keys
  BY DEF IInv, TypeOK, Jobs
<1>2. ~Waiting(k) => OnIt(pc[w], job[w], cache[k], Holdings(k))
  BY <1>1 DEF Ledger, Holds
<1>3. pc[w] \in UpdateSites => job[w].mode = "ensure" /\ Holdings(k)[job[w].arn] = acc[job[w].arn]
  BY AtOwn DEF Holdings
<1> QED BY <1>2, <1>3 DEF OnIt, OnPurpose

-----------------------------------------------------------------------------
(* The ledger: the continuations of the workflow *)

\* What the building of an accelerator for the n-th hostname of c ends with.
Provides(r, c, n) ==
  /\ r.enabled /\ r.name = c.name /\ r.host = c.lbs[n]
  /\ r.listener # None /\ ~ListenerChanged(r.listener, c) /\ c.lbs[n] \in r.group

\* The loop over the status hostnames.  It ends well only after the last load
\* balancer, whose accelerator is then complete.
LEMMA EnsureFromLedger ==
  ASSUME NEW w, NEW k, Steps(w, k), NEW j \in Jobs, j.key = k, j.mode = "ensure",
         NEW i \in Nat, i >= 1,
         ~Waiting(k) => ~NeedsNone(cache[k]) /\ (NeedsOne(cache[k]) => j.view = cache[k]),
         EnsureFrom(w, j, i),
         i = 1 \/ (~Waiting(k) /\ NeedsOne(cache[k]) =>
                     /\ i - 1 \in ElbHosts(cache[k])
                     /\ \E a \in Owned(k)' : Provides(acc'[a], cache[k], i - 1))
  PROVE  Ledger'
<1>1. CASE Finish(w, "err")
  BY <1>1, RetryLedger
<1>2. CASE /\ \A n \in i .. Len(j.view.lbs) : HostKind[j.view.lbs[n]] = "otherCloud"
           /\ Finish(w, "ok")
  <2>1. ASSUME ~Waiting(k), NeedsOne(cache[k])
        PROVE  \E a \in DOMAIN Holdings(k)' : Serves(Holdings(k)'[a], cache[k])
    <3> DEFINE c == cache[k]
    <3>1. c = j.view /\ c \in Versions /\ ElbHosts(c) # {}
      BY <2>1 DEF NeedsOne, Steps, IInv, TypeOK
    <3>2. c.lbs \in Seq(LBs) /\ DOMAIN c.lbs = 1 .. Len(c.lbs) /\ Len(c.lbs) \in Nat
      BY <3>1, VersionAssumption DEF IsVersion
    <3> HIDE DEF c
    <3>3. \A m \in ElbHosts(c) : m \in 1 .. Len(c.lbs) /\ m <= i - 1
      BY <1>2, <3>1, <3>2 DEF ElbHosts
    <3>4. i # 1
      BY <3>1, <3>2, <3>3
    <3>5. i - 1 \in ElbHosts(c) /\ \E a \in Owned(k)' : Provides(acc'[a], c, i - 1)
      BY <2>1, <3>4 DEF c
    <3>6. PICK a \in Owned(k)' : Provides(acc'[a], c, i - 1)
      BY <3>5
    <3>7. Serves(acc'[a], c)
      BY <3>3, <3>5, <3>6 DEF Serves, Provides
    <3>8. a \in DOMAIN Holdings(k)' /\ Holdings(k)'[a] = acc'[a]
      BY DEF Holdings
    <3>9. \E b \in DOMAIN Holdings(k)' : Serves(Holdings(k)'[b], c)
      BY <3>7, <3>8
    <3> QED BY <3>9 DEF c
  <2>2. ~Waiting(k) => Settled(cache[k], Holdings(k)')
    BY <2>1 DEF Settled
  <2> QED BY <1>2, <2>2, FinishLedger
<1>3. ASSUME NEW n \in i .. Len(j.view.lbs), HostKind[j.view.lbs[n]] = "elb",
             Goto(w, "loadBalancer", [j EXCEPT !.i = n, !.arn = None])
      PROVE  Ledger'
  <2> DEFINE j2 == [j EXCEPT !.i = n, !.arn = None]
  <2>1. j2.key = k /\ j2.mode = "ensure" /\ j2.view = j.view /\ j2.i = n
    BY DEF Jobs
  <2> HIDE DEF j2
  <2>2. ASSUME ~Waiting(k), NeedsOne(cache[k])
        PROVE  n \in ElbHosts(cache[k])
    <3>1. cache[k] = j.view /\ cache[k] \in Versions
      BY <2>2 DEF NeedsOne, Steps, IInv, TypeOK
    <3>2. DOMAIN cache[k].lbs = 1 .. Len(cache[k].lbs) /\ Len(cache[k].lbs) \in Nat
      BY <3>1, VersionAssumption DEF IsVersion
    <3>3. n \in 1 .. Len(cache[k].lbs)
      BY <3>1, <3>2
    <3> QED BY <1>3, <3>1, <3>2, <3>3 DEF ElbHosts
  <2>3. ~Waiting(k) => OnPurpose(j2, cache[k])
    BY <2>1, <2>2 DEF OnPurpose
  <2>4. "loadBalancer" \notin TitledSites \union {"idle"}
    BY DEF TitledSites, UpdateSites
  <2>5. Goto(w, "loadBalancer", j2)
    BY <1>3 DEF j2
  <2> QED BY <2>1, <2>3, <2>4, <2>5, StepLedger
<1> QED BY <1>1, <1>2, <1>3, HostAssumption DEF EnsureFrom

\* Going on with the next accelerator, to update or to clean up.
LEMMA NextLedger ==
  ASSUME NEW w, NEW k, Steps(w, k), NEW j \in Jobs, j.key = k,
         ~Waiting(k) => OnPurpose(j, cache[k]), NextAccelerator(w, j)
  PROVE  Ledger'
<1> DEFINE site == IF j.mode = "ensure" THEN "changed" ELSE "describe"
<1>1. PICK a \in j.todo : Goto(w, site, [j EXCEPT !.arn = a, !.todo = j.todo \ {a}])
  BY DEF NextAccelerator
<1> DEFINE j2 == [j EXCEPT !.arn = a, !.todo = j.todo \ {a}]
<1>2. j2.key = k /\ j2.mode = j.mode /\ j2.view = j.view /\ j2.i = j.i
  BY DEF Jobs
<1>3. site \notin TitledSites \union {"idle"}
  BY DEF TitledSites, UpdateSites
<1> HIDE DEF j2, site
<1>4. ~Waiting(k) => OnPurpose(j2, cache[k])
  BY <1>2 DEF OnPurpose
<1>5. Goto(w, site, j2)
  BY <1>1 DEF j2
<1> QED BY <1>2, <1>3, <1>4, <1>5, StepLedger

\* The list is complete: without any, there is one to create or nothing to clean up.
LEMMA ListedLedger ==
  ASSUME NEW w, NEW k, Steps(w, k), NEW j \in Jobs, j.key = k,
         ~Waiting(k) => OnPurpose(j, cache[k]), j.todo = Owned(k)', Listed(w, j)
  PROVE  Ledger'
<1>1. CASE NextAccelerator(w, j)
  BY <1>1, NextLedger
<1>2. CASE Goto(w, "create", j)
  <2>1. "create" \notin TitledSites \union {"idle"}
    BY DEF TitledSites, UpdateSites
  <2> QED BY <1>2, <2>1, StepLedger
<1>3. CASE j.todo = {} /\ j.mode = "cleanup" /\ Finish(w, "ok")
  <2>1. DOMAIN Holdings(k)' = {}
    BY <1>3 DEF Holdings
  <2>2. ~Waiting(k) => Settled(cache[k], Holdings(k)')
    BY <1>3, <2>1 DEF Settled, OnPurpose
  <2> QED BY <1>3, <2>2, FinishLedger
<1> QED BY <1>1, <1>2, <1>3 DEF Listed

\* One cleanup is over: nothing is left when none of the object's accelerators is.
LEMMA CleanedLedger ==
  ASSUME NEW w, NEW k, Steps(w, k), NEW j \in Jobs, j.key = k, NEW ok,
         ~Waiting(k) => OnPurpose(j, cache[k]),
         ok /\ NeedsNone(cache[k]) => Owned(k)' = {}, Cleaned(w, j, ok)
  PROVE  Ledger'
<1>1. CASE NextAccelerator(w, j)
  BY <1>1, NextLedger
<1>2. CASE Finish(w, "err")
  BY <1>2, RetryLedger
<1>3. CASE ok /\ j.mode = "cleanup" /\ Finish(w, "ok")
  <2>1. NeedsNone(cache[k]) => DOMAIN Holdings(k)' = {}
    BY <1>3 DEF Holdings
  <2>2. ~Waiting(k) => Settled(cache[k], Holdings(k)')
    BY <1>3, <2>1 DEF Settled, OnPurpose
  <2> QED BY <1>3, <2>2, FinishLedger
<1> QED BY <1>1, <1>2, <1>3 DEF Cleaned

\* The accelerator is done.
LEMMA DoneLedger ==
  ASSUME IInv, Ledger, NEW w \in Workers, pc[w] \in UpdateSites, NEW k, k = job[w].key,
         Steps(w, k), \A h \in Keys : Owned(h)' = Owned(h),
         ~Waiting(k) /\ NeedsOne(cache[k]) =>
           Provides(acc'[job[w].arn], cache[k], job[w].i),
         \/ Updated(w, job[w])
         \/ EnsureFrom(w, job[w], job[w].i + 1)
  PROVE  Ledger'
<1> DEFINE j == job[w]
<1>1. /\ j \in Jobs /\ j.mode = "ensure" /\ j.key = k /\ j.arn \in Owned(k)
      /\ j.i \in Nat /\ j.i + 1 \in Nat /\ j.i + 1 >= 1 /\ (j.i + 1) - 1 = j.i
  BY AtOwn DEF Jobs
<1>2. pc[w] \notin {"idle", "read"}
  BY DEF UpdateSites
<1>3. ~Waiting(k) => OnPurpose(j, cache[k])
  BY <1>2, AtLedger
<1>4. CASE NextAccelerator(w, j)
  BY <1>1, <1>3, <1>4, NextLedger
<1>5. CASE EnsureFrom(w, j, j.i + 1)
  <2>1. ~Waiting(k) => ~NeedsNone(cache[k]) /\ (NeedsOne(cache[k]) => j.view = cache[k])
    BY <1>1, <1>3 DEF OnPurpose
  <2>2. ASSUME ~Waiting(k), NeedsOne(cache[k])
        PROVE  /\ (j.i + 1) - 1 \in ElbHosts(cache[k])
               /\ \E a \in Owned(k)' : Provides(acc'[a], cache[k], (j.i + 1) - 1)
    <3>1. j.i \in ElbHosts(cache[k])
      BY <1>1, <1>3, <2>2 DEF OnPurpose
    <3>2. j.arn \in Owned(k)' /\ Provides(acc'[j.arn], cache[k], j.i)
      BY <1>1, <2>2 DEF Steps
    <3> QED BY <1>1, <3>1, <3>2
  <2> HIDE DEF j
  <2> QED BY <1>1, <1>5, <2>1, <2>2, EnsureFromLedger
<1> QED BY <1>4, <1>5 DEF Updated

-----------------------------------------------------------------------------
(* The ledger: up to the creation *)

\* The object is read: what the worker sets out for is what the object needs.
LEMMA ReadObjectLedger ==
  ASSUME IInv, Ledger, NEW w \in Workers, ReadObject(w), NEW k, k = job[w].key, Steps(w, k)
  PROVE  Ledger'
<1> DEFINE c == cache[k]
           j == [job[w] EXCEPT !.view = c]
           cleanup == [j EXCEPT !.mode = "cleanup"]
<1>1. pc[w] = "read" /\ job[w] \in Jobs /\ k \in Keys /\ c \in Versions \union {NoObj}
  BY DEF ReadObject, At, IInv, TypeOK, Jobs
<1>2. /\ j \in Jobs /\ j.key = k /\ j.view = c /\ j.mode = "ensure"
      /\ cleanup.key = k /\ cleanup.mode = "cleanup"
  <2>1. job[w].mode = "ensure"
    BY <1>1 DEF IInv, NoStaleFinding, OnTask
  <2> QED BY <1>1, <2>1 DEF Jobs
<1>3. CASE (c = NoObj \/ ~c.managed) /\ Goto(w, "list", cleanup)
  <2> HIDE DEF cleanup
  <2>1. OnPurpose(cleanup, c)
    BY <1>2, <1>3 DEF OnPurpose, NeedsOne
  <2>2. "list" \notin TitledSites \union {"idle"}
    BY DEF TitledSites, UpdateSites
  <2> QED BY <1>2, <1>3, <2>1, <2>2, StepLedger
<1>4. CASE c # NoObj /\ c.lbs = <<>> /\ Finish(w, "ok")
  <2>1. ~NeedsOne(c)
    BY <1>4 DEF NeedsOne, ElbHosts
  <2>2. Edited(c)
    BY <1>1 DEF Steps, AllEdited
  <2> HIDE DEF c
  <2>3. ~NeedsNone(c)
    BY <1>4, <2>2 DEF NeedsNone, CleanupReached, Edited
  <2>4. Settled(c, Holdings(k)')
    BY <2>1, <2>3 DEF Settled
  <2> QED BY <1>4, <2>4, FinishLedger DEF c
<1>5. CASE c # NoObj /\ c.managed /\ EnsureFrom(w, j, 1)
  <2>1. ~NeedsNone(c)
    BY <1>5 DEF NeedsNone
  <2> HIDE DEF j
  <2> QED BY <1>2, <1>5, <2>1, EnsureFromLedger
<1> QED BY <1>3, <1>4, <1>5 DEF ReadObject

\* The load balancer is not active: the key waits.
LEMMA DescribeLoadBalancerLedger ==
  ASSUME IInv, Ledger, NEW w \in Workers, DescribeLoadBalancer(w),
         NEW k, k = job[w].key, Steps(w, k)
  PROVE  Ledger'
<1>1. pc[w] = "loadBalancer"
  BY DEF DescribeLoadBalancer, At
<1>2. ~Waiting(k) => OnPurpose(job[w], cache[k])
  BY <1>1, AtLedger
<1>3. Goto(w, "list", job[w]) \/ Finish(w, "after") \/ Finish(w, "err")
  BY DEF DescribeLoadBalancer
<1>4. "list" \notin TitledSites \union {"idle"}
  BY DEF TitledSites, UpdateSites
<1> QED BY <1>2, <1>3, <1>4, StepLedger, RetryLedger

\* The list of accelerators.
LEMMA ListAcceleratorsLedger ==
  ASSUME IInv, Ledger, NEW w \in Workers, ListAccelerators(w),
         NEW k, k = job[w].key, Steps(w, k)
  PROVE  Ledger'
<1> DEFINE all == {a \in Arns : Exists(a)}
           j == [job[w] EXCEPT !.listed = all, !.todo = {}]
<1>1. pc[w] = "list"
  BY DEF ListAccelerators, At
<1>2. job[w] \in Jobs
  BY <1>1, AtList
<1>3. /\ j \in Jobs /\ j.key = k /\ j.todo = {} /\ j.mode = job[w].mode
      /\ j.view = job[w].view /\ j.i = job[w].i
  BY <1>2 DEF Jobs
<1>4. ~Waiting(k) => OnPurpose(job[w], cache[k])
  BY <1>1, AtLedger
<1> HIDE DEF j
<1>5. ~Waiting(k) => OnPurpose(j, cache[k])
  BY <1>3, <1>4 DEF OnPurpose
<1>6. CASE acc' = acc /\ all = {} /\ Listed(w, j)
  <2>1. Owned(k)' = {}
    BY <1>6 DEF Owned, Exists
  <2> QED BY <1>3, <1>5, <1>6, <2>1, ListedLedger
<1>7. CASE Goto(w, "tags", j)
  <2>1. "tags" \notin TitledSites \union {"idle"}
    BY DEF TitledSites, UpdateSites
  <2> QED BY <1>3, <1>5, <1>7, <2>1, StepLedger
<1>8. CASE Finish(w, "err")
  BY <1>8, RetryLedger
<1> QED BY <1>6, <1>7, <1>8 DEF ListAccelerators, Answers, all, j

\* The tags of one listed accelerator.
LEMMA ListTagsLedger ==
  ASSUME IInv, Ledger, NEW w \in Workers, ListTags(w), NEW k, k = job[w].key, Steps(w, k)
  PROVE  Ledger'
<1> DEFINE rest(a) == job[w].listed \ {a}
           found(a) == IF TagsMatch(acc[a], job[w].key) THEN job[w].todo \union {a}
                       ELSE job[w].todo
           j(a) == [job[w] EXCEPT !.listed = rest(a), !.todo = found(a)]
<1>1. pc[w] = "tags"
  BY DEF ListTags, At
<1>2. PICK a \in job[w].listed :
        \/ /\ Answers(Exists(a), acc)
           /\ IF rest(a) = {} THEN Listed(w, j(a)) ELSE Goto(w, "tags", j(a))
        \/ Fails(w, Exists(a), acc) /\ Finish(w, "err")
  BY DEF ListTags
<1>3. CASE Finish(w, "err")
  BY <1>3, RetryLedger
<1>4. CASE /\ Exists(a) /\ acc' = acc
           /\ IF rest(a) = {} THEN Listed(w, j(a)) ELSE Goto(w, "tags", j(a))
  <2>1. /\ job[w] \in Jobs /\ k \in Keys /\ a \in Arns
        /\ job[w].todo \subseteq Owned(job[w].key)
        /\ Owned(job[w].key) \subseteq job[w].listed \union job[w].todo
    BY <1>1, AtList DEF FindingsHold, Jobs
  <2>2. /\ found(a) \subseteq Owned(job[w].key)
        /\ Owned(job[w].key) \subseteq rest(a) \union found(a)
    BY <1>4, <2>1 DEF Owned
  <2>3. found(a) \in SUBSET Arns /\ rest(a) \in SUBSET Arns
    BY <2>1 DEF Jobs
  <2>4. /\ j(a) \in Jobs /\ j(a).key = k /\ j(a).mode = job[w].mode
        /\ j(a).view = job[w].view /\ j(a).i = job[w].i
        /\ j(a).listed = rest(a) /\ j(a).todo = found(a)
    BY <2>1, <2>3 DEF Jobs
  <2>5. ~Waiting(k) => OnPurpose(job[w], cache[k])
    BY <1>1, AtLedger
  <2>6. Owned(k)' = Owned(job[w].key)
    BY <1>4, <2>1, OwnedSame
  <2> HIDE DEF j, found, rest
  <2>7. ~Waiting(k) => OnPurpose(j(a), cache[k])
    BY <2>4, <2>5 DEF OnPurpose
  <2>8. CASE rest(a) = {} /\ Listed(w, j(a))
    <3>1. j(a).todo = Owned(k)'
      <4>1. found(a) = Owned(job[w].key)
        BY <2>2, <2>8
      <4> QED BY <2>4, <2>6, <4>1
    <3> QED BY <2>4, <2>7, <2>8, <3>1, ListedLedger
  <2>9. CASE Goto(w, "tags", j(a))
    <3>1. "tags" \notin TitledSites \union {"idle"}
      BY DEF TitledSites, UpdateSites
    <3> QED BY <2>4, <2>7, <2>9, <3>1, StepLedger
  <2> QED BY <1>4, <2>8, <2>9
<1> QED BY <1>2, <1>3, <1>4 DEF Answers

\* The accelerator is created enabled, with the name and the tags of the object.
LEMMA CreateAcceleratorLedger ==
  ASSUME IInv, Ledger, NEW w \in Workers, CreateAccelerator(w),
         NEW k, k = job[w].key, Steps(w, k)
  PROVE  Ledger'
<1> DEFINE j == job[w]
           r == NewAccelerator(j.key, j.view, Host(j))
           j2(a) == [j EXCEPT !.arn = a]
<1>1. pc[w] = "create"
  BY DEF CreateAccelerator, At
<1>2. j \in Jobs /\ j.mode = "ensure"
  BY <1>1, AtList
<1>3. ~Waiting(k) => OnPurpose(j, cache[k])
  BY <1>1, AtLedger
<1>4. CASE Finish(w, "err")
  BY <1>4, RetryLedger
<1>5. ASSUME NEW a \in Arns, acc' = [acc EXCEPT ![a] = r], Goto(w, "createListener", j2(a))
      PROVE  Ledger'
  <2>1. /\ j2(a).key = k /\ j2(a).mode = j.mode /\ j2(a).view = j.view
        /\ j2(a).i = j.i /\ j2(a).arn = a
    BY <1>2 DEF Jobs
  <2>2. acc'[a] = r
    BY <1>5 DEF IInv, TypeOK
  <2>3. r.enabled /\ r.name = j.view.name /\ r.host = Host(j)
    BY DEF NewAccelerator
  <2> HIDE DEF j2, r, j
  <2>4. ~Waiting(k) => OnPurpose(j2(a), cache[k])
    BY <1>3, <2>1 DEF OnPurpose
  <2>5. ~Waiting(k) /\ NeedsOne(cache[k]) => cache[k] = j.view
    BY <1>2, <1>3 DEF OnPurpose
  <2>6. ~Waiting(k) /\ NeedsOne(cache[k]) =>
          Progress("createListener", j2(a), cache[k], acc'[j2(a).arn])
    BY <2>1, <2>2, <2>3, <2>5 DEF Progress, ListeningSites, Host
  <2>7. "createListener" \in UpdateSites
    BY DEF UpdateSites
  <2> QED BY <1>5, <2>1, <2>4, <2>6, <2>7, BuildLedger
<1> QED BY <1>4, <1>5 DEF CreateAccelerator, Answers

-----------------------------------------------------------------------------
(* The ledger: the calls that build or update one accelerator *)

\* A listener written for a version counts as unchanged for it: every port is
\* mentioned by both.
LEMMA WantedStays ==
  ASSUME NEW v \in Versions
  PROVE  Wanted(v) # None /\ ~ListenerChanged(Wanted(v), v)
<1> DEFINE s == v.ports
           both == s \o s
<1>1. s \in Seq(Ports) /\ Wanted(v) \in Listeners
  BY VersionAssumption DEF IsVersion, Wanted, Listeners
<1>2. Len(s) \in Nat /\ DOMAIN both = 1 .. (Len(s) + Len(s))
  BY <1>1
<1>3. ASSUME NEW n \in DOMAIN both
      PROVE  \E m \in DOMAIN both : both[m] = both[n] /\ m # n
  <2>1. CASE n <= Len(s)
    <3>1. n + Len(s) \in DOMAIN both /\ both[n] = s[n] /\ both[n + Len(s)] = s[n] /\ n + Len(s) # n
      BY <1>1, <1>2, <2>1
    <3> QED BY <3>1
  <2>2. CASE n > Len(s)
    <3>1. /\ n - Len(s) \in DOMAIN both /\ both[n] = s[n - Len(s)]
          /\ both[n - Len(s)] = s[n - Len(s)] /\ n - Len(s) # n
      BY <1>1, <1>2, <2>2
    <3> QED BY <3>1
  <2> QED BY <1>2, <2>1, <2>2
<1>4. ~PortChanged(s, s)
  BY <1>3 DEF PortChanged
<1>5. Wanted(v).protocol = v.protocol /\ Wanted(v).ports = s
  BY DEF Wanted
<1> QED BY <1>1, <1>4, <1>5, NullAssumption DEF ListenerChanged

\* What a worker in the building has to go on.
LEMMA AtBuilding ==
  ASSUME IInv, Ledger, NEW w \in Workers, pc[w] \in UpdateSites, NEW k, k = job[w].key
  PROVE  /\ ~Waiting(k) => OnPurpose(job[w], cache[k])
         /\ ~Waiting(k) /\ NeedsOne(cache[k]) =>
              /\ cache[k] = job[w].view /\ cache[k] \in Versions
              /\ Host(job[w]) = cache[k].lbs[job[w].i]
              /\ Progress(pc[w], job[w], cache[k], acc[job[w].arn])
<1>1. pc[w] \notin {"idle", "read"}
  BY DEF UpdateSites
<1>2. job[w].view \in Versions
  BY AtOwn
<1> QED BY <1>1, <1>2, AtLedger DEF Host

\* The worker gives up a creation: it will end with an error.
LEMMA AbortLedger ==
  ASSUME NEW w, NEW k, Steps(w, k), NEW j \in Jobs, j.key = k, AbortCreate(w, j)
  PROVE  Ledger'
<1> DEFINE abort == [j EXCEPT !.mode = "abort"]
<1>1. abort.key = k /\ abort.mode = "abort"
  BY DEF Jobs
<1> HIDE DEF abort
<1>2. OnPurpose(abort, cache[k])
  BY <1>1 DEF OnPurpose
<1>3. "describe" \notin TitledSites \union {"idle"}
  BY DEF TitledSites, UpdateSites
<1>4. Goto(w, "describe", abort)
  BY DEF AbortCreate, abort
<1> QED BY <1>1, <1>2, <1>3, <1>4, StepLedger

\* The first listener.  When its creation fails the service's worker cleans up;
\* that of an ingress goes on, which BuildAnswered rules out.
LEMMA CreateListenerLedger ==
  ASSUME IInv, Ledger, NEW w \in Workers, CreateListener(w), NEW k, k = job[w].key, Steps(w, k)
  PROVE  Ledger'
<1> DEFINE j == job[w]
           s == acc[j.arn]
<1>1. pc[w] = "createListener"
  BY DEF CreateListener, At
<1>2. pc[w] \in UpdateSites /\ "createEndpointGroup" \in UpdateSites
  BY <1>1 DEF UpdateSites
<1>3. /\ ~Waiting(k) => OnPurpose(j, cache[k])
      /\ ~Waiting(k) /\ NeedsOne(cache[k]) =>
           /\ cache[k] = j.view /\ cache[k] \in Versions
           /\ Progress(pc[w], j, cache[k], s)
  BY <1>2, AtBuilding
<1>4. j \in Jobs /\ j.arn \in Arns /\ s \in Accelerators /\ j.mode = "ensure" /\ Exists(j.arn)
  BY <1>2, AtOwn
<1>5. CASE /\ acc' = [acc EXCEPT ![j.arn].listener = Wanted(j.view)]
           /\ Goto(w, "createEndpointGroup", j)
  <2>1. acc'[j.arn] = [s EXCEPT !.listener = Wanted(j.view)]
    BY <1>4, <1>5 DEF IInv, TypeOK
  <2> DEFINE r == [s EXCEPT !.listener = Wanted(j.view)]
  <2>2. /\ r.enabled = s.enabled /\ r.name = s.name /\ r.host = s.host
        /\ r.listener = Wanted(j.view)
    BY <1>4 DEF Accelerators
  <2> HIDE DEF r, s, j
  <2>3. ~Waiting(k) /\ NeedsOne(cache[k]) =>
          Progress("createEndpointGroup", j, cache[k], r)
    BY <1>1, <1>3, <2>2, WantedStays
       DEF Progress, TitledSites, TaggedSites, ListeningSites, UpdateSites
  <2> QED BY <1>2, <1>3, <1>5, <2>1, <2>3, BuildLedger DEF r, j
<1>6. CASE AbortCreate(w, j)
  BY <1>4, <1>6, AbortLedger
<1>7. ASSUME Fails(w, Exists(j.arn), [acc EXCEPT ![j.arn].listener = Wanted(j.view)]),
             QueueOf[w] # "service", EnsureFrom(w, j, j.i + 1)
      PROVE  Ledger'
  <2>1. <<QueueOf[w], pc[w]>> \in FaultSites /\ QueueOf[w] = "ingress"
    BY <1>4, <1>7, KindAssumption DEF Fails, Kinds
  <2>2. ~NeedsOne(cache[k])
    BY <1>1, <2>1 DEF NeedsOne, BuildAnswered
  <2>3. ~Waiting(k) => ~NeedsNone(cache[k])
    BY <1>3, <1>4 DEF OnPurpose
  <2>4. j.i + 1 \in Nat /\ j.i + 1 >= 1 /\ j.key = k
    BY <1>4 DEF Jobs
  <2> HIDE DEF j
  <2> QED BY <1>4, <1>7, <2>2, <2>3, <2>4, EnsureFromLedger
<1> QED BY <1>5, <1>6, <1>7 DEF CreateListener, Answers

\* The first endpoint group.
LEMMA CreateEndpointGroupLedger ==
  ASSUME IInv, Ledger, NEW w \in Workers, CreateEndpointGroup(w),
         NEW k, k = job[w].key, Steps(w, k)
  PROVE  Ledger'
<1> DEFINE j == job[w]
           s == acc[j.arn]
<1>1. pc[w] = "createEndpointGroup" /\ UNCHANGED <<cluster, active, syncing>>
  BY DEF CreateEndpointGroup, At
<1>2. pc[w] \in UpdateSites
  BY <1>1 DEF UpdateSites
<1>3. ~Waiting(k) /\ NeedsOne(cache[k]) =>
           /\ Host(j) = cache[k].lbs[j.i]
           /\ Progress(pc[w], j, cache[k], s)
  BY <1>2, AtBuilding
<1>4. j \in Jobs /\ j.arn \in Arns /\ s \in Accelerators
  BY <1>2, AtOwn
<1>5. \A h \in Keys : Owned(h)' = Owned(h)
  BY <1>1, <1>2, RecordKept, WriteCall DEF CreateEndpointGroup, IInv, TypeOK
<1>6. CASE acc' = [acc EXCEPT ![j.arn].group = {Host(j)}] /\ EnsureFrom(w, j, j.i + 1)
  <2> DEFINE r == [s EXCEPT !.group = {Host(j)}]
  <2>1. acc'[j.arn] = r
    BY <1>4, <1>6 DEF IInv, TypeOK
  <2>2. /\ r.enabled = s.enabled /\ r.name = s.name /\ r.host = s.host
        /\ r.listener = s.listener /\ r.group = {Host(j)}
    BY <1>4 DEF Accelerators
  <2> HIDE DEF r, s, j
  <2>3. ~Waiting(k) /\ NeedsOne(cache[k]) => Provides(r, cache[k], j.i)
    BY <1>1, <1>3, <2>2
       DEF Progress, TitledSites, TaggedSites, ListeningSites, UpdateSites, Provides
  <2> QED BY <1>2, <1>5, <1>6, <2>1, <2>3, DoneLedger DEF j
<1>7. CASE AbortCreate(w, j)
  BY <1>4, <1>7, AbortLedger
<1> QED BY <1>6, <1>7 DEF CreateEndpointGroup, Answers

\* The comparison: unchanged is an accelerator with the name, the state and the
\* tags the version asks for.
LEMMA AcceleratorChangedLedger ==
  ASSUME IInv, Ledger, NEW w \in Workers, AcceleratorChanged(w),
         NEW k, k = job[w].key, Steps(w, k)
  PROVE  Ledger'
<1> DEFINE j == job[w]
           s == acc[j.arn]
           differs == ~s.enabled \/ s.name # j.view.name
           tagsDiffer == ~(s.managed /\ s.owner = j.key /\ s.host = Host(j))
<1>1. pc[w] = "changed" /\ acc' = acc
  BY DEF AcceleratorChanged, At, Answers, Fails
<1>2. pc[w] \in UpdateSites /\ "getListener" \in UpdateSites
  BY <1>1 DEF UpdateSites
<1>3. /\ ~Waiting(k) => OnPurpose(j, cache[k])
      /\ ~Waiting(k) /\ NeedsOne(cache[k]) => cache[k] = j.view
  BY <1>2, AtBuilding
<1>4. Exists(j.arn)
  BY <1>2, AtOwn
<1>5. CASE Goto(w, "update", j)
  <2>1. "update" \notin TitledSites \union {"idle"}
    BY DEF TitledSites
  <2> QED BY <1>3, <1>5, <2>1, StepLedger
<1>6. CASE /\ ~differs /\ Goto(w, "getListener", j)
           /\ ~tagsDiffer \/ Fails(w, Exists(j.arn), acc)
  <2>1. NeedsOne(cache[k]) => ~tagsDiffer
    <3>1. Fails(w, Exists(j.arn), acc) => <<QueueOf[w], "changed">> \in FaultSites
      BY <1>1, <1>4 DEF Fails
    <3>2. QueueOf[w] \in Kinds
      BY KindAssumption
    <3> QED BY <1>6, <3>1, <3>2 DEF NeedsOne, BuildAnswered
  <2>2. ~Waiting(k) /\ NeedsOne(cache[k]) =>
          Progress("getListener", j, cache[k], acc'[j.arn])
    BY <1>1, <1>3, <1>6, <2>1 DEF Progress, ListeningSites
  <2> QED BY <1>2, <1>3, <1>6, <2>2, BuildLedger
<1> QED BY <1>4, <1>5, <1>6 DEF AcceleratorChanged

\* UpdateAccelerator: the state and the name are what the version asks for.
LEMMA UpdateAcceleratorLedger ==
  ASSUME IInv, Ledger, NEW w \in Workers, UpdateAccelerator(w),
         NEW k, k = job[w].key, Steps(w, k)
  PROVE  Ledger'
<1> DEFINE j == job[w]
           s == acc[j.arn]
           r == [s EXCEPT !.enabled = TRUE, !.name = j.view.name]
<1>1. pc[w] = "update"
  BY DEF UpdateAccelerator, At
<1>2. pc[w] \in UpdateSites /\ "tagResource" \in UpdateSites
  BY <1>1 DEF UpdateSites
<1>3. /\ ~Waiting(k) => OnPurpose(j, cache[k])
      /\ ~Waiting(k) /\ NeedsOne(cache[k]) => cache[k] = j.view
  BY <1>2, AtBuilding
<1>4. j.arn \in Arns /\ s \in Accelerators
  BY <1>2, AtOwn
<1>5. CASE Finish(w, "err")
  BY <1>5, RetryLedger
<1>6. CASE /\ acc' = [[acc EXCEPT ![j.arn].enabled = TRUE] EXCEPT ![j.arn].name = j.view.name]
           /\ Goto(w, "tagResource", j)
  <2>1. acc'[j.arn] = r
    BY <1>4, <1>6 DEF IInv, TypeOK
  <2>2. r.enabled /\ r.name = j.view.name
    BY <1>4 DEF Accelerators
  <2> HIDE DEF r, s, j
  <2>3. ~Waiting(k) /\ NeedsOne(cache[k]) => Progress("tagResource", j, cache[k], r)
    BY <1>3, <2>2 DEF Progress, TaggedSites, ListeningSites
  <2> QED BY <1>2, <1>3, <1>6, <2>1, <2>3, BuildLedger DEF j
<1> QED BY <1>5, <1>6 DEF UpdateAccelerator, Answers

\* TagResource: the tags name the load balancer of this round of the loop.
LEMMA TagResourceLedger ==
  ASSUME IInv, Ledger, NEW w \in Workers, TagResource(w), NEW k, k = job[w].key, Steps(w, k)
  PROVE  Ledger'
<1> DEFINE j == job[w]
           s == acc[j.arn]
           r == [s EXCEPT !.managed = TRUE, !.owner = j.key, !.host = Host(j)]
<1>1. pc[w] = "tagResource"
  BY DEF TagResource, At
<1>2. pc[w] \in UpdateSites /\ "getListener" \in UpdateSites
  BY <1>1 DEF UpdateSites
<1>3. /\ ~Waiting(k) => OnPurpose(j, cache[k])
      /\ ~Waiting(k) /\ NeedsOne(cache[k]) => Progress(pc[w], j, cache[k], s)
  BY <1>2, AtBuilding
<1>4. j.arn \in Arns /\ s \in Accelerators
  BY <1>2, AtOwn
<1>5. CASE Finish(w, "err")
  BY <1>5, RetryLedger
<1>6. CASE /\ acc' = [acc EXCEPT ![j.arn].managed = TRUE, ![j.arn].owner = j.key,
                                 ![j.arn].host = Host(j)]
           /\ Goto(w, "getListener", j)
  <2>1. acc'[j.arn] = r
    BY <1>4, <1>6 DEF IInv, TypeOK
  <2>2. r.enabled = s.enabled /\ r.name = s.name /\ r.host = Host(j)
    BY <1>4 DEF Accelerators
  <2> HIDE DEF r, s, j
  <2>3. ~Waiting(k) /\ NeedsOne(cache[k]) => Progress("getListener", j, cache[k], r)
    BY <1>1, <1>3, <2>2 DEF Progress, TitledSites, TaggedSites, ListeningSites, UpdateSites
  <2> QED BY <1>2, <1>3, <1>6, <2>1, <2>3, BuildLedger DEF j
<1> QED BY <1>5, <1>6 DEF TagResource, Answers

\* The listener is read: unchanged is one as the version asks for.
LEMMA GetListenerLedger ==
  ASSUME IInv, Ledger, NEW w \in Workers, GetListener(w), NEW k, k = job[w].key, Steps(w, k)
  PROVE  Ledger'
<1> DEFINE j == job[w]
           l == acc[j.arn].listener
           next == IF l = None THEN "newListener"
                   ELSE IF ListenerChanged(l, j.view) THEN "updateListener"
                   ELSE "getEndpointGroup"
<1>1. pc[w] = "getListener" /\ acc' = acc
  BY DEF GetListener, At, Answers, Fails
<1>2. pc[w] \in UpdateSites /\ next \in UpdateSites
  BY <1>1 DEF UpdateSites
<1>3. /\ ~Waiting(k) => OnPurpose(j, cache[k])
      /\ ~Waiting(k) /\ NeedsOne(cache[k]) =>
           cache[k] = j.view /\ Progress(pc[w], j, cache[k], acc[j.arn])
  BY <1>2, AtBuilding
<1>4. CASE Finish(w, "err")
  BY <1>4, RetryLedger
<1>5. CASE Goto(w, next, j)
  <2>1. next = "getEndpointGroup" => l # None /\ ~ListenerChanged(l, j.view)
    OBVIOUS
  <2>2. next \in {"newListener", "updateListener", "getEndpointGroup"}
    OBVIOUS
  <2> HIDE DEF next
  <2>3. ~Waiting(k) /\ NeedsOne(cache[k]) => Progress(next, j, cache[k], acc'[j.arn])
    BY <1>1, <1>3, <2>1, <2>2
       DEF Progress, TitledSites, TaggedSites, ListeningSites, UpdateSites
  <2> QED BY <1>2, <1>3, <1>5, <2>3, BuildLedger
<1> QED BY <1>4, <1>5 DEF GetListener

\* The listener is written as the version asks for.
LEMMA PutListenerLedger ==
  ASSUME IInv, Ledger, NEW w \in Workers, PutListener(w), NEW k, k = job[w].key, Steps(w, k)
  PROVE  Ledger'
<1> DEFINE j == job[w]
           s == acc[j.arn]
           r == [s EXCEPT !.listener = Wanted(j.view)]
<1>1. pc[w] \in {"newListener", "updateListener"}
  BY DEF PutListener, At
<1>2. pc[w] \in UpdateSites /\ "getEndpointGroup" \in UpdateSites
  BY <1>1 DEF UpdateSites
<1>3. /\ ~Waiting(k) => OnPurpose(j, cache[k])
      /\ ~Waiting(k) /\ NeedsOne(cache[k]) =>
           /\ cache[k] = j.view /\ cache[k] \in Versions
           /\ Progress(pc[w], j, cache[k], s)
  BY <1>2, AtBuilding
<1>4. j.arn \in Arns /\ s \in Accelerators
  BY <1>2, AtOwn
<1>5. CASE Finish(w, "err")
  BY <1>5, RetryLedger
<1>6. CASE /\ acc' = [acc EXCEPT ![j.arn].listener = Wanted(j.view)]
           /\ Goto(w, "getEndpointGroup", j)
  <2>1. acc'[j.arn] = r
    BY <1>4, <1>6 DEF IInv, TypeOK
  <2>2. /\ r.enabled = s.enabled /\ r.name = s.name /\ r.host = s.host
        /\ r.listener = Wanted(j.view)
    BY <1>4 DEF Accelerators
  <2> HIDE DEF r, s, j
  <2>3. ~Waiting(k) /\ NeedsOne(cache[k]) => Progress("getEndpointGroup", j, cache[k], r)
    BY <1>1, <1>3, <2>2, WantedStays
       DEF Progress, TitledSites, TaggedSites, ListeningSites, UpdateSites
  <2> QED BY <1>2, <1>3, <1>6, <2>1, <2>3, BuildLedger DEF r, j
<1> QED BY <1>5, <1>6 DEF PutListener, Answers

\* The endpoint group is read: one with the load balancer in it is complete.
LEMMA GetEndpointGroupLedger ==
  ASSUME IInv, Ledger, NEW w \in Workers, GetEndpointGroup(w),
         NEW k, k = job[w].key, Steps(w, k)
  PROVE  Ledger'
<1> DEFINE j == job[w]
           g == acc[j.arn].group
<1>1. pc[w] = "getEndpointGroup" /\ acc' = acc
  BY DEF GetEndpointGroup, At, Answers, Fails
<1>2. /\ pc[w] \in UpdateSites
      /\ {"newEndpointGroup", "updateEndpointGroup"} \subseteq UpdateSites
  BY <1>1 DEF UpdateSites
<1>3. /\ ~Waiting(k) => OnPurpose(j, cache[k])
      /\ ~Waiting(k) /\ NeedsOne(cache[k]) =>
           /\ Host(j) = cache[k].lbs[j.i]
           /\ Progress(pc[w], j, cache[k], acc[j.arn])
  BY <1>2, AtBuilding
<1>4. CASE Finish(w, "err")
  BY <1>4, RetryLedger
<1>5. ASSUME NEW site \in {"newEndpointGroup", "updateEndpointGroup"}, Goto(w, site, j)
      PROVE  Ledger'
  <2>1. ~Waiting(k) /\ NeedsOne(cache[k]) => Progress(site, j, cache[k], acc'[j.arn])
    BY <1>1, <1>3, <1>5
       DEF Progress, TitledSites, TaggedSites, ListeningSites, UpdateSites
  <2> QED BY <1>2, <1>3, <1>5, <2>1, BuildLedger
<1>6. CASE Host(j) \in g /\ Updated(w, j)
  <2>1. ~Waiting(k) /\ NeedsOne(cache[k]) => Provides(acc'[j.arn], cache[k], j.i)
    BY <1>1, <1>3, <1>6
       DEF Progress, TitledSites, TaggedSites, ListeningSites, UpdateSites, Provides
  <2>2. \A h \in Keys : Owned(h)' = Owned(h)
    BY <1>1, OwnedSame
  <2> QED BY <1>2, <1>6, <2>1, <2>2, DoneLedger
<1> QED BY <1>4, <1>5, <1>6 DEF GetEndpointGroup

\* The endpoint group is written, with the load balancer in it.
LEMMA PutEndpointGroupLedger ==
  ASSUME IInv, Ledger, NEW w \in Workers, PutEndpointGroup(w),
         NEW k, k = job[w].key, Steps(w, k)
  PROVE  Ledger'
<1> DEFINE j == job[w]
           s == acc[j.arn]
           r == [s EXCEPT !.group = {Host(j)}]
<1>1. /\ pc[w] \in {"newEndpointGroup", "updateEndpointGroup"}
      /\ UNCHANGED <<cluster, active, syncing>>
  BY DEF PutEndpointGroup, At
<1>2. pc[w] \in UpdateSites
  BY <1>1 DEF UpdateSites
<1>3. ~Waiting(k) /\ NeedsOne(cache[k]) =>
           /\ Host(j) = cache[k].lbs[j.i]
           /\ Progress(pc[w], j, cache[k], s)
  BY <1>2, AtBuilding
<1>4. j.arn \in Arns /\ s \in Accelerators
  BY <1>2, AtOwn
<1>5. CASE Finish(w, "err")
  BY <1>5, RetryLedger
<1>6. CASE acc' = [acc EXCEPT ![j.arn].group = {Host(j)}] /\ Updated(w, j)
  <2>1. acc'[j.arn] = r
    BY <1>4, <1>6 DEF IInv, TypeOK
  <2>2. /\ r.enabled = s.enabled /\ r.name = s.name /\ r.host = s.host
        /\ r.listener = s.listener /\ r.group = {Host(j)}
    BY <1>4 DEF Accelerators
  <2>3. \A h \in Keys : Owned(h)' = Owned(h)
    BY <1>1, <1>2, RecordKept, WriteCall DEF PutEndpointGroup, IInv, TypeOK
  <2> HIDE DEF r, s, j
  <2>4. ~Waiting(k) /\ NeedsOne(cache[k]) => Provides(r, cache[k], j.i)
    BY <1>1, <1>3, <2>2
       DEF Progress, TitledSites, TaggedSites, ListeningSites, UpdateSites, Provides
  <2> QED BY <1>2, <1>6, <2>1, <2>3, <2>4, DoneLedger DEF j
<1> QED BY <1>5, <1>6 DEF PutEndpointGroup, Answers

-----------------------------------------------------------------------------
(* The ledger: the calls that clean up *)

\* The cleanup goes on, or fails and puts the key back.
LEMMA CleanupLedger ==
  ASSUME IInv, Ledger, NEW w \in Workers, pc[w] \in CleanupSites, NEW k, k = job[w].key,
         Steps(w, k),
         \/ \E site \in CleanupSites : Goto(w, site, job[w])
         \/ Cleaned(w, job[w], FALSE)
  PROVE  Ledger'
<1>1. pc[w] \notin {"idle", "read"}
  BY DEF CleanupSites
<1>2. ~Waiting(k) => OnPurpose(job[w], cache[k])
  BY <1>1, AtLedger
<1>3. \A site \in CleanupSites : site \notin TitledSites \union {"idle"}
  BY DEF CleanupSites, TitledSites, UpdateSites
<1>4. job[w] \in Jobs
  BY AtOwn
<1> QED BY <1>2, <1>3, <1>4, StepLedger, CleanedLedger

\* The accelerator is looked up: an error reads as "nothing to clean up", which
\* CleanupAnswered rules out.
LEMMA DescribeAcceleratorLedger ==
  ASSUME IInv, Ledger, NEW w \in Workers, DescribeAccelerator(w),
         NEW k, k = job[w].key, Steps(w, k)
  PROVE  Ledger'
<1>1. pc[w] = "describe"
  BY DEF DescribeAccelerator, At
<1>2. pc[w] \in CleanupSites /\ "relatedListener" \in CleanupSites
  BY <1>1 DEF CleanupSites
<1>3. CASE Goto(w, "relatedListener", job[w])
  BY <1>2, <1>3, CleanupLedger
<1>4. CASE Fails(w, Exists(job[w].arn), acc) /\ Cleaned(w, job[w], TRUE)
  <2>1. Exists(job[w].arn) /\ job[w] \in Jobs
    BY <1>2, AtOwn
  <2>2. <<QueueOf[w], "describe">> \in FaultSites /\ QueueOf[w] \in Kinds
    BY <1>1, <1>4, <2>1, KindAssumption DEF Fails
  <2>3. ~NeedsNone(cache[k])
    BY <2>2 DEF NeedsNone, CleanupAnswered
  <2>4. ~Waiting(k) => OnPurpose(job[w], cache[k])
    BY <1>1, AtLedger
  <2> QED BY <1>4, <2>1, <2>3, <2>4, CleanedLedger
<1> QED BY <1>3, <1>4 DEF DescribeAccelerator

\* After the deletion the object has no accelerator: it had no other.
LEMMA DeleteAcceleratorLedger ==
  ASSUME IInv, Ledger, NEW w \in Workers, DeleteAccelerator(w),
         NEW k, k = job[w].key, Steps(w, k)
  PROVE  Ledger'
<1> DEFINE a == job[w].arn
<1>1. pc[w] = "delete"
  BY DEF DeleteAccelerator, At
<1>2. pc[w] \in CleanupSites
  BY <1>1 DEF CleanupSites
<1>3. CASE Cleaned(w, job[w], FALSE)
  BY <1>2, <1>3, CleanupLedger
<1>4. CASE acc' = [acc EXCEPT ![a] = NoAcc] /\ Cleaned(w, job[w], TRUE)
  <2>1. job[w] \in Jobs /\ k \in Keys /\ a \in Owned(k) /\ a \in Arns
    BY <1>2, AtOwn
  <2>2. \A b \in Owned(k) : b = a
    BY <2>1 DEF IInv, AtMostOneAccelerator
  <2>3. acc'[a] = NoAcc /\ \A b \in Arns \ {a} : acc'[b] = acc[b]
    BY <1>4, <2>1 DEF IInv, TypeOK
  <2>4. Owned(k)' = {}
    BY <2>2, <2>3 DEF Owned, Exists, TagsMatch
  <2>5. ~Waiting(k) => OnPurpose(job[w], cache[k])
    BY <1>1, AtLedger
  <2> QED BY <1>4, <2>1, <2>4, <2>5, CleanedLedger
<1> QED BY <1>3, <1>4 DEF DeleteAccelerator, Answers

\* Every call of CleanupGlobalAccelerator.
LEMMA CleansUpLedger ==
  ASSUME IInv, Ledger, NEW w \in Workers, CleansUp(w), NEW k, k = job[w].key, Steps(w, k)
  PROVE  Ledger'
<1> DEFINE follows(site) == Goto(w, site, job[w])
<1>1. CASE RelatedListener(w)
  <2>1. pc[w] = "relatedListener" /\ (follows("relatedEndpointGroup") \/ follows("disable"))
    BY <1>1 DEF RelatedListener, At
  <2> QED BY <2>1, CleanupLedger DEF CleanupSites
<1>2. CASE RelatedEndpointGroup(w)
  <2>1. /\ pc[w] = "relatedEndpointGroup"
        /\ follows("deleteEndpointGroup") \/ follows("deleteListener")
    BY <1>2 DEF RelatedEndpointGroup, At
  <2> QED BY <2>1, CleanupLedger DEF CleanupSites
<1>3. CASE DeleteEndpointGroup(w)
  <2>1. /\ pc[w] = "deleteEndpointGroup"
        /\ follows("deleteListener") \/ Cleaned(w, job[w], FALSE)
    BY <1>3 DEF DeleteEndpointGroup, At
  <2> QED BY <2>1, CleanupLedger DEF CleanupSites
<1>4. CASE DeleteListener(w)
  <2>1. pc[w] = "deleteListener" /\ (follows("disable") \/ Cleaned(w, job[w], FALSE))
    BY <1>4 DEF DeleteListener, At
  <2> QED BY <2>1, CleanupLedger DEF CleanupSites
<1>5. CASE DisableAccelerator(w)
  <2>1. pc[w] = "disable" /\ (follows("poll") \/ Cleaned(w, job[w], FALSE))
    BY <1>5 DEF DisableAccelerator, At
  <2> QED BY <2>1, CleanupLedger DEF CleanupSites
<1>6. CASE PollAccelerator(w)
  <2>1. pc[w] = "poll" /\ (follows("delete") \/ Cleaned(w, job[w], FALSE))
    BY <1>6 DEF PollAccelerator, At
  <2> QED BY <2>1, CleanupLedger DEF CleanupSites
<1> QED BY <1>1, <1>2, <1>3, <1>4, <1>5, <1>6, DescribeAcceleratorLedger,
        DeleteAcceleratorLedger DEF CleansUp

\* Every call of EnsureGlobalAccelerator....
LEMMA EnsuresLedger ==
  ASSUME IInv, Ledger, NEW w \in Workers, Ensures(w), NEW k, k = job[w].key, Steps(w, k)
  PROVE  Ledger'
BY DescribeLoadBalancerLedger, ListAcceleratorsLedger, ListTagsLedger,
   CreateAcceleratorLedger, CreateListenerLedger, CreateEndpointGroupLedger,
   AcceleratorChangedLedger, UpdateAcceleratorLedger, TagResourceLedger,
   GetListenerLedger, PutListenerLedger, GetEndpointGroupLedger, PutEndpointGroupLedger
   DEF Ensures

-----------------------------------------------------------------------------
(* The theorems *)

\* At the start nobody has anything and nobody wants anything.
LEMMA InitRestInv == Init => RestInv
<1> SUFFICES ASSUME Init  PROVE RestInv
  OBVIOUS
<1>1. \A k \in Keys : Owned(k) = {} /\ DOMAIN Holdings(k) = {}
  BY FirstAccsAssumption DEF Init, Owned, Exists, TagsMatch, Holdings
<1>2. Ledger
  BY <1>1 DEF Init, Ledger, Holds, Settled, NeedsOne
<1>3. Told
  BY DEF Init, Told
<1>4. \A k \in Keys : DOMAIN watch[k] = {}
  BY DEF Init
<1>5. AllEdited
  BY <1>4 DEF Init, AllEdited, Edited
<1> QED BY <1>2, <1>3, <1>5 DEF RestInv

\* Every step keeps the accounts.
LEMMA NextRestInv == IInv /\ AllLayered /\ RestInv /\ [Next]_vars => RestInv'
<1> SUFFICES ASSUME IInv, AllLayered, RestInv, [Next]_vars  PROVE RestInv'
  OBVIOUS
<1>1. IInv' /\ Ledger /\ AllEdited /\ Told' /\ AllEdited'
  BY NextIInv, ToldKept DEF RestInv
<1>2. CASE \E k \in Keys, v \in Versions \union {NoObj} : Change(k, v)
  BY <1>1, <1>2, AsideLedger DEF RestInv, Change, aws
<1>3. CASE \E k \in Keys : Deliver(k)
  BY <1>1, <1>3, DeliverLedger DEF RestInv
<1>4. CASE (\E l \in LBs : LBActivate(l)) \/ (\E a \in Arns : AwsDeploys(a)) \/ UNCHANGED vars
  BY <1>1, <1>4, AsideLedger DEF RestInv, LBActivate, AwsDeploys, cluster, vars
<1>5. CASE \E w \in Workers, k \in Keys : Take(w, k)
  BY <1>1, <1>5, TakeLedger DEF RestInv
<1>6. ASSUME NEW w \in Workers, Work(w)
      PROVE  Ledger'
  <2>1. \A k : k = job[w].key => Steps(w, k)
    BY <1>1, <1>6, WorkSteps
  <2> QED BY <1>1, <1>6, <2>1, ReadObjectLedger, EnsuresLedger, CleansUpLedger DEF Work
<1>7. CASE Crash
  BY <1>1, <1>7, CrashLedger DEF RestInv
<1> QED BY <1>1, <1>2, <1>3, <1>4, <1>5, <1>6, <1>7 DEF Next, RestInv

\* The accounts hold in every reachable state: an object that no worker has and
\* that does not wait has what it needs.
THEOREM AccountsKept == Spec => []RestInv
<1>1. Init => AllLayered /\ RestInv
  BY InitStages, InitRestInv
<1>2. IInv /\ AllLayered /\ RestInv /\ [Next]_vars => AllLayered' /\ RestInv'
  BY NextStages, NextRestInv
<1> QED BY <1>1, <1>2, Inductive, PTL DEF Spec

\* An object that waits nowhere, that no worker has and that the informer has
\* told all about is settled.
LEMMA AtRest ==
  ASSUME IInv, RestInv, NEW k \in Keys,
         k \notin queue[KindOf[k]].pending, k \notin queue[KindOf[k]].processing,
         watch[k] = <<>>
  PROVE  Settled(obj[k], Holdings(k)) /\ Edited(obj[k])
<1>1. ASSUME NEW w \in Workers, Holds(w, k)
      PROVE  FALSE
  BY <1>1 DEF IInv, NoStaleFinding, OneWorkerPerKey, Holds
<1>2. Settled(cache[k], Holdings(k))
  BY <1>1 DEF RestInv, Ledger, Waiting
<1>3. obj[k] = cache[k]
  BY DEF RestInv, Told
<1> QED BY <1>2, <1>3 DEF RestInv, AllEdited

\* So an object that asks for an accelerator has one,
LEMMA RestingSynced ==
  ASSUME BuildAnswered
  PROVE  IInv /\ RestInv => QuiescentSynced
<1> SUFFICES ASSUME IInv, RestInv, Quiet, NEW k \in Keys,
                    obj[k] # NoObj, obj[k].eligible, obj[k].managed, ElbHosts(obj[k]) # {}
             PROVE  \E a \in Owned(k) : Serves(acc[a], obj[k])
  BY DEF QuiescentSynced
<1>1. Settled(obj[k], Holdings(k))
  BY AtRest, KindAssumption DEF Quiet, Drained
<1>2. \E a \in DOMAIN Holdings(k) : Serves(Holdings(k)[a], obj[k])
  BY <1>1, BuildAnswered DEF Settled, NeedsOne
<1> QED BY <1>2 DEF Holdings

\* and one that is gone or unmanaged has none.
LEMMA RestingClean ==
  ASSUME CleanupAnswered, CleanupReached, MaxCrashes = 0
  PROVE  IInv /\ RestInv => QuiescentClean
<1> SUFFICES ASSUME IInv, RestInv, Quiet, NEW k \in Keys, obj[k] = NoObj \/ ~obj[k].managed
             PROVE  Owned(k) = {}
  BY DEF QuiescentClean
<1>1. Settled(obj[k], Holdings(k))
  BY AtRest, KindAssumption DEF Quiet, Drained
<1>2. DOMAIN Holdings(k) = {}
  BY <1>1, CleanupAnswered, CleanupReached DEF Settled, NeedsNone
<1> QED BY <1>2 DEF Holdings

\* At rest every object that asks for an accelerator has one, complete and up to
\* date, whatever failed, raced or restarted on the way; the two calls whose
\* errors the code takes for answers are the exceptions (global_accelerator.go:421
\* and :242).
THEOREM SyncedAtRest ==
  ASSUME BuildAnswered
  PROVE  Spec => []QuiescentSynced
BY RestingSynced, BuildAnswered, Inductive, AccountsKept, PTL

\* At rest an object that is gone or unmanaged has no accelerator left: with
\* users as CleanupReached says, in a process that is not restarted.
THEOREM CleanAtRest ==
  ASSUME CleanupAnswered, CleanupReached, MaxCrashes = 0
  PROVE  Spec => []QuiescentClean
BY RestingClean, CleanupAnswered, CleanupReached, Inductive, AccountsKept, PTL

\* An object whose status names a load balancer names at least one of AWS's: the
\* process functions skip every other hostname.
HostsReached ==
  \A e \in Edits : e[2] # NoObj => e[2].lbs = <<>> \/ ElbHosts(e[2]) # {}

\* An accelerator that is half built or half torn down, while everything else may
\* be in motion, is one that somebody will come back to: its key is queued, in
\* work or about to be reported, or its object has no load balancer yet.
THEOREM NothingAbandoned ==
  ASSUME BuildAnswered, CleanupAnswered, CleanupReached, HostsReached, MaxCrashes = 0
  PROVE  Spec => []AbandonsNothing
<1>1. IInv /\ RestInv => AbandonsNothing
  <2> SUFFICES ASSUME IInv, RestInv, NEW k \in Keys, NEW a \in Owned(k),
                      acc[a].listener = None \/ acc[a].group = {} \/ ~acc[a].enabled,
                      k \notin queue[KindOf[k]].pending,
                      k \notin queue[KindOf[k]].processing,
                      watch[k] = <<>>,
                      obj[k] = NoObj \/ obj[k].lbs # <<>>
               PROVE  FALSE
    BY DEF AbandonsNothing
  <2>1. Settled(obj[k], Holdings(k)) /\ Edited(obj[k]) /\ DOMAIN Holdings(k) = Owned(k)
    BY AtRest DEF Holdings
  <2>2. ~NeedsNone(obj[k])
    BY <2>1 DEF Settled
  <2>3. obj[k] # NoObj /\ obj[k].managed
    BY <2>2, CleanupAnswered, CleanupReached DEF NeedsNone
  <2>4. obj[k].eligible /\ ElbHosts(obj[k]) # {}
    BY <2>1, <2>3, CleanupReached, HostsReached DEF Edited, CleanupReached, HostsReached
  <2>5. NeedsOne(obj[k])
    BY <2>3, <2>4, BuildAnswered DEF NeedsOne
  <2>6. PICK b \in Owned(k) : Serves(acc[b], obj[k])
    BY <2>1, <2>5 DEF Settled, Holdings
  <2>7. a = b
    BY DEF IInv, AtMostOneAccelerator
  <2> QED BY <2>6, <2>7 DEF Serves
<1> QED BY <1>1, Inductive, AccountsKept, PTL
=============================================================================
