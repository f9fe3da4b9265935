------------------------ MODULE Route53AtRestProofs ------------------------
(***************************************************************************)
(* Proofs about Route53 at rest: when no key waits and the informer has    *)
(* told everything, every object has the records it asks for, and one that *)
(* is gone or without the annotation has none.                             *)
(*                                                                         *)
(* Both follow from a ledger kept for every object whose key does not wait *)
(* in the queue: either a worker is on it with the version the cache holds *)
(* and what that version still needs is still before the worker, or        *)
(* nothing is left to do.                                                  *)
(***************************************************************************)
EXTENDS Route53Proofs

NameSites == {"findZone", "listRecords", "createTxt", "createA", "upsertA"}

\* The services are of the type and class the handlers look at: those of
\* another are not enqueued.  The handlers of the ingresses enqueue them all.
ServicesEligible ==
  \A k \in Keys : KindOf[k] = "service" => \A v \in Versions : v.eligible

Waiting(k) == k \in queue[KindOf[k]].pending

Holds(w, k) == pc[w] # "idle" /\ job[w].key = k

\* The versions whose records QuiescentRecords asks for.
Wanted(c) == c # NoObj /\ c.eligible /\ c.dns # None /\ HasBalancer(c)

\* Those that are to have none.  A process that starts anew is not told of them.
Unwanted(c) ==
  ServicesEligible /\ spent.crashes = 0 /\ (c = NoObj \/ c.dns = None)

\* Hostname h has both its records among those of an object.
Complete(h, mine) == \E a \in Arns : <<h, a>> \in mine

NamesLeft(j) == {j.names[n] : n \in DOMAIN j.names}

\* A worker with job j at a call of ensureRoute53 is on version c: the hostnames
\* it is past are complete.
Ensured(site, j, c, mine) ==
  /\ site \in EnsureSites /\ j.view = c
  /\ site \in NameSites =>
       \A n \in DOMAIN c.dns : Complete(c.dns[n], mine) \/ c.dns[n] \in NamesLeft(j)

\* One in CleanupRecordSet: the zones it is past have no record of the object.
CleanedUp(site, j, mine) ==
  /\ site \in CleanupSites
  /\ site # "listZones" => \A r \in mine : ZoneOf[r[1]] \in j.zones \union {j.zone}
  /\ site = "deleteTxt" =>
       \A r \in mine : ZoneOf[r[1]] = j.zone => \E t \in j.todo : t[1] = r[1]

\* What the worker of an object is doing if the cache has version c of it.
OnIt(site, j, c, mine) ==
  site # "read" => /\ Wanted(c) => Ensured(site, j, c, mine)
                   /\ Unwanted(c) => CleanedUp(site, j, mine)

\* Version c needs nothing.
Settled(c, mine) ==
  /\ Wanted(c) => \A n \in DOMAIN c.dns : Complete(c.dns[n], mine)
  /\ Unwanted(c) => mine = {}

Ledger == \A k \in Keys : ~Waiting(k) =>
  /\ \A w \in Workers : Holds(w, k) => OnIt(pc[w], job[w], cache[k], RecordsOf(k))
  /\ (\A w \in Workers : ~Holds(w, k)) => Settled(cache[k], RecordsOf(k))

\* The last version on its way to the informer is the one in the API server.
Told == \A k \in Keys :
  obj[k] = IF watch[k] = <<>> THEN cache[k] ELSE watch[k][Len(watch[k])]

\* TXT records that name an object are in a hosted zone: the cleanup, which goes
\* by zones, finds them.
Placed ==
  /\ \A h \in Hostnames : dns[h].txt \in Keys => ZoneOf[h] # None
  /\ \A w \in Workers : pc[w] \in {"listRecords", "createTxt"} =>
       ZoneOf[Head(job[w].names)] # None

\* The inductive invariant, beside RInv.
RestInv == Ledger /\ Told /\ Placed

-----------------------------------------------------------------------------
(* The informer *)

\* An edit is told to the informer too.
LEMMA ToldElsewhere ==
  ASSUME RInv, Told, Elsewhere
  PROVE  Told'
<1>1. CASE UNCHANGED <<obj, watch>>
  BY <1>1 DEF Told, Elsewhere
<1>2. ASSUME NEW k \in Keys, NEW v \in Versions \union {NoObj}, Edit(k, v)
      PROVE  Told'
  <2> DEFINE s == Append(watch[k], v)
  <2>1. /\ obj' = [obj EXCEPT ![k] = v] /\ watch' = [watch EXCEPT ![k] = s] /\ cache' = cache
        /\ obj \in [Keys -> Versions \union {NoObj}] /\ watch \in [Keys -> Seq(Versions \union {NoObj})]
    BY <1>2 DEF Edit, Elsewhere, RInv, OwnTypeOK
  <2>2. Len(watch[k]) \in Nat /\ Len(s) = Len(watch[k]) + 1 /\ s[Len(watch[k]) + 1] = v
    <3>1. watch[k] \in Seq(Versions \union {NoObj})
      BY <2>1
    <3> QED BY <3>1
  <2> HIDE DEF s
  <2>3. s # <<>>
    BY <2>2
  <2>4. s[Len(s)] = v
    BY <2>2
  <2> QED BY <2>1, <2>3, <2>4 DEF Told
<1> QED BY <1>1, <1>2 DEF Elsewhere

\* Told after every step.
LEMMA ToldKept ==
  ASSUME RInv, Told, [Next]_vars
  PROVE  Told'
<1> DEFINE S == Seq(Versions \union {NoObj})
<1>1. /\ obj \in [Keys -> Versions \union {NoObj}] /\ cache \in [Keys -> Versions \union {NoObj}]
      /\ watch \in [Keys -> S]
  BY DEF RInv, OwnTypeOK
<1>2. CASE Elsewhere
  BY <1>2, ToldElsewhere
<1>3. ASSUME NEW k \in Keys, Deliver(k)
      PROVE  Told'
  <2> DEFINE s == watch[k]
  <2>1. PICK n \in {1, Len(s)} :
          /\ cache' = [cache EXCEPT ![k] = s[n]]
          /\ watch' = [watch EXCEPT ![k] = SubSeq(s, n + 1, Len(s))]
    BY <1>3 DEF Deliver
  <2>2. s # <<>> /\ obj' = obj /\ s \in S
    BY <1>1, <1>3 DEF Deliver
  <2>3. Len(s) \in Nat /\ Len(s) > 0 /\ n \in 1 .. Len(s)
    BY <2>2
  <2> DEFINE r == SubSeq(s, n + 1, Len(s))
  <2>4. n = Len(s) => r = <<>>
    BY <2>2, <2>3
  <2>5. n < Len(s) => r # <<>> /\ r[Len(r)] = s[Len(s)]
    <3> HIDE DEF s
    <3>1. /\ n + 1 <= Len(s) => Len(r) = Len(s) - n
          /\ \A i \in 1 .. Len(s) - n : r[i] = s[n + i]
      BY <2>2, <2>3
    <3> HIDE DEF r
    <3>2. n < Len(s) => Len(r) = Len(s) - n /\ Len(r) \in 1 .. Len(s) - n /\ n + Len(r) = Len(s)
      BY <2>3, <3>1
    <3>3. n < Len(s) => r # <<>>
      BY <2>3, <3>2
    <3> QED BY <3>1, <3>2, <3>3
  <2>6. obj[k] = s[Len(s)]
    BY <2>2 DEF Told
  <2>7. obj'[k] = IF watch'[k] = <<>> THEN cache'[k] ELSE watch'[k][Len(watch'[k])]
    <3>1. cache'[k] = s[n] /\ watch'[k] = r
      BY <1>1, <2>1
    <3> HIDE DEF r, s
    <3> QED BY <2>2, <2>3, <2>4, <2>5, <2>6, <3>1
  <2>8. \A h \in Keys \ {k} : cache'[h] = cache[h] /\ watch'[h] = watch[h] /\ obj'[h] = obj[h]
    BY <1>1, <2>1, <2>2
  <2> QED BY <2>7, <2>8 DEF Told
<1>4. CASE Crash
  BY <1>4 DEF Crash, Told
<1>5. CASE UNCHANGED <<obj, watch, cache>>
  BY <1>5 DEF Told
<1>6. ASSUME NEW w \in Workers, Work(w)
      PROVE  UNCHANGED <<obj, watch, cache>>
  BY <1>6 DEF Work, Ensures, CleansUp, Read, ListAccelerators, ListTags, FindZone, ListRecords,
     CreateTxt, CreateA, UpsertA, ListZones, FindOwnedA, DeleteA, FindOwnedTxt, DeleteTxt,
     At, outside
<1> QED BY <1>2, <1>3, <1>4, <1>5, <1>6, ChangeElsewhere DEF Next, vars, Take, At, outside

-----------------------------------------------------------------------------
(* The ledger: a worker goes on, or lets go *)

\* Worker w, which has key k, takes a step.
Steps(w, k) ==
  /\ RInv /\ RInv' /\ Ledger /\ Call(w)
  /\ k \in Keys /\ job[w].key = k /\ spent'.crashes = spent.crashes


\* A step of worker w leaves the accounts of the other objects alone.
LEMMA OthersSettled ==
  ASSUME NEW w, NEW k, Steps(w, k), NEW h \in Keys, h # k,
         \A v \in Workers \ {w} : pc'[v] = pc[v] /\ job'[v] = job[v],
         pc'[w] = "idle" \/ job'[w].key = k,
         Waiting(h)' <=> Waiting(h), ~Waiting(h)
  PROVE  /\ \A v \in Workers : Holds(v, h)' => OnIt(pc[v], job[v], cache[h], RecordsOf(h))'
         /\ (\A v \in Workers : ~Holds(v, h)') => Settled(cache[h], RecordsOf(h))'
<1>1. RecordsOf(h)' = RecordsOf(h) /\ cache'[h] = cache[h]
  BY DEF Steps, Call
<1>2. /\ \A v \in Workers : Holds(v, h) => OnIt(pc[v], job[v], cache[h], RecordsOf(h))
      /\ (\A v \in Workers : ~Holds(v, h)) => Settled(cache[h], RecordsOf(h))
  BY DEF Steps, Ledger
<1>3. ~Holds(w, h) /\ ~Holds(w, h)'
  BY DEF Steps, Holds
<1>4. \A v \in Workers : Holds(v, h)' <=> Holds(v, h)
  BY <1>3 DEF Holds
<1>5. ASSUME NEW v \in Workers, Holds(v, h)'
      PROVE  OnIt(pc[v], job[v], cache[h], RecordsOf(h))'
  <2>1. pc'[v] = pc[v] /\ job'[v] = job[v] /\ OnIt(pc[v], job[v], cache[h], RecordsOf(h))
    BY <1>2, <1>3, <1>4, <1>5
  <2>2. OnIt(pc'[v], job'[v], cache'[h], RecordsOf(h)')
    BY <1>1, <2>1
  <2>3. spent'.crashes = spent.crashes
    BY DEF Steps
  <2> QED BY <2>2, <2>3 DEF OnIt, Unwanted
<1>6. ASSUME \A v \in Workers : ~Holds(v, h)'
      PROVE  Settled(cache[h], RecordsOf(h))'
  <2>1. Settled(cache'[h], RecordsOf(h)')
    BY <1>1, <1>2, <1>4, <1>6
  <2>2. spent'.crashes = spent.crashes
    BY DEF Steps
  <2> QED BY <2>1, <2>2 DEF Settled, Unwanted
<1> QED BY <1>5, <1>6

\* The worker goes on: what it is on now is what its object needs.
LEMMA GotoLedger ==
  ASSUME NEW w, NEW k, Steps(w, k), NEW site, site # "idle", NEW j, j.key = k,
         Goto(w, site, j), ~Waiting(k) => OnIt(site, j, cache[k], RecordsOf(k)')
  PROVE  Ledger'
<1>1. /\ pc' = [pc EXCEPT ![w] = site] /\ job' = [job EXCEPT ![w] = j]
      /\ queue' = queue /\ cache' = cache /\ w \in Workers
  BY DEF Goto, Steps, Call
<1>2. /\ pc'[w] = site /\ job'[w] = j
      /\ \A v \in Workers \ {w} : pc'[v] = pc[v] /\ job'[v] = job[v]
  BY <1>1 DEF Steps, RInv, OwnTypeOK
<1>3. \A h : Waiting(h)' <=> Waiting(h)
  BY <1>1 DEF Waiting
<1>4. ASSUME NEW h \in Keys, ~Waiting(h)', h # k
      PROVE  /\ \A v \in Workers : Holds(v, h)' => OnIt(pc[v], job[v], cache[h], RecordsOf(h))'
             /\ (\A v \in Workers : ~Holds(v, h)') => Settled(cache[h], RecordsOf(h))'
  BY <1>2, <1>3, <1>4, OthersSettled
<1>5. ASSUME NEW v \in Workers, Holds(v, k)'
      PROVE  v = w
  BY <1>1, <1>2, <1>5 DEF Steps, RInv, NoStaleFinding, OneWorkerPerKey, Holds
<1>6. Holds(w, k)'
  BY <1>2 DEF Holds
<1>7. ASSUME ~Waiting(k)'
      PROVE  OnIt(pc[w], job[w], cache[k], RecordsOf(k))'
  <2>1. OnIt(site, j, cache[k], RecordsOf(k)')
    BY <1>3, <1>7
  <2>2. OnIt(pc'[w], job'[w], cache'[k], RecordsOf(k)')
    BY <1>1, <1>2, <2>1
  <2>3. spent'.crashes = spent.crashes
    BY DEF Steps
  <2> QED BY <2>2, <2>3 DEF OnIt, Unwanted
<1> QED BY <1>1, <1>4, <1>5, <1>6, <1>7 DEF Ledger

\* The worker lets go of the key: either it waits again or nothing is left to do.
LEMMA FinishLedger ==
  ASSUME NEW w, NEW k, Steps(w, k), NEW res, Finish(w, res),
         ~Requeues(res) /\ ~Waiting(k) => Settled(cache[k], RecordsOf(k)')
  PROVE  Ledger'
<1> DEFINE q == queue[QueueOf[w]]
<1>1. /\ pc' = [pc EXCEPT ![w] = "idle"] /\ job' = [job EXCEPT ![w] = NoJob]
      /\ queue' = [queue EXCEPT ![QueueOf[w]] = Finished(q, k, res)]
      /\ cache' = cache /\ w \in Workers
  BY DEF Finish, Steps, Call
<1>2. /\ pc'[w] = "idle"
      /\ \A v \in Workers \ {w} : pc'[v] = pc[v] /\ job'[v] = job[v]
  BY <1>1 DEF Steps, RInv, OwnTypeOK
<1>3. /\ QueueOf[w] \in Kinds /\ q \in QueueOver(Keys) /\ pc[w] # "idle"
      /\ KindOf[k] = QueueOf[w]
  BY <1>1, KindAssumption DEF Steps, Call, RInv, OwnTypeOK, NoStaleFinding, OneWorkerPerKey
<1>4. Finished(q, k, res).pending = IF Requeues(res) THEN q.pending \union {k} ELSE q.pending
  BY <1>3 DEF Finished, Done, Add, QueueOver
<1>5. /\ \A h \in Keys \ {k} : Waiting(h)' <=> Waiting(h)
      /\ Waiting(k)' <=> Waiting(k) \/ Requeues(res)
  <2> HIDE DEF q
  <2>1. q = queue[QueueOf[w]] /\ queue \in [Kinds -> QueueOver(Keys)]
    BY DEF q, Steps, RInv, OwnTypeOK
  <2>2. /\ queue'[QueueOf[w]].pending = IF Requeues(res) THEN q.pending \union {k} ELSE q.pending
        /\ \A kind \in Kinds \ {QueueOf[w]} : queue'[kind] = queue[kind]
    BY <1>1, <1>3, <1>4, <2>1
  <2>3. \A h \in Keys : KindOf[h] \in Kinds
    BY KindAssumption
  <2> QED BY <1>3, <2>1, <2>2, <2>3 DEF Waiting, Steps
<1>6. ASSUME NEW h \in Keys, ~Waiting(h)', h # k
      PROVE  /\ \A v \in Workers : Holds(v, h)' => OnIt(pc[v], job[v], cache[h], RecordsOf(h))'
             /\ (\A v \in Workers : ~Holds(v, h)') => Settled(cache[h], RecordsOf(h))'
  BY <1>2, <1>5, <1>6, OthersSettled
<1>7. ASSUME NEW v \in Workers, Holds(v, k)'
      PROVE  FALSE
  <2>1. v # w /\ Holds(v, k) /\ Holds(w, k)
    BY <1>2, <1>3, <1>7 DEF Holds, Steps
  <2> QED BY <1>1, <2>1 DEF Steps, RInv, NoStaleFinding, OneWorkerPerKey, Holds
<1>8. ASSUME ~Waiting(k)'
      PROVE  Settled(cache[k], RecordsOf(k))'
  <2>1. Settled(cache'[k], RecordsOf(k)')
    BY <1>1, <1>5, <1>8
  <2>2. spent'.crashes = spent.crashes
    BY DEF Steps
  <2> QED BY <2>1, <2>2 DEF Settled, Unwanted
<1> QED BY <1>6, <1>7, <1>8 DEF Ledger

\* A worker that gets a key is to read its object.
LEMMA TakeLedger ==
  ASSUME RInv, RInv', Ledger, NEW w \in Workers, NEW k \in Keys, Take(w, k)
  PROVE  Ledger'
<1> DEFINE q == queue[QueueOf[w]]
<1>1. /\ pc[w] = "idle" /\ pc' = [pc EXCEPT ![w] = "read"] /\ KindOf[k] = QueueOf[w]
      /\ queue' = [queue EXCEPT ![QueueOf[w]] = Get(q, k)]
      /\ UNCHANGED <<cache, dns, spent>>
  BY DEF Take, At, outside
<1>2. pc'[w] = "read" /\ job'[w].key = k
  BY <1>1 DEF Take, RInv, OwnTypeOK
<1>3. \A v \in Workers \ {w} : pc'[v] = pc[v] /\ job'[v] = job[v]
  BY <1>1 DEF Take, RInv, OwnTypeOK
<1>4. /\ QueueOf[w] \in Kinds /\ queue \in [Kinds -> QueueOver(Keys)]
      /\ \A h \in Keys : KindOf[h] \in Kinds
  BY KindAssumption DEF RInv, OwnTypeOK
<1>5. /\ queue'[QueueOf[w]].pending = q.pending \ {k}
      /\ \A kind \in Kinds \ {QueueOf[w]} : queue'[kind] = queue[kind]
  BY <1>1, <1>4 DEF Get
<1>6. \A h \in Keys \ {k} : Waiting(h)' <=> Waiting(h)
  BY <1>4, <1>5 DEF Waiting
<1>7. \A h : RecordsOf(h)' = RecordsOf(h)
  BY <1>1 DEF RecordsOf
<1>8. ASSUME NEW h \in Keys, ~Waiting(h)'
      PROVE  /\ \A v \in Workers : Holds(v, h)' => OnIt(pc[v], job[v], cache[h], RecordsOf(h))'
             /\ (\A v \in Workers : ~Holds(v, h)') => Settled(cache[h], RecordsOf(h))'
  <2>1. CASE h = k
    <3>1. Holds(w, k)'
      BY <1>2 DEF Holds
    <3>2. ASSUME NEW v \in Workers, Holds(v, k)'
          PROVE  OnIt(pc[v], job[v], cache[k], RecordsOf(k))'
      <4>1. v = w
        BY <3>1, <3>2 DEF RInv, NoStaleFinding, OneWorkerPerKey, Holds
      <4> QED BY <1>2, <4>1 DEF OnIt
    <3> QED BY <2>1, <3>1, <3>2
  <2>2. CASE h # k
    <3>1. /\ \A v \in Workers : Holds(v, h) => OnIt(pc[v], job[v], cache[h], RecordsOf(h))
          /\ (\A v \in Workers : ~Holds(v, h)) => Settled(cache[h], RecordsOf(h))
      BY <1>6, <1>8, <2>2 DEF Ledger
    <3>2. ~Holds(w, h) /\ ~Holds(w, h)'
      BY <1>1, <1>2, <2>2 DEF Holds
    <3>3. \A v \in Workers : Holds(v, h)' <=> Holds(v, h)
      BY <1>3, <3>2 DEF Holds
    <3>4. ASSUME NEW v \in Workers, Holds(v, h)'
          PROVE  OnIt(pc[v], job[v], cache[h], RecordsOf(h))'
      <4>1. OnIt(pc'[v], job'[v], cache'[h], RecordsOf(h)')
        BY <1>1, <1>3, <1>7, <3>1, <3>2, <3>3, <3>4
      <4> QED BY <1>1, <4>1 DEF OnIt, Unwanted
    <3>5. ASSUME \A v \in Workers : ~Holds(v, h)'
          PROVE  Settled(cache[h], RecordsOf(h))'
      <4>1. Settled(cache'[h], RecordsOf(h)')
        BY <1>1, <1>7, <3>1, <3>3, <3>5
      <4> QED BY <1>1, <4>1 DEF Settled, Unwanted
    <3> QED BY <3>4, <3>5
  <2> QED BY <2>1, <2>2
<1> QED BY <1>8 DEF Ledger

-----------------------------------------------------------------------------
(* The ledger: the informer and the environment *)

\* A step that leaves the cache, the queues, the workers and the records alone.
LEMMA AsideLedger ==
  ASSUME Ledger, UNCHANGED <<cache, queue, pc, job, dns>>, spent'.crashes = spent.crashes
  PROVE  Ledger'
<1>1. \A c : Unwanted(c)' <=> Unwanted(c)
  BY DEF Unwanted
<1>2. \A k \in Keys : RecordsOf(k)' = RecordsOf(k) /\ (Waiting(k)' <=> Waiting(k))
  BY DEF RecordsOf, Waiting
<1>3. ASSUME NEW k \in Keys, ~Waiting(k)', NEW w \in Workers, Holds(w, k)'
      PROVE  OnIt(pc[w], job[w], cache[k], RecordsOf(k))'
  <2>1. OnIt(pc[w], job[w], cache[k], RecordsOf(k))
    BY <1>2, <1>3 DEF Ledger, Holds
  <2> QED BY <1>1, <1>2, <2>1 DEF OnIt
<1>4. ASSUME NEW k \in Keys, ~Waiting(k)', \A w \in Workers : ~Holds(w, k)'
      PROVE  Settled(cache[k], RecordsOf(k))'
  <2>1. Settled(cache[k], RecordsOf(k))
    BY <1>2, <1>4 DEF Ledger, Holds
  <2> QED BY <1>1, <1>2, <2>1 DEF Settled
<1> QED BY <1>3, <1>4 DEF Ledger

\* A version that needs something and is not the cached one makes the handlers
\* enqueue the key, unless the two need the same.
LEMMA NotifiesNeeds ==
  ASSUME NEW k \in Keys, NEW old \in Versions \union {NoObj},
         NEW new \in Versions \union {NoObj}, ~Notifies(k, old, new)
  PROVE  /\ Wanted(new) => old = new
         /\ Unwanted(new) => Unwanted(old)
<1>1. Wanted(new) => old = new
  BY DEF Wanted, Notifies
<1>2. CASE Unwanted(new)
  <2>1. \A v \in Versions : KindOf[k] = "service" => v.eligible
    BY <1>2 DEF Unwanted, ServicesEligible
  <2>2. old = NoObj \/ old.dns = None
    BY <1>2, <2>1 DEF Notifies, Unwanted
  <2> QED BY <1>1, <1>2, <2>2 DEF Unwanted
<1> QED BY <1>1, <1>2

\* The informer's next version either is no news or makes the key wait.
LEMMA DeliverLedger ==
  ASSUME RInv, RInv', Ledger, NEW k \in Keys, Deliver(k)
  PROVE  Ledger'
<1>1. PICK n \in {1, Len(watch[k])} :
        /\ cache' = [cache EXCEPT ![k] = watch[k][n]]
        /\ Notified(k, watch[k][n])
  BY DEF Deliver
<1>2. UNCHANGED <<pc, job, dns, spent>>
  BY DEF Deliver
<1>3. cache'[k] = watch[k][n] /\ \A h \in Keys \ {k} : cache'[h] = cache[h]
  BY <1>1 DEF RInv, OwnTypeOK
<1>4. cache[k] \in Versions \union {NoObj} /\ cache'[k] \in Versions \union {NoObj}
  BY DEF RInv, OwnTypeOK
<1>5. /\ queue \in [Kinds -> QueueOver(Keys)] /\ \A h \in Keys : KindOf[h] \in Kinds
  BY KindAssumption DEF RInv, OwnTypeOK
<1>6. /\ \A h \in Keys : Waiting(h) => Waiting(h)'
      /\ \A h \in Keys \ {k} : Waiting(h)' <=> Waiting(h)
      /\ Notifies(k, cache[k], cache'[k]) => Waiting(k)'
  <2>1. CASE queue' = queue /\ ~Notifies(k, cache[k], cache'[k])
    BY <2>1 DEF Waiting
  <2>2. CASE queue' = [queue EXCEPT ![KindOf[k]] = Add(queue[KindOf[k]], k)]
    <3>1. /\ queue'[KindOf[k]].pending = queue[KindOf[k]].pending \union {k}
          /\ \A kind \in Kinds \ {KindOf[k]} : queue'[kind] = queue[kind]
      BY <1>5, <2>2 DEF Add, QueueOver
    <3> QED BY <1>5, <3>1 DEF Waiting
  <2> QED BY <1>1, <1>3, <2>1, <2>2 DEF Notified
<1>7. \A h : RecordsOf(h)' = RecordsOf(h)
  BY <1>2 DEF RecordsOf
<1>8. \A c : Unwanted(c)' <=> Unwanted(c)
  BY <1>2 DEF Unwanted
<1>9. ASSUME NEW h \in Keys, ~Waiting(h)'
      PROVE  (Wanted(cache'[h]) => cache[h] = cache'[h]) /\ (Unwanted(cache'[h]) => Unwanted(cache[h]))
  <2>1. CASE h = k
    BY <1>4, <1>6, <1>9, <2>1, NotifiesNeeds
  <2>2. CASE h # k
    BY <1>3, <2>2
  <2> QED BY <2>1, <2>2
<1>10. ASSUME NEW h \in Keys, ~Waiting(h)', NEW w \in Workers, Holds(w, h)'
       PROVE  OnIt(pc[w], job[w], cache[h], RecordsOf(h))'
  <2>1. OnIt(pc[w], job[w], cache[h], RecordsOf(h))
    BY <1>2, <1>6, <1>10 DEF Ledger, Holds
  <2>2. OnIt(pc'[w], job'[w], cache'[h], RecordsOf(h)')
    BY <1>2, <1>7, <1>9, <1>10, <2>1 DEF OnIt
  <2> QED BY <1>8, <2>2 DEF OnIt
<1>11. ASSUME NEW h \in Keys, ~Waiting(h)', \A w \in Workers : ~Holds(w, h)'
       PROVE  Settled(cache[h], RecordsOf(h))'
  <2>1. Settled(cache[h], RecordsOf(h))
    BY <1>2, <1>6, <1>11 DEF Ledger, Holds
  <2>2. Settled(cache'[h], RecordsOf(h)')
    BY <1>7, <1>9, <1>11, <2>1 DEF Settled
  <2> QED BY <1>8, <2>2 DEF Settled
<1> QED BY <1>10, <1>11 DEF Ledger

\* A new process lists every object, and its handlers enqueue those that want
\* records.
LEMMA CrashLedger ==
  ASSUME RInv, RInv', Crash
  PROVE  Ledger'
<1>1. /\ cache' = obj /\ obj' = obj /\ spent'.crashes # 0
      /\ \A w \in Workers : pc'[w] = "idle"
  <2>1. spent' = [spent EXCEPT !.crashes = spent.crashes + 1] /\ spent \in SpentType
    BY DEF Crash, RInv, OwnTypeOK, SpentType
  <2>2. spent'.crashes = spent.crashes + 1 /\ spent.crashes \in Nat
    BY <2>1 DEF SpentType
  <2> QED BY <2>2 DEF Crash, Restarted
<1>2. ASSUME NEW k \in Keys, ~Waiting(k)'
      PROVE  Settled(cache[k], RecordsOf(k))'
  <2>1. ~Wanted(obj[k])
    <3>1. queue'[KindOf[k]].pending =
            {h \in Keys : KindOf[h] = KindOf[k] /\ obj[h] # NoObj /\ Notifies(h, NoObj, obj[h])}
      BY KindAssumption DEF Crash, Restarted, EmptyQueue
    <3>2. obj[k] = NoObj \/ ~Notifies(k, NoObj, obj[k])
      BY <1>2, <3>1 DEF Waiting
    <3> QED BY <3>2 DEF Wanted, Notifies
  <2>2. ~Unwanted(obj[k])'
    BY <1>1 DEF Unwanted
  <2> QED BY <1>1, <2>1, <2>2 DEF Settled
<1> QED BY <1>1, <1>2 DEF Ledger, Holds

-----------------------------------------------------------------------------
(* The ledger: ensureRoute53 *)

\* A worker that fails or waits puts the key back.
LEMMA RetryLedger ==
  ASSUME NEW w, NEW k, Steps(w, k), Finish(w, "err") \/ Finish(w, "after")
  PROVE  Ledger'
<1>1. Requeues("err") /\ Requeues("after")
  BY DEF Requeues
<1> QED BY <1>1, FinishLedger

\* What a worker in ensureRoute53 has to go on: with the key waiting, nothing;
\* otherwise its version is the cached one and is not to be cleaned up.
Current(k, j) ==
  ~Waiting(k) => /\ ~Unwanted(cache[k])
                 /\ Wanted(cache[k]) => j.view = cache[k]

\* The hostnames the worker is past are complete when its object has "mine".
Past(k, j, mine) ==
  ~Waiting(k) /\ Wanted(cache[k]) =>
    \A n \in DOMAIN j.view.dns : Complete(j.view.dns[n], mine) \/ j.view.dns[n] \in NamesLeft(j)

\* The ledger of a worker's object while it is in ensureRoute53.
LEMMA AtEnsureLedger ==
  ASSUME RInv, Ledger, NEW w \in Workers, pc[w] \in EnsureSites, NEW k, k = job[w].key
  PROVE  /\ Current(k, job[w])
         /\ pc[w] \in NameSites => Past(k, job[w], RecordsOf(k))
<1>1. k \in Keys /\ pc[w] # "idle" /\ pc[w] # "read" /\ pc[w] \notin CleanupSites
  BY AtEnsure DEF EnsureSites, CleanupSites
<1>2. ~Waiting(k) => OnIt(pc[w], job[w], cache[k], RecordsOf(k))
  BY <1>1 DEF Ledger, Holds
<1>3. ~Waiting(k) => /\ ~Unwanted(cache[k])
                     /\ Wanted(cache[k]) => Ensured(pc[w], job[w], cache[k], RecordsOf(k))
  BY <1>1, <1>2 DEF OnIt, CleanedUp
<1> QED BY <1>3 DEF Current, Past, Ensured

\* The loop over the status hostnames.  It ends well only after a load balancer
\* of ours was seen to, and then every hostname is complete.
LEMMA EnsureFromLedger ==
  ASSUME NEW w, NEW k, Steps(w, k), NEW j, j.key = k, Current(k, j), NEW i \in Nat,
         EnsureFrom(w, j, i),
         i = 1 \/ (~Waiting(k) /\ Wanted(cache[k]) =>
                     \A n \in DOMAIN j.view.dns : Complete(j.view.dns[n], RecordsOf(k)'))
  PROVE  Ledger'
<1>1. CASE Finish(w, "err")
  BY <1>1, RetryLedger
<1>2. CASE /\ \A n \in i .. Len(j.view.lbs) : HostKind[j.view.lbs[n]] = "otherCloud"
           /\ Finish(w, "ok")
  <2>1. ASSUME ~Waiting(k), Wanted(cache[k])
        PROVE  \A n \in DOMAIN cache[k].dns : Complete(cache[k].dns[n], RecordsOf(k)')
    <3>1. j.view = cache[k] /\ HasBalancer(cache[k])
      BY <2>1 DEF Current, Wanted
    <3>2. cache[k].lbs \in Seq(LBs)
      <4>1. cache[k] \in Versions
        BY <2>1 DEF Wanted, Steps, RInv, OwnTypeOK
      <4> QED BY <4>1, VersionAssumption
    <3>3. i # 1
      BY <1>2, <3>1, <3>2 DEF HasBalancer
    <3> QED BY <2>1, <3>1, <3>3
  <2>2. ~Waiting(k) => Settled(cache[k], RecordsOf(k)')
    BY <2>1 DEF Settled, Current
  <2> QED BY <1>2, <2>2, FinishLedger
<1>3. ASSUME NEW n, Goto(w, "list", [j EXCEPT !.i = n, !.arn = None])
      PROVE  Ledger'
  <2> DEFINE j2 == [j EXCEPT !.i = n, !.arn = None]
  <2>1. "list" \in EnsureSites /\ "list" \notin NameSites /\ "list" # "idle"
    BY DEF EnsureSites, NameSites
  <2>2. j2.key = j.key /\ j2.view = j.view
    BY SMT
  <2> HIDE DEF j2
  <2>3. ~Waiting(k) => OnIt("list", j2, cache[k], RecordsOf(k)')
    BY <2>1, <2>2 DEF Current, OnIt, Ensured
  <2>4. Goto(w, "list", j2)
    BY <1>3 DEF j2
  <2> QED BY <2>1, <2>2, <2>3, <2>4, GotoLedger
<1> QED BY <1>1, <1>2, <1>3 DEF EnsureFrom

\* Going on with a hostname.
LEMMA NameLedger ==
  ASSUME NEW w, NEW k, Steps(w, k), NEW j, j.key = k, Current(k, j), NEW site \in NameSites,
         Past(k, j, RecordsOf(k)'), Goto(w, site, j)
  PROVE  Ledger'
<1>1. site \in EnsureSites /\ site # "idle" /\ site # "read"
  BY DEF NameSites, EnsureSites
<1>2. ~Waiting(k) => OnIt(site, j, cache[k], RecordsOf(k)')
  BY <1>1 DEF Current, Past, OnIt, Ensured
<1> QED BY <1>1, <1>2, GotoLedger

\* The names left are the one at hand and those after it.
LEMMA HeadOrTail ==
  ASSUME NEW s \in Seq(Hostnames), s # <<>>, NEW n \in DOMAIN s
  PROVE  s[n] = Head(s) \/ \E m \in DOMAIN Tail(s) : Tail(s)[m] = s[n]
<1>1. Len(s) \in Nat /\ n \in 1 .. Len(s) /\ Head(s) = s[1]
  OBVIOUS
<1>2. Len(Tail(s)) = Len(s) - 1 /\ DOMAIN Tail(s) = 1 .. Len(s) - 1
  OBVIOUS
<1>3. ASSUME n # 1
      PROVE  n - 1 \in DOMAIN Tail(s) /\ Tail(s)[n - 1] = s[n]
  BY <1>1, <1>2, <1>3
<1> QED BY <1>1, <1>3

\* The end of a hostname.
LEMMA NextNameLedger ==
  ASSUME NEW w, NEW k, Steps(w, k), NEW j \in Jobs, j.key = k, Current(k, j), j.names # <<>>,
         Past(k, j, RecordsOf(k)'), NextName(w, j),
         ~Waiting(k) /\ Wanted(cache[k]) => Complete(Head(j.names), RecordsOf(k)')
  PROVE  Ledger'
<1> DEFINE rest == Tail(j.names)
<1>1. j.names \in Seq(Hostnames)
  BY DEF Jobs
<1>2. ASSUME NEW h \in NamesLeft(j)
      PROVE  h = Head(j.names) \/ \E m \in DOMAIN rest : rest[m] = h
  BY <1>1, <1>2, HeadOrTail DEF NamesLeft
<1>3. CASE rest = <<>> /\ EnsureFrom(w, j, j.i + 1)
  <2>1. j.i + 1 \in Nat
    BY DEF Jobs
  <2>2. DOMAIN rest = {}
    BY <1>3
  <2>3. ASSUME ~Waiting(k), Wanted(cache[k]), NEW n \in DOMAIN j.view.dns
        PROVE  Complete(j.view.dns[n], RecordsOf(k)')
    <3> HIDE DEF rest
    <3> QED BY <1>2, <2>2, <2>3 DEF Past
  <2> QED BY <1>3, <2>1, <2>3, EnsureFromLedger
<1>4. CASE Goto(w, "findZone", [j EXCEPT !.names = rest])
  <2> DEFINE j2 == [j EXCEPT !.names = rest]
  <2>1. j2.key = j.key /\ j2.view = j.view /\ j2.names = rest
    BY DEF Jobs
  <2> HIDE DEF j2
  <2>2. Current(k, j2) /\ "findZone" \in NameSites
    BY <2>1 DEF Current, NameSites
  <2>3. Past(k, j2, RecordsOf(k)')
    <3>1. ASSUME NEW h \in NamesLeft(j), h # Head(j.names)
          PROVE  h \in NamesLeft(j2)
      BY <1>2, <2>1, <3>1 DEF NamesLeft
    <3> QED BY <2>1, <3>1 DEF Past
  <2>4. Goto(w, "findZone", j2)
    BY <1>4 DEF j2
  <2> QED BY <2>1, <2>2, <2>3, <2>4, NameLedger
<1> QED BY <1>3, <1>4 DEF NextName

-----------------------------------------------------------------------------
(* The ledger: the calls of ensureRoute53 *)

\* Whatever a worker does, the records of the other objects stay the same.
LEMMA WorkSteps ==
  ASSUME RInv, RInv', Ledger, NEW w \in Workers, Work(w), NEW k, k = job[w].key
  PROVE  /\ Steps(w, k)
         /\ dns' = dns => RecordsOf(k)' = RecordsOf(k)
<1>1. pc[w] # "idle" /\ UNCHANGED <<obj, watch, cache, acc>>
  BY DEF Work, Ensures, CleansUp, Read, ListAccelerators, ListTags, FindZone, ListRecords,
     CreateTxt, CreateA, UpsertA, ListZones, FindOwnedA, DeleteA, FindOwnedTxt, DeleteTxt,
     At, outside
<1>2. spent' \in {spent, [spent EXCEPT !.faults = spent.faults + 1]}
  BY DEF Work, Ensures, CleansUp, Read, ListAccelerators, ListTags, FindZone, ListRecords,
     CreateTxt, CreateA, UpsertA, ListZones, FindOwnedA, DeleteA, FindOwnedTxt, DeleteTxt,
     Answers, Fails
<1>3. spent'.crashes = spent.crashes
  BY <1>2 DEF RInv, OwnTypeOK
<1>4. \A h \in Keys \ {job[w].key} : RecordsOf(h)' = RecordsOf(h)
  <2>1. CASE dns' = dns
    BY <2>1 DEF RecordsOf
  <2>2. CASE dns' # dns
    <3>1. PICK g \in Hostnames : \E r :
            /\ dns' = [dns EXCEPT ![g] = r]
            /\ dns[g].txt \in {job[w].key, None} /\ r.txt \in {job[w].key, None}
      BY <2>2, Writes DEF WritesOwn
    <3>2. dns \in DnsType
      BY DEF RInv, OwnTypeOK, DnsType
    <3>3. /\ dns'[g].txt \in {job[w].key, None}
          /\ \A f \in Hostnames \ {g} : dns'[f] = dns[f]
      BY <3>1, <3>2 DEF DnsType
    <3>4. ASSUME NEW h \in Keys \ {job[w].key}, NEW f \in Hostnames
          PROVE  /\ dns'[f].txt = h <=> dns[f].txt = h
                 /\ dns[f].txt = h => dns'[f].a = dns[f].a
      BY <3>1, <3>3, NullAssumption
    <3>5. ASSUME NEW h \in Keys \ {job[w].key}
          PROVE  /\ {f \in Hostnames : dns'[f].txt = h} = {f \in Hostnames : dns[f].txt = h}
                 /\ \A f \in {e \in Hostnames : dns[e].txt = h} : dns'[f].a = dns[f].a
      BY <3>4
    <3> QED BY <3>5 DEF RecordsOf
  <2> QED BY <2>1, <2>2
<1>5. Call(w) /\ k \in Keys
  BY <1>1, <1>4, Busy DEF Call, RInv, OwnTypeOK, DnsType, SpentType
<1>6. dns' = dns => RecordsOf(k)' = RecordsOf(k)
  BY DEF RecordsOf
<1> QED BY <1>3, <1>5, <1>6 DEF Steps

\* The cached object is read: what it needs is what the worker turns to.
LEMMA ReadLedger ==
  ASSUME RInv, RInv', Ledger, NEW w \in Workers, Read(w)
  PROVE  Ledger'
<1> DEFINE v == cache[job[w].key]
           j == [job[w] EXCEPT !.view = v]
<1> SUFFICES ASSUME NEW k, k = job[w].key  PROVE Ledger'
  OBVIOUS
<1>1. Steps(w, k) /\ RecordsOf(k)' = RecordsOf(k)
  BY WorkSteps DEF Work, Read
<1>2. job[w] \in Jobs /\ k \in Keys
  BY Busy DEF Read, At
<1>3. j.key = k /\ j.view = cache[k]
  BY <1>2 DEF Jobs
<1>4. CASE (v = NoObj \/ v.dns = None) /\ Goto(w, "listZones", j)
  <2>1. "listZones" # "idle" /\ "listZones" \in CleanupSites
    BY DEF CleanupSites
  <2>2. OnIt("listZones", j, cache[k], RecordsOf(k)')
    BY <1>4, <2>1 DEF OnIt, CleanedUp, Wanted
  <2> HIDE DEF j
  <2> QED BY <1>1, <1>3, <1>4, <2>1, <2>2, GotoLedger
<1>5. CASE v # NoObj /\ v.dns # None /\ EnsureFrom(w, j, 1)
  <2>1. Current(k, j)
    BY <1>3, <1>5 DEF Current, Unwanted
  <2> HIDE DEF j, v
  <2> QED BY <1>1, <1>3, <1>5, <2>1, EnsureFromLedger
<1> QED BY <1>4, <1>5 DEF Read

\* The tags are read: the worker waits, or turns to the first hostname.
LEMMA ListedLedger ==
  ASSUME NEW w, NEW k, Steps(w, k), NEW j \in Jobs, j.key = k, Current(k, j), Listed(w, j)
  PROVE  Ledger'
<1>1. CASE Finish(w, "after")
  BY <1>1, RetryLedger
<1>2. CASE j.view.dns = <<>> /\ EnsureFrom(w, j, j.i + 1)
  <2>1. j.i + 1 \in Nat /\ DOMAIN j.view.dns = {}
    BY <1>2 DEF Jobs
  <2> QED BY <1>2, <2>1, EnsureFromLedger
<1>3. ASSUME NEW a \in Arns, Goto(w, "findZone", [j EXCEPT !.arn = a, !.names = j.view.dns])
      PROVE  Ledger'
  <2> DEFINE j2 == [j EXCEPT !.arn = a, !.names = j.view.dns]
  <2>1. j2.key = j.key /\ j2.view = j.view /\ j2.names = j.view.dns
    BY DEF Jobs
  <2> HIDE DEF j2
  <2>2. Current(k, j2) /\ "findZone" \in NameSites /\ Past(k, j2, RecordsOf(k)')
    BY <2>1 DEF Current, NameSites, Past, NamesLeft
  <2>3. Goto(w, "findZone", j2)
    BY <1>3 DEF j2
  <2> QED BY <2>1, <2>2, <2>3, NameLedger
<1> QED BY <1>1, <1>2, <1>3 DEF Listed

\* More tags to read.
LEMMA TagsLedger ==
  ASSUME NEW w, NEW k, Steps(w, k), NEW j, j.key = k, Current(k, j), Goto(w, "tags", j)
  PROVE  Ledger'
<1>1. "tags" \in EnsureSites /\ "tags" \notin NameSites /\ "tags" # "idle"
  BY DEF EnsureSites, NameSites
<1>2. ~Waiting(k) => OnIt("tags", j, cache[k], RecordsOf(k)')
  BY <1>1 DEF Current, OnIt, Ensured
<1> QED BY <1>1, <1>2, GotoLedger

\* The list of accelerators.
LEMMA ListAcceleratorsLedger ==
  ASSUME RInv, RInv', Ledger, NEW w \in Workers, ListAccelerators(w)
  PROVE  Ledger'
<1> DEFINE j == [job[w] EXCEPT !.listed = {a \in Arns : Exists(a)}, !.found = {}]
<1> SUFFICES ASSUME NEW k, k = job[w].key  PROVE Ledger'
  OBVIOUS
<1>1. Steps(w, k)
  BY WorkSteps DEF Work, Ensures
<1>2. pc[w] \in EnsureSites
  BY DEF ListAccelerators, At, EnsureSites
<1>3. job[w] \in Jobs /\ Current(k, job[w])
  BY <1>2, AtEnsure, AtEnsureLedger DEF Ensuring
<1>4. j \in Jobs /\ j.key = k /\ j.view = job[w].view
  BY <1>3 DEF Jobs
<1>5. \/ Listed(w, j) \/ Goto(w, "tags", j) \/ Finish(w, "err")
  BY DEF ListAccelerators
<1> HIDE DEF j
<1>6. Current(k, j)
  BY <1>3, <1>4 DEF Current
<1> QED BY <1>1, <1>4, <1>5, <1>6, ListedLedger, TagsLedger, RetryLedger

\* And their tags.
LEMMA ListTagsLedger ==
  ASSUME RInv, RInv', Ledger, NEW w \in Workers, ListTags(w)
  PROVE  Ledger'
<1> DEFINE rest(a) == job[w].listed \ {a}
           found(a) == IF TagsMatch(acc[a], Host(job[w])) THEN job[w].found \union {a} ELSE job[w].found
           j(a) == [job[w] EXCEPT !.listed = rest(a), !.found = found(a)]
<1> SUFFICES ASSUME NEW k, k = job[w].key  PROVE Ledger'
  OBVIOUS
<1>1. Steps(w, k)
  BY WorkSteps DEF Work, Ensures
<1>2. pc[w] \in EnsureSites
  BY DEF ListTags, At, EnsureSites
<1>3. job[w] \in Jobs /\ Current(k, job[w])
  BY <1>2, AtEnsure, AtEnsureLedger DEF Ensuring
<1>4. PICK a \in job[w].listed : Listed(w, j(a)) \/ Goto(w, "tags", j(a)) \/ Finish(w, "err")
  BY DEF ListTags
<1>5. rest(a) \in SUBSET Arns /\ found(a) \in SUBSET Arns
  BY <1>3 DEF Jobs
<1>6. j(a) \in Jobs /\ j(a).key = k /\ j(a).view = job[w].view
  <2> HIDE DEF rest, found
  <2> QED BY <1>3, <1>5 DEF Jobs
<1> HIDE DEF j
<1>7. Current(k, j(a))
  BY <1>3, <1>6 DEF Current
<1> QED BY <1>1, <1>4, <1>6, <1>7, ListedLedger, TagsLedger, RetryLedger

\* GetHostedZone.
LEMMA FindZoneLedger ==
  ASSUME RInv, RInv', Ledger, NEW w \in Workers, FindZone(w)
  PROVE  Ledger'
<1> SUFFICES ASSUME NEW k, k = job[w].key  PROVE Ledger'
  OBVIOUS
<1>1. Steps(w, k) /\ RecordsOf(k)' = RecordsOf(k)
  BY WorkSteps DEF Work, Ensures, FindZone, Answers, Fails
<1>2. pc[w] \in EnsureSites /\ pc[w] \in NameSites /\ "listRecords" \in NameSites
  BY DEF FindZone, At, EnsureSites, NameSites
<1>3. Current(k, job[w]) /\ Past(k, job[w], RecordsOf(k)')
  BY <1>1, <1>2, AtEnsureLedger
<1>4. Goto(w, "listRecords", job[w]) \/ Finish(w, "err")
  BY DEF FindZone
<1> QED BY <1>1, <1>2, <1>3, <1>4, NameLedger, RetryLedger

\* The decision about a hostname: it is left only when it is complete.
LEMMA ListRecordsLedger ==
  ASSUME RInv, RInv', Ledger, NEW w \in Workers, ListRecords(w)
  PROVE  Ledger'
<1> SUFFICES ASSUME NEW k, k = job[w].key  PROVE Ledger'
  OBVIOUS
<1> DEFINE j == job[w]
           h == Head(j.names)
<1>1. Steps(w, k) /\ RecordsOf(k)' = RecordsOf(k)
  BY WorkSteps DEF Work, Ensures, ListRecords, Answers, Fails
<1>2. pc[w] \in EnsureSites /\ pc[w] \in NameSites /\ {"createTxt", "upsertA"} \subseteq NameSites
  BY DEF ListRecords, At, EnsureSites, NameSites
<1>3. Current(k, j) /\ Past(k, j, RecordsOf(k)')
  BY <1>1, <1>2, AtEnsureLedger
<1>4. j \in Jobs /\ j.arn \in Arns /\ j.names # <<>> /\ h \in Hostnames
  BY <1>2, AtEnsure DEF Ensuring, NameSites
<1>5. CASE Goto(w, "createTxt", j) \/ Goto(w, "upsertA", j)
  BY <1>1, <1>2, <1>3, <1>5, NameLedger
<1>6. CASE OwnsAlias(k, h) /\ dns[h].a = j.arn /\ NextName(w, j)
  <2>1. Complete(h, RecordsOf(k)')
    BY <1>1, <1>4, <1>6 DEF Complete, RecordsOf, OwnsAlias
  <2> QED BY <1>1, <1>3, <1>4, <1>6, <2>1, NextNameLedger
<1>7. CASE Finish(w, "err")
  BY <1>1, <1>7, RetryLedger
<1> QED BY <1>5, <1>6, <1>7 DEF ListRecords

\* A hostname that was complete stays so when another one's records, or its
\* alias, are written for the same object.
LEMMA CompleteKept ==
  ASSUME RInv, NEW k, NEW h \in Hostnames, NEW r, dns' = [dns EXCEPT ![h] = r],
         r.txt = k, Complete(h, RecordsOf(k)) => r.a \in Arns,
         NEW g, Complete(g, RecordsOf(k))
  PROVE  Complete(g, RecordsOf(k)')
<1>1. dns \in DnsType
  BY DEF RInv, OwnTypeOK, DnsType
<1>2. g \in Hostnames /\ dns[g].txt = k /\ dns[g].a \in Arns
  BY DEF Complete, RecordsOf
<1>3. dns'[g].txt = k /\ dns'[g].a \in Arns
  <2>1. CASE g = h
    BY <1>1, <2>1 DEF DnsType
  <2>2. CASE g # h
    BY <1>1, <1>2, <2>2 DEF DnsType
  <2> QED BY <2>1, <2>2
<1>4. <<g, dns'[g].a>> \in RecordsOf(k)'
  BY <1>2, <1>3 DEF RecordsOf
<1> QED BY <1>3, <1>4 DEF Complete

\* The TXT record of a hostname.
LEMMA CreateTxtLedger ==
  ASSUME RInv, RInv', Ledger, NEW w \in Workers, CreateTxt(w)
  PROVE  Ledger'
<1> SUFFICES ASSUME NEW k, k = job[w].key, NEW h, h = Head(job[w].names)  PROVE Ledger'
  OBVIOUS
<1> DEFINE r == [dns[h] EXCEPT !.txt = k]
<1>1. Steps(w, k)
  BY WorkSteps DEF Work, Ensures
<1>2. pc[w] \in EnsureSites /\ pc[w] \in NameSites /\ "createA" \in NameSites
  BY DEF CreateTxt, At, EnsureSites, NameSites
<1>3. Current(k, job[w]) /\ Past(k, job[w], RecordsOf(k))
  BY <1>2, AtEnsureLedger
<1>4. h \in Hostnames /\ k \in Keys
  BY <1>2, AtEnsure DEF NameSites
<1>5. CASE /\ dns[h].txt = None /\ dns' = [dns EXCEPT ![h] = r]
           /\ Goto(w, "createA", job[w])
  <2>1. dns[h] \in RecordSets
    BY <1>4 DEF RInv, OwnTypeOK
  <2>2. r.txt = k /\ ~Complete(h, RecordsOf(k))
    BY <1>4, <1>5, <2>1, NullAssumption DEF RecordSets, Complete, RecordsOf
  <2> HIDE DEF r
  <2>3. \A g : Complete(g, RecordsOf(k)) => Complete(g, RecordsOf(k)')
    BY <1>4, <1>5, <2>2, CompleteKept
  <2>4. Past(k, job[w], RecordsOf(k)')
    BY <1>3, <2>3 DEF Past
  <2> QED BY <1>1, <1>2, <1>3, <1>5, <2>4, NameLedger
<1>6. CASE Finish(w, "err")
  BY <1>1, <1>6, RetryLedger
<1> QED BY <1>5, <1>6 DEF CreateTxt, Answers

\* An alias written is the last of a hostname's records.
LEMMA AliasLedger ==
  ASSUME RInv, RInv', Ledger, NEW w \in Workers, CreateA(w) \/ UpsertA(w)
  PROVE  Ledger'
<1> SUFFICES ASSUME NEW k, k = job[w].key, NEW j, j = job[w], NEW h, h = Head(j.names)
             PROVE  Ledger'
  OBVIOUS
<1> DEFINE r == [dns[h] EXCEPT !.a = j.arn]
<1>1. Steps(w, k)
  BY WorkSteps DEF Work, Ensures
<1>2. pc[w] \in {"createA", "upsertA"} /\ pc[w] \in EnsureSites /\ pc[w] \in NameSites
  BY DEF CreateA, UpsertA, At, EnsureSites, NameSites
<1>3. Current(k, j) /\ Past(k, j, RecordsOf(k))
  BY <1>2, AtEnsureLedger
<1>4. /\ j \in Jobs /\ j.arn \in Arns /\ j.names # <<>> /\ h \in Hostnames /\ k \in Keys
      /\ pc[w] # "idle"
  BY <1>2, AtEnsure DEF Ensuring, NameSites
<1>5. CASE dns' = [dns EXCEPT ![h] = r] /\ NextName(w, j)
  <2>1. dns[h] \in RecordSets /\ dns \in DnsType
    BY <1>4 DEF RInv, OwnTypeOK, DnsType
  <2>2. dns[h].txt = k
    BY <1>2, <1>4, Busy DEF FindingsHold, RecordsOf
  <2>3. r.txt = k /\ r.a = j.arn
    BY <2>1, <2>2 DEF RecordSets
  <2> HIDE DEF r
  <2>4. \A g : Complete(g, RecordsOf(k)) => Complete(g, RecordsOf(k)')
    BY <1>4, <1>5, <2>3, CompleteKept
  <2>5. Past(k, j, RecordsOf(k)')
    BY <1>3, <2>4 DEF Past
  <2>6. dns'[h] = r
    BY <1>4, <1>5, <2>1 DEF DnsType
  <2>7. Complete(h, RecordsOf(k)')
    BY <1>4, <2>3, <2>6 DEF Complete, RecordsOf
  <2> QED BY <1>1, <1>3, <1>4, <1>5, <2>5, <2>7, NextNameLedger
<1>6. CASE Finish(w, "err")
  BY <1>1, <1>6, RetryLedger
<1> QED BY <1>5, <1>6 DEF CreateA, UpsertA, Answers

-----------------------------------------------------------------------------
(* The ledger: CleanupRecordSet *)

\* The ledger of a worker's object while it is in CleanupRecordSet.
LEMMA AtCleanupLedger ==
  ASSUME RInv, Ledger, NEW w \in Workers, pc[w] \in CleanupSites, NEW k, k = job[w].key
  PROVE  /\ k \in Keys /\ job[w] \in Jobs
         /\ ~Waiting(k) => /\ ~Wanted(cache[k])
                           /\ Unwanted(cache[k]) => CleanedUp(pc[w], job[w], RecordsOf(k))
<1>1. pc[w] # "idle" /\ pc[w] # "read" /\ pc[w] \notin EnsureSites
  BY DEF EnsureSites, CleanupSites
<1>2. k \in Keys /\ job[w] \in Jobs
  BY <1>1, Busy
<1>3. ~Waiting(k) => OnIt(pc[w], job[w], cache[k], RecordsOf(k))
  BY <1>1, <1>2 DEF Ledger, Holds
<1> QED BY <1>1, <1>2, <1>3 DEF OnIt, Ensured

\* The worker goes on with the cleanup.
LEMMA CleaningLedger ==
  ASSUME NEW w, NEW k, Steps(w, k), NEW j, j.key = k, NEW site \in CleanupSites,
         ~Waiting(k) => /\ ~Wanted(cache[k])
                        /\ Unwanted(cache[k]) => CleanedUp(site, j, RecordsOf(k)'),
         Goto(w, site, j)
  PROVE  Ledger'
<1>1. site # "idle"
  BY DEF CleanupSites
<1>2. ~Waiting(k) => OnIt(site, j, cache[k], RecordsOf(k)')
  BY DEF OnIt
<1> QED BY <1>1, <1>2, GotoLedger

\* The next zone, when the records left are all in the zones still to come.
LEMMA NextZoneLedger ==
  ASSUME NEW w, NEW k, Steps(w, k), NEW j \in Jobs, j.key = k, NextZone(w, j),
         ~Waiting(k) => /\ ~Wanted(cache[k])
                        /\ Unwanted(cache[k]) => \A r \in RecordsOf(k)' : ZoneOf[r[1]] \in j.zones
  PROVE  Ledger'
<1>1. CASE j.zones = {} /\ Finish(w, "ok")
  <2>1. ~Waiting(k) => Settled(cache[k], RecordsOf(k)')
    BY <1>1 DEF Settled
  <2> QED BY <1>1, <2>1, FinishLedger
<1>2. ASSUME NEW z \in j.zones,
             Goto(w, "ownedA", [j EXCEPT !.zones = j.zones \ {z}, !.zone = z, !.todo = {}])
      PROVE  Ledger'
  <2> DEFINE j2 == [j EXCEPT !.zones = j.zones \ {z}, !.zone = z, !.todo = {}]
  <2>1. j2.key = k /\ j2.zones = j.zones \ {z} /\ j2.zone = z
    BY DEF Jobs
  <2> HIDE DEF j2
  <2>2. "ownedA" \in CleanupSites
    BY DEF CleanupSites
  <2>3. ~Waiting(k) => /\ ~Wanted(cache[k])
                       /\ Unwanted(cache[k]) => CleanedUp("ownedA", j2, RecordsOf(k)')
    BY <2>1, <2>2 DEF CleanedUp
  <2>4. Goto(w, "ownedA", j2)
    BY <1>2 DEF j2
  <2> QED BY <2>1, <2>2, <2>3, <2>4, CleaningLedger
<1> QED BY <1>1, <1>2 DEF NextZone

\* All zones are still to come.
LEMMA ListZonesLedger ==
  ASSUME RInv, RInv', Ledger, Placed, NEW w \in Workers, ListZones(w)
  PROVE  Ledger'
<1> SUFFICES ASSUME NEW k, k = job[w].key  PROVE Ledger'
  OBVIOUS
<1> DEFINE j == [job[w] EXCEPT !.zones = Zones]
<1>1. Steps(w, k) /\ RecordsOf(k)' = RecordsOf(k)
  BY WorkSteps DEF Work, CleansUp, ListZones, Answers, Fails
<1>2. pc[w] \in CleanupSites
  BY DEF ListZones, At, CleanupSites
<1>3. j \in Jobs /\ j.key = k /\ j.zones = Zones
  BY <1>2, AtCleanupLedger DEF Jobs
<1>4. ASSUME NEW r \in RecordsOf(k)
      PROVE  ZoneOf[r[1]] \in Zones
  <2>1. PICK h \in Hostnames : dns[h].txt = k /\ r = <<h, dns[h].a>>
    BY DEF RecordsOf
  <2>2. ZoneOf[h] \in Zones
    BY <1>2, <2>1, AtCleanupLedger, ZoneAssumption DEF Placed
  <2> QED BY <2>1, <2>2
<1>5. NextZone(w, j) \/ Finish(w, "err")
  BY DEF ListZones
<1> HIDE DEF j
<1> QED BY <1>1, <1>2, <1>3, <1>4, <1>5, AtCleanupLedger, NextZoneLedger, RetryLedger

\* The aliases of a zone.
LEMMA FindOwnedALedger ==
  ASSUME RInv, RInv', Ledger, NEW w \in Workers, FindOwnedA(w)
  PROVE  Ledger'
<1> SUFFICES ASSUME NEW k, k = job[w].key  PROVE Ledger'
  OBVIOUS
<1> DEFINE found == {<<h, dns[h].a>> : h \in {g \in InZone(job[w].zone) : OwnsAlias(job[w].key, g)}}
           j == [job[w] EXCEPT !.todo = found]
<1>1. Steps(w, k) /\ RecordsOf(k)' = RecordsOf(k)
  BY WorkSteps DEF Work, CleansUp, FindOwnedA, Answers, Fails
<1>2. pc[w] = "ownedA" /\ {"ownedA", "ownedTxt", "deleteA"} \subseteq CleanupSites
  BY DEF FindOwnedA, At, CleanupSites
<1>3. Goto(w, "ownedTxt", job[w]) \/ Goto(w, "deleteA", j) \/ Finish(w, "err")
  BY DEF FindOwnedA
<1> HIDE DEF found
<1>4. job[w] \in Jobs /\ j.key = k /\ j.zones = job[w].zones /\ j.zone = job[w].zone
  BY <1>2, AtCleanupLedger DEF Jobs
<1> HIDE DEF j
<1>5. ~Waiting(k) => /\ ~Wanted(cache[k])
                     /\ Unwanted(cache[k]) => /\ CleanedUp("ownedTxt", job[w], RecordsOf(k)')
                                              /\ CleanedUp("deleteA", j, RecordsOf(k)')
  BY <1>1, <1>2, <1>4, AtCleanupLedger DEF CleanedUp
<1>6. CASE Goto(w, "ownedTxt", job[w])
  BY <1>1, <1>2, <1>5, <1>6, CleaningLedger
<1>7. CASE Goto(w, "deleteA", j)
  BY <1>1, <1>2, <1>4, <1>5, <1>7, CleaningLedger
<1> QED BY <1>1, <1>3, <1>6, <1>7, RetryLedger

\* An alias deleted: the object's hostnames are the same as before.
LEMMA DeleteALedger ==
  ASSUME RInv, RInv', Ledger, NEW w \in Workers, DeleteA(w)
  PROVE  Ledger'
<1> SUFFICES ASSUME NEW k, k = job[w].key  PROVE Ledger'
  OBVIOUS
<1>1. Steps(w, k)
  BY WorkSteps DEF Work, CleansUp
<1>2. pc[w] = "deleteA" /\ {"ownedTxt", "deleteA"} \subseteq CleanupSites
  BY DEF DeleteA, At, CleanupSites
<1>3. PICK t \in job[w].todo :
        LET j == [job[w] EXCEPT !.todo = job[w].todo \ {t}]
            allowed == dns[t[1]].a = t[2]
            new == [dns EXCEPT ![t[1]] = [dns[t[1]] EXCEPT !.a = None]]
        IN  \/ /\ Answers(allowed, new)
               /\ Goto(w, IF j.todo = {} THEN "ownedTxt" ELSE "deleteA", j)
            \/ Fails(w, allowed, new) /\ Finish(w, "err")
  BY DEF DeleteA
<1> DEFINE j == [job[w] EXCEPT !.todo = job[w].todo \ {t}]
           new == [dns EXCEPT ![t[1]] = [dns[t[1]] EXCEPT !.a = None]]
<1>4. job[w] \in Jobs /\ j.key = k /\ j.zones = job[w].zones /\ j.zone = job[w].zone
  BY <1>2, AtCleanupLedger DEF Jobs
<1>5. CASE dns' = new /\ Goto(w, IF j.todo = {} THEN "ownedTxt" ELSE "deleteA", j)
  <2>1. t[1] \in Hostnames /\ dns \in DnsType /\ dns[t[1]] \in RecordSets
    BY <1>4 DEF Jobs, RInv, OwnTypeOK, DnsType
  <2>2. \A h \in Hostnames : dns'[h].txt = dns[h].txt
    BY <1>5, <2>1 DEF DnsType, RecordSets
  <2>3. ASSUME NEW r \in RecordsOf(k)'
        PROVE  \E s \in RecordsOf(k) : s[1] = r[1]
    <3>1. PICK h \in Hostnames : dns'[h].txt = k /\ r = <<h, dns'[h].a>>
      BY DEF RecordsOf
    <3>2. <<h, dns[h].a>> \in RecordsOf(k)
      BY <2>2, <3>1 DEF RecordsOf
    <3>3. <<h, dns[h].a>>[1] = r[1]
      BY <3>1
    <3> QED BY <3>2, <3>3
  <2> HIDE DEF j
  <2>4. ~Waiting(k) => /\ ~Wanted(cache[k])
                       /\ Unwanted(cache[k]) => /\ CleanedUp("ownedTxt", j, RecordsOf(k)')
                                                /\ CleanedUp("deleteA", j, RecordsOf(k)')
    BY <1>2, <1>4, <2>3, AtCleanupLedger DEF CleanedUp
  <2> QED BY <1>1, <1>2, <1>4, <1>5, <2>4, CleaningLedger
<1>6. CASE Finish(w, "err")
  BY <1>1, <1>6, RetryLedger
<1> QED BY <1>3, <1>5, <1>6 DEF Answers

\* The TXT records of a zone are all found.
LEMMA FindOwnedTxtLedger ==
  ASSUME RInv, RInv', Ledger, NEW w \in Workers, FindOwnedTxt(w)
  PROVE  Ledger'
<1> SUFFICES ASSUME NEW k, k = job[w].key  PROVE Ledger'
  OBVIOUS
<1> DEFINE found == {<<h, Foreign>> : h \in {g \in InZone(job[w].zone) : dns[g].txt = job[w].key}}
           j == [job[w] EXCEPT !.todo = found]
<1>1. Steps(w, k) /\ RecordsOf(k)' = RecordsOf(k)
  BY WorkSteps DEF Work, CleansUp, FindOwnedTxt, Answers, Fails
<1>2. pc[w] = "ownedTxt" /\ {"ownedTxt", "deleteTxt"} \subseteq CleanupSites
  BY DEF FindOwnedTxt, At, CleanupSites
<1>3. \/ found = {} /\ NextZone(w, job[w])
      \/ Goto(w, "deleteTxt", j)
      \/ Finish(w, "err")
  BY DEF FindOwnedTxt
<1>4. \A r \in RecordsOf(k) : ZoneOf[r[1]] = job[w].zone => <<r[1], Foreign>> \in found
  BY DEF RecordsOf, InZone
<1> HIDE DEF found
<1>5. job[w] \in Jobs /\ j.key = k /\ j.zones = job[w].zones /\ j.zone = job[w].zone /\ j.todo = found
  BY <1>2, AtCleanupLedger DEF Jobs
<1> HIDE DEF j
<1>6. ~Waiting(k) =>
        /\ ~Wanted(cache[k])
        /\ Unwanted(cache[k]) => \A r \in RecordsOf(k)' : ZoneOf[r[1]] \in job[w].zones \union {job[w].zone}
  BY <1>1, <1>2, AtCleanupLedger DEF CleanedUp
<1>7. CASE found = {} /\ NextZone(w, job[w])
  <2>1. \A r \in RecordsOf(k)' : ZoneOf[r[1]] # job[w].zone
    BY <1>1, <1>4, <1>7
  <2>2. ~Waiting(k) => /\ ~Wanted(cache[k])
                       /\ Unwanted(cache[k]) => \A r \in RecordsOf(k)' : ZoneOf[r[1]] \in job[w].zones
    BY <1>6, <2>1
  <2> QED BY <1>1, <1>5, <1>7, <2>2, NextZoneLedger
<1>8. CASE Goto(w, "deleteTxt", j)
  <2>1. ASSUME NEW r \in RecordsOf(k)', ZoneOf[r[1]] = j.zone
        PROVE  \E t \in j.todo : t[1] = r[1]
    <3>1. <<r[1], Foreign>> \in j.todo
      BY <1>1, <1>4, <1>5, <2>1
    <3>2. <<r[1], Foreign>>[1] = r[1]
      OBVIOUS
    <3> QED BY <3>1, <3>2
  <2>2. ~Waiting(k) => /\ ~Wanted(cache[k])
                       /\ Unwanted(cache[k]) => CleanedUp("deleteTxt", j, RecordsOf(k)')
    BY <1>2, <1>5, <1>6, <2>1 DEF CleanedUp
  <2> QED BY <1>1, <1>2, <1>5, <1>8, <2>2, CleaningLedger
<1> QED BY <1>1, <1>3, <1>7, <1>8, RetryLedger

\* A TXT record deleted: those left in the zone are still to be deleted.
LEMMA DeleteTxtLedger ==
  ASSUME RInv, RInv', Ledger, NEW w \in Workers, DeleteTxt(w)
  PROVE  Ledger'
<1> SUFFICES ASSUME NEW k, k = job[w].key  PROVE Ledger'
  OBVIOUS
<1>1. Steps(w, k)
  BY WorkSteps DEF Work, CleansUp
<1>2. pc[w] = "deleteTxt" /\ "deleteTxt" \in CleanupSites
  BY DEF DeleteTxt, At, CleanupSites
<1>3. PICK t \in job[w].todo :
        LET j == [job[w] EXCEPT !.todo = job[w].todo \ {t}]
            allowed == dns[t[1]].txt = j.key
            new == [dns EXCEPT ![t[1]] = [dns[t[1]] EXCEPT !.txt = None]]
        IN  \/ /\ Answers(allowed, new)
               /\ IF j.todo = {} THEN NextZone(w, j) ELSE Goto(w, "deleteTxt", j)
            \/ Fails(w, allowed, new) /\ Finish(w, "err")
  BY DEF DeleteTxt
<1> DEFINE j == [job[w] EXCEPT !.todo = job[w].todo \ {t}]
           new == [dns EXCEPT ![t[1]] = [dns[t[1]] EXCEPT !.txt = None]]
<1>4. job[w] \in Jobs /\ k \in Keys
  BY <1>2, AtCleanupLedger
<1>5. j \in Jobs /\ j.key = k /\ j.zones = job[w].zones /\ j.zone = job[w].zone /\ j.todo = job[w].todo \ {t}
  BY <1>4 DEF Jobs
<1>6. CASE dns' = new /\ (IF j.todo = {} THEN NextZone(w, j) ELSE Goto(w, "deleteTxt", j))
  <2>1. t[1] \in Hostnames /\ dns \in DnsType /\ dns[t[1]] \in RecordSets
    BY <1>4 DEF Jobs, RInv, OwnTypeOK, DnsType
  <2>2. dns'[t[1]].txt = None /\ \A h \in Hostnames \ {t[1]} : dns'[h] = dns[h]
    BY <1>6, <2>1 DEF DnsType, RecordSets
  <2> HIDE DEF j
  <2>3. \A r \in RecordsOf(k)' : r \in RecordsOf(k) /\ r[1] # t[1]
    BY <1>4, <2>2, NullAssumption DEF RecordsOf
  <2>4. ~Waiting(k) =>
          /\ ~Wanted(cache[k])
          /\ Unwanted(cache[k]) =>
               \A r \in RecordsOf(k)' :
                 /\ ZoneOf[r[1]] \in j.zones \union {j.zone}
                 /\ ZoneOf[r[1]] = j.zone => \E u \in j.todo : u[1] = r[1]
    <3> SUFFICES ASSUME ~Waiting(k)
                 PROVE  /\ ~Wanted(cache[k])
                        /\ Unwanted(cache[k]) =>
                             \A r \in RecordsOf(k)' :
                               /\ ZoneOf[r[1]] \in j.zones \union {j.zone}
                               /\ ZoneOf[r[1]] = j.zone => \E u \in j.todo : u[1] = r[1]
      OBVIOUS
    <3>1. /\ ~Wanted(cache[k])
          /\ Unwanted(cache[k]) => CleanedUp("deleteTxt", job[w], RecordsOf(k))
      BY <1>2, AtCleanupLedger
    <3> QED BY <1>5, <2>3, <3>1 DEF CleanedUp
  <2>5. CASE j.todo = {} /\ NextZone(w, j)
    <3>1. ~Waiting(k) => /\ ~Wanted(cache[k])
                         /\ Unwanted(cache[k]) => \A r \in RecordsOf(k)' : ZoneOf[r[1]] \in j.zones
      BY <2>4, <2>5
    <3> QED BY <1>1, <1>5, <2>5, <3>1, NextZoneLedger
  <2>6. CASE Goto(w, "deleteTxt", j)
    <3>1. ~Waiting(k) => /\ ~Wanted(cache[k])
                         /\ Unwanted(cache[k]) => CleanedUp("deleteTxt", j, RecordsOf(k)')
      BY <1>2, <2>4 DEF CleanedUp
    <3> QED BY <1>1, <1>2, <1>5, <2>6, <3>1, CleaningLedger
  <2> QED BY <1>6, <2>5, <2>6
<1>7. CASE Finish(w, "err")
  BY <1>1, <1>7, RetryLedger
<1> QED BY <1>3, <1>6, <1>7 DEF Answers

-----------------------------------------------------------------------------
(* Hosted zones *)

\* Where a worker goes; the others stay.
LEMMA Moves ==
  ASSUME RInv, NEW w \in Workers
  PROVE  /\ \A site, j : Goto(w, site, j) =>
              /\ pc'[w] = site /\ job'[w] = j
              /\ \A v \in Workers \ {w} : pc'[v] = pc[v] /\ job'[v] = job[v]
         /\ \A res : Finish(w, res) =>
              /\ pc'[w] = "idle"
              /\ \A v \in Workers \ {w} : pc'[v] = pc[v] /\ job'[v] = job[v]
BY DEF RInv, OwnTypeOK, Goto, Finish

\* From the loop over the status hostnames,
LEMMA EnsureFromMoves ==
  ASSUME RInv, NEW w \in Workers
  PROVE  \A j, i : EnsureFrom(w, j, i) =>
           /\ pc'[w] \in {"idle", "list"}
           /\ \A v \in Workers \ {w} : pc'[v] = pc[v] /\ job'[v] = job[v]
<1> SUFFICES ASSUME NEW j, NEW i, EnsureFrom(w, j, i)
             PROVE  /\ pc'[w] \in {"idle", "list"}
                    /\ \A v \in Workers \ {w} : pc'[v] = pc[v] /\ job'[v] = job[v]
  OBVIOUS
<1>1. (\E res : Finish(w, res)) \/ \E j2 : Goto(w, "list", j2)
  BY DEF EnsureFrom
<1> QED BY <1>1, Moves

\* from a hostname that is done,
LEMMA NextNameMoves ==
  ASSUME RInv, NEW w \in Workers
  PROVE  \A j : NextName(w, j) =>
           /\ pc'[w] \in {"idle", "list", "findZone"}
           /\ \A v \in Workers \ {w} : pc'[v] = pc[v] /\ job'[v] = job[v]
BY Moves, EnsureFromMoves DEF NextName

\* and from a zone that is done.
LEMMA NextZoneMoves ==
  ASSUME RInv, NEW w \in Workers
  PROVE  \A j : NextZone(w, j) =>
           /\ pc'[w] \in {"idle", "ownedA"}
           /\ \A v \in Workers \ {w} : pc'[v] = pc[v] /\ job'[v] = job[v]
BY Moves DEF NextZone

\* A TXT record is created only where GetHostedZone found a zone.
LEMMA PlacedKept ==
  ASSUME RInv, RInv', Placed, [Next]_vars
  PROVE  Placed'
<1>1. CASE UNCHANGED <<pc, job, dns>>
  BY <1>1 DEF Placed
<1>2. CASE Crash
  BY <1>2 DEF Crash, Restarted, Placed
<1>3. ASSUME NEW w \in Workers, pc'[w] \notin {"listRecords", "createTxt"},
             \A v \in Workers \ {w} : pc'[v] = pc[v] /\ job'[v] = job[v]
      PROVE  \A v \in Workers : pc'[v] \in {"listRecords", "createTxt"} =>
               ZoneOf[Head(job'[v].names)] # None
  BY <1>3 DEF Placed
<1>4. ASSUME NEW w \in Workers, NEW k \in Keys, Take(w, k)
      PROVE  Placed'
  <2>1. /\ pc' = [pc EXCEPT ![w] = "read"] /\ dns' = dns
        /\ \A v \in Workers \ {w} : job'[v] = job[v]
    BY <1>4 DEF Take, RInv, OwnTypeOK
  <2> QED BY <1>3, <2>1 DEF RInv, OwnTypeOK, Placed
<1>5. ASSUME NEW w \in Workers, Work(w)
      PROVE  Placed'
  <2>1. /\ \A v \in Workers \ {w} : pc'[v] = pc[v] /\ job'[v] = job[v]
        /\ pc'[w] \in {"listRecords", "createTxt"} =>
             ZoneOf[Head(job[w].names)] # None /\ job'[w] = job[w]
    <3>1. CASE Read(w)
      <4>1. (\E j : Goto(w, "listZones", j)) \/ \E j : EnsureFrom(w, j, 1)
        BY <3>1 DEF Read
      <4> QED BY <4>1, Moves, EnsureFromMoves
    <3>2. CASE ListAccelerators(w) \/ ListTags(w)
      <4>1. (\E res : Finish(w, res)) \/ (\E j : Goto(w, "tags", j)) \/ (\E j : Listed(w, j))
        BY <3>2 DEF ListAccelerators, ListTags
      <4>2. ASSUME NEW j, Listed(w, j)
            PROVE  \/ Finish(w, "after")
                   \/ \E j2 : Goto(w, "findZone", j2)
                   \/ EnsureFrom(w, j, j.i + 1)
        BY <4>2 DEF Listed
      <4> QED BY <4>1, <4>2, Moves, EnsureFromMoves
    <3>3. CASE FindZone(w)
      BY <3>3, Moves DEF FindZone, Answers
    <3>4. CASE ListRecords(w)
      <4>1. pc[w] = "listRecords"
        BY <3>4 DEF ListRecords, At
      <4> QED BY <1>5, <3>4, <4>1, Moves, NextNameMoves DEF ListRecords, Placed
    <3>5. CASE CreateTxt(w) \/ CreateA(w) \/ UpsertA(w)
      <4>1. \/ \E res : Finish(w, res)
            \/ \E j : Goto(w, "createA", j)
            \/ \E j : NextName(w, j)
        BY <3>5 DEF CreateTxt, CreateA, UpsertA
      <4> QED BY <4>1, Moves, NextNameMoves
    <3>6. CASE CleansUp(w)
      <4>1. CASE ListZones(w) \/ FindOwnedA(w) \/ FindOwnedTxt(w)
        <5>1. \/ \E res : Finish(w, res)
              \/ \E j : Goto(w, "ownedTxt", j) \/ Goto(w, "deleteA", j) \/ Goto(w, "deleteTxt", j)
              \/ \E j : NextZone(w, j)
          BY <4>1 DEF ListZones, FindOwnedA, FindOwnedTxt
        <5> QED BY <5>1, Moves, NextZoneMoves
      <4>2. CASE DeleteA(w)
        <5>1. \/ \E res : Finish(w, res)
              \/ \E j : Goto(w, "ownedTxt", j) \/ Goto(w, "deleteA", j)
          BY <4>2 DEF DeleteA
        <5> QED BY <5>1, Moves
      <4>3. CASE DeleteTxt(w)
        <5>1. \/ \E res : Finish(w, res)
              \/ \E j : Goto(w, "deleteTxt", j)
              \/ \E j : NextZone(w, j)
          BY <4>3 DEF DeleteTxt
        <5> QED BY <5>1, Moves, NextZoneMoves
      <4> QED BY <3>6, <4>1, <4>2, <4>3 DEF CleansUp
    <3> QED BY <1>5, <3>1, <3>2, <3>3, <3>4, <3>5, <3>6 DEF Work, Ensures
  <2>2. \A h \in Hostnames : dns'[h].txt \in Keys => ZoneOf[h] # None
    <3>1. CASE dns' = dns
      BY <3>1 DEF Placed
    <3>2. CASE CreateTxt(w)
      <4>1. /\ dns \in DnsType /\ pc[w] = "createTxt"
            /\ dns' \in {dns, [dns EXCEPT ![Head(job[w].names)].txt = job[w].key]}
        BY <3>2 DEF CreateTxt, At, Answers, Fails, RInv, OwnTypeOK, DnsType
      <4> QED BY <1>5, <4>1 DEF Placed, DnsType
    <3>3. CASE dns' # dns /\ ~CreateTxt(w)
      <4>1. \A h \in Hostnames : dns'[h].txt \in {dns[h].txt, None}
        <5> USE DEF Answers, Fails
        <5> SUFFICES ASSUME NEW g \in Hostnames  PROVE dns'[g].txt \in {dns[g].txt, None}
          OBVIOUS
        <5>0. dns \in DnsType /\ dns[g] \in RecordSets
          BY DEF RInv, OwnTypeOK, DnsType
        <5>1. CASE CreateA(w) \/ UpsertA(w)
          <6>1. \E h : dns' \in {dns, [dns EXCEPT ![h].a = job[w].arn]}
            BY <5>1 DEF CreateA, UpsertA
          <6> QED BY <5>0, <6>1 DEF DnsType, RecordSets
        <5>2. CASE DeleteA(w)
          <6>1. \E h : dns' \in {dns, [dns EXCEPT ![h].a = None]}
            BY <5>2 DEF DeleteA
          <6> QED BY <5>0, <6>1 DEF DnsType, RecordSets
        <5>3. CASE DeleteTxt(w)
          <6>1. \E h : dns' \in {dns, [dns EXCEPT ![h].txt = None]}
            BY <5>3 DEF DeleteTxt
          <6> QED BY <5>0, <6>1 DEF DnsType, RecordSets
        <5> QED BY <1>5, <3>3, <5>1, <5>2, <5>3 DEF Work, Ensures, CleansUp, Read, ListAccelerators,
                  ListTags, FindZone, ListRecords, ListZones, FindOwnedA, FindOwnedTxt
      <4> QED BY <4>1, NullAssumption DEF Placed
    <3> QED BY <3>1, <3>2, <3>3
  <2> QED BY <2>1, <2>2 DEF Placed
<1> QED BY <1>1, <1>2, <1>4, <1>5 DEF Next, vars, Change, Deliver, AcceleratorChanges

-----------------------------------------------------------------------------
(* The theorems *)

\* At the start no object is there, and no record is an object's.
LEMMA InitRestInv == Init => RestInv
<1> SUFFICES ASSUME Init  PROVE RestInv
  OBVIOUS
<1>1. \A h \in Hostnames : dns[h].txt \notin Keys
  BY FirstDnsAssumption, NullAssumption DEF Init
<1>2. \A k \in Keys : Settled(cache[k], RecordsOf(k))
  BY <1>1 DEF Init, Settled, Wanted, RecordsOf
<1>3. Ledger
  BY <1>2 DEF Init, Ledger, Holds
<1>4. Told
  BY DEF Init, Told
<1>5. Placed
  BY <1>1 DEF Init, Placed
<1> QED BY <1>3, <1>4, <1>5 DEF RestInv

\* Every call of ensureRoute53 keeps the ledger.
LEMMA EnsuresLedger ==
  ASSUME RInv, RInv', Ledger, NEW w \in Workers, Ensures(w)
  PROVE  Ledger'
BY ListAcceleratorsLedger, ListTagsLedger, FindZoneLedger, ListRecordsLedger,
   CreateTxtLedger, AliasLedger DEF Ensures

\* So does every call of CleanupRecordSet.
LEMMA CleansUpLedger ==
  ASSUME RInv, RInv', RestInv, NEW w \in Workers, CleansUp(w)
  PROVE  Ledger'
BY ListZonesLedger, FindOwnedALedger, DeleteALedger, FindOwnedTxtLedger, DeleteTxtLedger
   DEF CleansUp, RestInv

\* Steps of somebody else keep RestInv,
LEMMA ElsewhereRestInv == RInv /\ RestInv /\ Elsewhere => RestInv'
<1> SUFFICES ASSUME RInv, RestInv, Elsewhere  PROVE RestInv'
  OBVIOUS
<1>1. Told' /\ Ledger'
  BY ToldElsewhere, AsideLedger DEF RestInv, Elsewhere
<1>2. Placed'
  BY DEF RestInv, Placed, Elsewhere
<1> QED BY <1>1, <1>2 DEF RestInv

\* and so do all others.
LEMMA NextRestInv == RInv /\ RInv' /\ RestInv /\ [Next]_vars => RestInv'
<1> SUFFICES ASSUME RInv, RInv', RestInv, [Next]_vars  PROVE RestInv'
  OBVIOUS
<1>1. CASE Elsewhere
  BY <1>1, ElsewhereRestInv
<1>2. ASSUME NEW w \in Workers, Work(w)
      PROVE  Ledger'
  BY <1>2, ReadLedger, EnsuresLedger, CleansUpLedger DEF Work, RestInv
<1>3. ASSUME UNCHANGED vars  PROVE Ledger'
  BY <1>3, AsideLedger DEF vars, RestInv
<1>4. ASSUME NEW k \in Keys, Deliver(k)
      PROVE  Ledger'
  BY <1>4, DeliverLedger DEF RestInv
<1>5. ASSUME NEW w \in Workers, NEW k \in Keys, Take(w, k)
      PROVE  Ledger'
  BY <1>5, TakeLedger DEF RestInv
<1>6. ASSUME Crash  PROVE Ledger'
  BY <1>6, CrashLedger
<1>7. Told' /\ Placed'
  BY ToldKept, PlacedKept DEF RestInv
<1> QED BY <1>1, <1>2, <1>3, <1>4, <1>5, <1>6, <1>7, ChangeElsewhere DEF Next, RestInv

\* The ledger holds in every reachable state.
THEOREM AccountsKept == Spec => []RestInv
BY Inductive, InitRestInv, NextRestInv, PTL DEF Spec

\* A state at rest: no worker has a key, no key waits, the cache is up to date.
LEMMA AtRest ==
  ASSUME RInv, RestInv, Quiet, NEW k \in Keys
  PROVE  cache[k] = obj[k] /\ Settled(obj[k], RecordsOf(k))
<1>1. cache[k] = obj[k]
  BY DEF RestInv, Told, Quiet
<1>2. ~Waiting(k)
  BY KindAssumption DEF Quiet, Drained, Waiting
<1>3. \A w \in Workers : ~Holds(w, k)
  BY KindAssumption DEF Quiet, Drained, RInv, NoStaleFinding, OneWorkerPerKey, Holds
<1> QED BY <1>1, <1>2, <1>3 DEF RestInv, Ledger

\* So every hostname an object asks for has its TXT and its alias,
LEMMA RestingRecords == RInv /\ RestInv => QuiescentRecords
<1> SUFFICES ASSUME RInv, RestInv, Quiet, NEW k \in Keys, NEW v, v = obj[k], v # NoObj,
                    v.eligible, v.dns # None, HasBalancer(v), NEW n \in DOMAIN v.dns
             PROVE  dns[v.dns[n]].txt = k /\ dns[v.dns[n]].a \in Arns
  BY DEF QuiescentRecords
<1>1. Complete(v.dns[n], RecordsOf(k))
  BY AtRest DEF Settled, Wanted
<1> QED BY <1>1 DEF Complete, RecordsOf

\* and an object that is gone or has no annotation owns no record.
LEMMA RestingNoRecords ==
  ASSUME ServicesEligible
  PROVE  RInv /\ RestInv => QuiescentNoRecords
<1> SUFFICES ASSUME RInv, RestInv, Quiet, spent.crashes = 0, NEW k \in Keys,
                    obj[k] = NoObj \/ obj[k].dns = None, NEW h \in Hostnames
             PROVE  dns[h].txt # k
  BY DEF QuiescentNoRecords
<1>1. RecordsOf(k) = {}
  BY AtRest, ServicesEligible DEF Settled, Unwanted
<1> QED BY <1>1 DEF RecordsOf

\* Once the controller is at rest every hostname an object asks for has its TXT
\* and its alias, whatever failed or crashed on the way.
THEOREM RecordsAtRest == Spec => []QuiescentRecords
BY RestingRecords, Inductive, AccountsKept, PTL

\* When every service is one the handlers look at and no process was stopped, an
\* object that is gone or has no annotation owns no record once the controller
\* is at rest.  Without either the event that starts the cleanup is not seen.
THEOREM NoRecordsAtRest ==
  ASSUME ServicesEligible
  PROVE  Spec => []QuiescentNoRecords
<1>1. RInv /\ RestInv => QuiescentNoRecords
  BY RestingNoRecords, ServicesEligible
<1> QED BY <1>1, Inductive, AccountsKept, PTL
=============================================================================
