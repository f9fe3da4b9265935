--------------------------- MODULE Route53Proofs ---------------------------
(***************************************************************************)
(* Proofs about Route53, for every set of objects, workers, hostnames,     *)
(* zones and accelerators and every bound on edits, faults and crashes:    *)
(* the inductive invariant RInv, from it that no alias is ever left        *)
(* without the TXT record that leads the controller back to it, and that   *)
(* a hostname's records are written only by the worker that has the object *)
(* its TXT names.                                                          *)
(***************************************************************************)
EXTENDS Route53, TLAPS

DnsType == [Hostnames -> RecordSets]
SpentType == [changes : Nat, faults : Nat, crashes : Nat]

RInv == OwnTypeOK /\ NoOrphanRecord /\ NoStaleFinding

\* What a step of a busy worker does to everything but its own pc and job.
Call(w) ==
  /\ w \in Workers /\ pc[w] # "idle"
  /\ UNCHANGED <<obj, watch, cache, acc>>
  /\ dns' \in DnsType /\ spent' \in SpentType
  /\ \A k \in Keys \ {job[w].key} : RecordsOf(k)' = RecordsOf(k)
  /\ NoOrphanRecord'

\* Users edit object k.
Edit(k, v) == obj' = [obj EXCEPT ![k] = v] /\ watch' = [watch EXCEPT ![k] = Append(watch[k], v)]

\* A step of somebody else, which at most edits an object.  The accelerators can
\* become anything.
Elsewhere ==
  /\ UNCHANGED <<cache, queue, pc, job, dns>>
  /\ spent' \in SpentType /\ spent'.crashes = spent.crashes
  /\ \/ UNCHANGED <<obj, watch>>
     \/ \E k \in Keys, v \in Versions \union {NoObj} : Edit(k, v)

-----------------------------------------------------------------------------
(* Control: what Goto and Finish keep *)

\* A worker that does not move keeps its findings if its object's records stay
\* the same.
LEMMA OthersKeep ==
  ASSUME RInv, NEW v \in Workers, pc[v] # "idle",
         pc'[v] = pc[v], job'[v] = job[v],
         \A k : k = job[v].key => RecordsOf(k)' = RecordsOf(k)
  PROVE  (/\ OnTask(pc[v], job[v])
          /\ FindingsHold(pc[v], job[v], RecordsOf(job[v].key)))'
<1>1. RecordsOf(job[v].key)' = RecordsOf(job[v].key)
  BY DEF RecordsOf
<1>2. OnTask(pc[v], job[v]) /\ FindingsHold(pc[v], job[v], RecordsOf(job[v].key))
  BY DEF RInv, NoStaleFinding
<1>3. OnTask(pc[v], job[v])'
  BY <1>2 DEF OnTask
<1>4. FindingsHold(pc[v], job[v], RecordsOf(job[v].key))'
  BY <1>1, <1>2 DEF FindingsHold
<1> QED BY <1>3, <1>4

\* A call after which worker w goes on with what it found out keeps RInv, if the
\* next call's findings hold.
LEMMA GotoKeeps ==
  ASSUME RInv, NEW w, Call(w), NEW site \in Sites, NEW j \in Jobs,
         j.key = job[w].key, Goto(w, site, j),
         OnTask(site, j), FindingsHold(site, j, RecordsOf(j.key)')
  PROVE  RInv'
<1> USE DEF RInv, Call
<1>1. site # "idle" /\ j # NoJob
  BY NullAssumption DEF Sites, EnsureSites, CleanupSites
<1>2. /\ pc' = [pc EXCEPT ![w] = site] /\ pc' \in [Workers -> Sites \union {"idle"}]
      /\ job' = [job EXCEPT ![w] = j] /\ job' \in [Workers -> Jobs \union {NoJob}]
      /\ queue' = queue
  BY DEF Goto, OwnTypeOK
<1>3. OwnTypeOK'
  BY <1>1, <1>2 DEF OwnTypeOK, DnsType, SpentType
<1>4. OneWorkerPerKey'
  BY <1>2 DEF NoStaleFinding, OneWorkerPerKey, OwnTypeOK
<1>5. ASSUME NEW v \in Workers, pc'[v] # "idle"
      PROVE  (/\ OnTask(pc[v], job[v])
              /\ FindingsHold(pc[v], job[v], RecordsOf(job[v].key)))'
  <2>1. CASE v = w
    <3>1. pc'[v] = site /\ job'[v] = j
      BY <1>2, <2>1 DEF OwnTypeOK
    <3>2. RecordsOf(job[v].key)' = RecordsOf(j.key)'
      BY <3>1 DEF RecordsOf
    <3>3. OnTask(pc[v], job[v])'
      BY <3>1 DEF OnTask
    <3>4. FindingsHold(pc[v], job[v], RecordsOf(job[v].key))'
      BY <3>1, <3>2 DEF FindingsHold
    <3> QED BY <3>3, <3>4
  <2>2. CASE v # w
    <3>1. pc'[v] = pc[v] /\ job'[v] = job[v] /\ pc[v] # "idle"
      BY <1>2, <1>5, <2>2 DEF OwnTypeOK
    <3>2. job[v].key \in Keys \ {job[w].key}
      BY <3>1, <2>2 DEF OwnTypeOK, NoStaleFinding, OneWorkerPerKey, Jobs
    <3>3. \A k : k = job[v].key => RecordsOf(k)' = RecordsOf(k)
      BY <3>2
    <3> QED BY <3>1, <3>3, OthersKeep
  <2> QED BY <2>1, <2>2
<1> QED BY <1>3, <1>4, <1>5 DEF NoStaleFinding

\* The end of a key keeps RInv: the queue lets go of it and so does the worker.
LEMMA FinishKeeps ==
  ASSUME RInv, NEW w, Call(w), NEW res, Finish(w, res)
  PROVE  RInv'
<1> USE DEF RInv, Call
<1> DEFINE k == job[w].key
           q == queue[QueueOf[w]]
<1>1. /\ pc' = [pc EXCEPT ![w] = "idle"] /\ pc' \in [Workers -> Sites \union {"idle"}]
      /\ job' = [job EXCEPT ![w] = NoJob] /\ job' \in [Workers -> Jobs \union {NoJob}]
      /\ queue' = [queue EXCEPT ![QueueOf[w]] = Finished(q, k, res)]
  BY DEF Finish, OwnTypeOK
<1>2. QueueOf[w] \in Kinds /\ q \in QueueOver(Keys) /\ k \in Keys
  BY KindAssumption DEF OwnTypeOK, Jobs
<1>3. /\ Finished(q, k, res) \in QueueOver(Keys)
      /\ Finished(q, k, res).processing = q.processing \ {k}
  BY <1>2 DEF Finished, Done, Add, QueueOver
<1>4. OwnTypeOK'
  <2>1. queue' \in [Kinds -> QueueOver(Keys)]
    BY <1>1, <1>3 DEF OwnTypeOK
  <2> QED BY <1>1, <2>1 DEF OwnTypeOK, DnsType, SpentType
<1>5. ASSUME NEW v \in Workers, pc'[v] # "idle"
      PROVE  /\ v # w /\ pc[v] # "idle" /\ pc'[v] = pc[v] /\ job'[v] = job[v]
             /\ job[v].key \in Keys \ {k}
  <2>1. v # w /\ pc'[v] = pc[v] /\ job'[v] = job[v] /\ pc[v] # "idle"
    BY <1>1, <1>5 DEF OwnTypeOK
  <2> QED BY <2>1 DEF OwnTypeOK, NoStaleFinding, OneWorkerPerKey, Jobs
<1>6. OneWorkerPerKey'
  <2>1. ASSUME NEW v \in Workers, pc'[v] # "idle"
        PROVE  job'[v].key \in queue'[QueueOf[v]].processing
    <3>1. job[v].key \in queue[QueueOf[v]].processing /\ QueueOf[v] \in Kinds
      BY <1>5, <2>1, KindAssumption DEF NoStaleFinding, OneWorkerPerKey
    <3> QED BY <1>1, <1>2, <1>3, <1>5, <2>1, <3>1 DEF OwnTypeOK
  <2> QED BY <1>5, <2>1 DEF NoStaleFinding, OneWorkerPerKey
<1>7. ASSUME NEW v \in Workers, pc'[v] # "idle"
      PROVE  (/\ OnTask(pc[v], job[v])
              /\ FindingsHold(pc[v], job[v], RecordsOf(job[v].key)))'
  <2>1. \A h : h = job[v].key => RecordsOf(h)' = RecordsOf(h)
    BY <1>5, <1>7
  <2> QED BY <1>5, <1>7, <2>1, OthersKeep
<1> QED BY <1>4, <1>6, <1>7 DEF NoStaleFinding

-----------------------------------------------------------------------------
(* Calls: what they do to the records *)

\* What a busy worker can count on.
LEMMA Busy ==
  ASSUME RInv, NEW w \in Workers, pc[w] # "idle"
  PROVE  /\ job[w] \in Jobs /\ job[w].key \in Keys
         /\ OnTask(pc[w], job[w])
         /\ FindingsHold(pc[w], job[w], RecordsOf(job[w].key))
BY DEF RInv, OwnTypeOK, NoStaleFinding, Jobs

\* An answered or failed call writes what it writes or nothing.
LEMMA CallWrites ==
  ASSUME RInv, NEW w, NEW allowed, NEW new, Answers(allowed, new) \/ Fails(w, allowed, new)
  PROVE  /\ dns' \in {dns, new} /\ spent' \in SpentType
         /\ dns' # dns => allowed
<1>1. dns' \in {dns, new} /\ (dns' # dns => allowed)
  BY DEF Answers, Fails
<1>2. spent' \in {spent, [spent EXCEPT !.faults = spent.faults + 1]}
  BY DEF Answers, Fails
<1>3. spent \in SpentType
  BY DEF RInv, OwnTypeOK, SpentType
<1>4. spent' \in SpentType
  BY <1>2, <1>3 DEF SpentType
<1> QED BY <1>1, <1>4

\* A call that only reads.
LEMMA ReadCall ==
  ASSUME RInv, NEW w \in Workers, pc[w] # "idle", UNCHANGED outside,
         dns' = dns, spent' \in SpentType
  PROVE  Call(w) /\ \A k : RecordsOf(k)' = RecordsOf(k)
<1>1. \A k : RecordsOf(k)' = RecordsOf(k)
  BY DEF RecordsOf
<1>2. NoOrphanRecord'
  BY DEF RInv, NoOrphanRecord
<1> QED BY <1>1, <1>2 DEF Call, outside, RInv, OwnTypeOK, DnsType

\* The same for one that may fail.
LEMMA AskCall ==
  ASSUME RInv, NEW w \in Workers, pc[w] # "idle", UNCHANGED outside,
         NEW allowed, Answers(allowed, dns) \/ Fails(w, allowed, dns)
  PROVE  Call(w) /\ \A k : RecordsOf(k)' = RecordsOf(k)
<1>1. dns' = dns /\ spent' \in SpentType
  BY CallWrites
<1> QED BY <1>1, ReadCall

\* A call that writes the record sets of one hostname, which are the worker's
\* object's or nobody's before and after, and leaves no alias without TXT.
LEMMA WriteCall ==
  ASSUME RInv, NEW w \in Workers, pc[w] # "idle", UNCHANGED outside,
         spent' \in SpentType, NEW h \in Hostnames, NEW r \in RecordSets,
         dns' \in {dns, [dns EXCEPT ![h] = r]},
         dns' # dns => /\ dns[h].txt \in {job[w].key, None}
                       /\ r.txt \in {job[w].key, None}
                       /\ r.a \in Arns => r.txt \in Keys
  PROVE  Call(w)
<1>1. dns \in DnsType /\ dns' \in DnsType
  BY DEF RInv, OwnTypeOK, DnsType
<1>2. \A g \in Hostnames : g # h => dns'[g] = dns[g]
  BY <1>1 DEF DnsType
<1>3. dns' # dns => dns'[h] = r
  BY <1>1 DEF DnsType
<1>4. \A k \in Keys \ {job[w].key} : RecordsOf(k)' = RecordsOf(k)
  <2>1. CASE dns' = dns
    BY <2>1 DEF RecordsOf
  <2>2. CASE dns' # dns
    <3>1. ASSUME NEW k \in Keys \ {job[w].key}, NEW g \in Hostnames
          PROVE  /\ dns'[g].txt = k <=> dns[g].txt = k
                 /\ dns[g].txt = k => dns'[g] = dns[g]
      BY <1>2, <1>3, <2>2, NullAssumption
    <3>2. ASSUME NEW k \in Keys \ {job[w].key}
          PROVE  /\ {g \in Hostnames : dns'[g].txt = k} = {g \in Hostnames : dns[g].txt = k}
                 /\ \A g \in {f \in Hostnames : dns[f].txt = k} : dns'[g].a = dns[g].a
      BY <3>1
    <3> QED BY <3>2 DEF RecordsOf
  <2> QED BY <2>1, <2>2
<1>5. NoOrphanRecord'
  BY <1>2, <1>3 DEF RInv, NoOrphanRecord
<1> QED BY <1>1, <1>4, <1>5 DEF Call, outside

-----------------------------------------------------------------------------
(* The continuations of the workflow *)

\* A job with what ensureRoute53 needs.
Ensuring(w, j) ==
  /\ j \in Jobs /\ j.key = job[w].key
  /\ j.view \in Versions /\ j.view.dns # None

\* The loop over the status hostnames keeps RInv.
LEMMA EnsureFromKeeps ==
  ASSUME RInv, NEW w, Call(w), NEW j, Ensuring(w, j), NEW i \in Nat, i >= 1,
         EnsureFrom(w, j, i)
  PROVE  RInv'
<1>1. CASE Finish(w, "ok") \/ Finish(w, "err")
  BY <1>1, FinishKeeps
<1>2. ASSUME NEW n \in i .. Len(j.view.lbs),
             Goto(w, "list", [j EXCEPT !.i = n, !.arn = None])
      PROVE  RInv'
  <2> DEFINE j2 == [j EXCEPT !.i = n, !.arn = None]
  <2>1. Len(j.view.lbs) \in Nat /\ DOMAIN j.view.lbs = 1 .. Len(j.view.lbs)
    BY VersionAssumption DEF Ensuring
  <2>2. n \in DOMAIN j.view.lbs /\ n \in Nat
    BY <2>1
  <2>3. j2 \in Jobs /\ j2.key = job[w].key /\ j2.view = j.view /\ j2.i = n
    BY <2>2 DEF Ensuring, Jobs
  <2>4. OnTask("list", j2)
    BY <2>2, <2>3 DEF OnTask, Ensuring
  <2>5. FindingsHold("list", j2, RecordsOf(j2.key)')
    BY DEF FindingsHold
  <2>6. "list" \in Sites
    BY DEF Sites, EnsureSites
  <2> HIDE DEF j2
  <2>7. Goto(w, "list", j2)
    BY <1>2 DEF j2
  <2> QED BY <2>3, <2>4, <2>5, <2>6, <2>7, GotoKeeps
<1> QED BY <1>1, <1>2 DEF EnsureFrom

\* Going on with a hostname keeps RInv.
LEMMA NameKeeps ==
  ASSUME RInv, NEW w, Call(w), NEW j, Ensuring(w, j), j.i \in DOMAIN j.view.lbs,
         j.arn \in Arns, j.names # <<>>, NEW site \in {"findZone", "listRecords", "createTxt"},
         Goto(w, site, j)
  PROVE  RInv'
<1>1. site \in Sites /\ OnTask(site, j)
  BY DEF OnTask, Sites, EnsureSites, Ensuring
<1>2. FindingsHold(site, j, RecordsOf(j.key)')
  BY DEF FindingsHold
<1> QED BY <1>1, <1>2, GotoKeeps DEF Ensuring

\* So does the end of a hostname.
LEMMA NextNameKeeps ==
  ASSUME RInv, NEW w, Call(w), NEW j, Ensuring(w, j), j.i \in DOMAIN j.view.lbs,
         j.arn \in Arns, j.names # <<>>, NextName(w, j)
  PROVE  RInv'
<1>1. CASE EnsureFrom(w, j, j.i + 1)
  <2>1. j.i + 1 \in Nat /\ j.i + 1 >= 1
    BY DEF Ensuring, Jobs
  <2> QED BY <1>1, <2>1, EnsureFromKeeps
<1>2. CASE Tail(j.names) # <<>> /\ Goto(w, "findZone", [j EXCEPT !.names = Tail(j.names)])
  <2> DEFINE j2 == [j EXCEPT !.names = Tail(j.names)]
  <2>1. Tail(j.names) \in Seq(Hostnames)
    BY DEF Ensuring, Jobs
  <2>2. /\ j2 \in Jobs /\ j2.key = j.key /\ j2.view = j.view /\ j2.i = j.i
        /\ j2.arn = j.arn /\ j2.names = Tail(j.names)
    BY <2>1 DEF Ensuring, Jobs
  <2> HIDE DEF j2
  <2>3. Goto(w, "findZone", j2)
    BY <1>2 DEF j2
  <2>4. Ensuring(w, j2)
    BY <2>2 DEF Ensuring
  <2> QED BY <1>2, <2>2, <2>3, <2>4, NameKeeps
<1> QED BY <1>1, <1>2 DEF NextName

\* The decision after the list keeps RInv.
LEMMA ListedKeeps ==
  ASSUME RInv, NEW w, Call(w), NEW j, Ensuring(w, j), j.i \in DOMAIN j.view.lbs,
         Listed(w, j)
  PROVE  RInv'
<1>1. CASE Finish(w, "after")
  BY <1>1, FinishKeeps
<1>2. CASE EnsureFrom(w, j, j.i + 1)
  <2>1. j.i + 1 \in Nat /\ j.i + 1 >= 1
    BY DEF Ensuring, Jobs
  <2> QED BY <1>2, <2>1, EnsureFromKeeps
<1>3. ASSUME NEW a \in Arns, j.view.dns # <<>>,
             Goto(w, "findZone", [j EXCEPT !.arn = a, !.names = j.view.dns])
      PROVE  RInv'
  <2> DEFINE j2 == [j EXCEPT !.arn = a, !.names = j.view.dns]
  <2>1. j.view.dns \in Seq(Hostnames)
    BY VersionAssumption DEF Ensuring
  <2>2. /\ j2 \in Jobs /\ j2.key = j.key /\ j2.view = j.view /\ j2.i = j.i
        /\ j2.arn = a /\ j2.names = j.view.dns
    BY <2>1 DEF Ensuring, Jobs
  <2> HIDE DEF j2
  <2>3. Goto(w, "findZone", j2)
    BY <1>3 DEF j2
  <2>4. Ensuring(w, j2)
    BY <2>2 DEF Ensuring
  <2> QED BY <1>3, <2>2, <2>3, <2>4, NameKeeps
<1> QED BY <1>1, <1>2, <1>3 DEF Listed

\* Going on with a zone keeps RInv.
LEMMA NextZoneKeeps ==
  ASSUME RInv, NEW w, Call(w), NEW j \in Jobs, j.key = job[w].key, NextZone(w, j)
  PROVE  RInv'
<1>1. CASE Finish(w, "ok")
  BY <1>1, FinishKeeps
<1>2. ASSUME NEW z \in j.zones,
             Goto(w, "ownedA", [j EXCEPT !.zones = j.zones \ {z}, !.zone = z, !.todo = {}])
      PROVE  RInv'
  <2> DEFINE j2 == [j EXCEPT !.zones = j.zones \ {z}, !.zone = z, !.todo = {}]
  <2>1. j2 \in Jobs /\ j2.key = j.key
    BY DEF Jobs
  <2>2. "ownedA" \in Sites /\ OnTask("ownedA", j2) /\ FindingsHold("ownedA", j2, RecordsOf(j2.key)')
    BY DEF OnTask, FindingsHold, Sites, EnsureSites, CleanupSites
  <2> HIDE DEF j2
  <2>3. Goto(w, "ownedA", j2)
    BY <1>2 DEF j2
  <2> QED BY <2>1, <2>2, <2>3, GotoKeeps
<1> QED BY <1>1, <1>2 DEF NextZone

-----------------------------------------------------------------------------
(* ProcessNextWorkItem and the list of accelerators *)

\* A worker that gets a key is the only one to have it.
LEMMA TakeKeeps ==
  ASSUME RInv, NEW w \in Workers, NEW k \in Keys, Take(w, k)
  PROVE  RInv'
<1> DEFINE j == [key |-> k, view |-> NoObj, i |-> 0, listed |-> {}, found |-> {},
                 arn |-> None, names |-> <<>>, zones |-> {}, zone |-> None, todo |-> {}]
           q == queue[QueueOf[w]]
<1>1. /\ pc[w] = "idle" /\ pc' = [pc EXCEPT ![w] = "read"]
      /\ job' = [job EXCEPT ![w] = j] /\ j \in Jobs /\ j.key = k
      /\ queue' = [queue EXCEPT ![QueueOf[w]] = Get(q, k)]
      /\ UNCHANGED <<obj, watch, cache, acc, dns, spent>>
      /\ KindOf[k] = QueueOf[w] /\ k \notin q.processing
  BY DEF Take, At, outside, Jobs, CanGet
<1>2. QueueOf[w] \in Kinds /\ q \in QueueOver(Keys)
  BY KindAssumption DEF RInv, OwnTypeOK
<1>3. Get(q, k) \in QueueOver(Keys) /\ Get(q, k).processing = q.processing \union {k}
  BY <1>2 DEF Get, QueueOver
<1>4. OwnTypeOK'
  <2>1. job' \in [Workers -> Jobs \union {NoJob}] /\ pc' \in [Workers -> Sites \union {"idle"}]
    BY <1>1 DEF RInv, OwnTypeOK, Sites
  <2>2. queue' \in [Kinds -> QueueOver(Keys)]
    BY <1>1, <1>3 DEF RInv, OwnTypeOK
  <2>3. j # NoJob
    BY <1>1, NullAssumption
  <2> HIDE DEF j, q
  <2>4. \A v \in Workers : (pc'[v] = "idle") <=> (job'[v] = NoJob)
    BY <1>1, <2>3 DEF RInv, OwnTypeOK
  <2> QED BY <1>1, <2>1, <2>2, <2>4 DEF RInv, OwnTypeOK
<1>5. NoOrphanRecord'
  BY <1>1 DEF RInv, NoOrphanRecord
<1> HIDE DEF j
<1>6. ASSUME NEW v \in Workers, v # w, pc'[v] # "idle"
      PROVE  /\ pc'[v] = pc[v] /\ job'[v] = job[v] /\ pc[v] # "idle"
             /\ job[v].key \in Keys \ {k}
             /\ job'[v].key \in queue'[QueueOf[v]].processing
  <2>1. pc'[v] = pc[v] /\ job'[v] = job[v] /\ pc[v] # "idle"
    BY <1>1, <1>6 DEF RInv, OwnTypeOK
  <2>2. /\ KindOf[job[v].key] = QueueOf[v] /\ QueueOf[v] \in Kinds
        /\ job[v].key \in queue[QueueOf[v]].processing /\ job[v].key \in Keys
    BY <2>1, KindAssumption DEF RInv, OwnTypeOK, NoStaleFinding, OneWorkerPerKey, Jobs
  <2>3. job[v].key # k
    BY <1>1, <2>2
  <2>4. job'[v].key \in queue'[QueueOf[v]].processing
    BY <1>1, <1>2, <1>3, <2>1, <2>2 DEF RInv, OwnTypeOK
  <2> QED BY <2>1, <2>2, <2>3, <2>4
<1>7. pc'[w] = "read" /\ job'[w] = j /\ k \in queue'[QueueOf[w]].processing
  BY <1>1, <1>2, <1>3 DEF RInv, OwnTypeOK
<1>8. OneWorkerPerKey'
  BY <1>1, <1>6, <1>7 DEF OneWorkerPerKey, RInv, NoStaleFinding
<1>9. ASSUME NEW v \in Workers, pc'[v] # "idle"
      PROVE  (/\ OnTask(pc[v], job[v])
              /\ FindingsHold(pc[v], job[v], RecordsOf(job[v].key)))'
  <2>1. CASE v = w
    BY <1>7, <2>1 DEF OnTask, FindingsHold, EnsureSites
  <2>2. CASE v # w
    <3>1. \A h : h = job[v].key => RecordsOf(h)' = RecordsOf(h)
      BY <1>1 DEF RecordsOf
    <3> QED BY <1>6, <1>9, <2>2, <3>1, OthersKeep
  <2> QED BY <2>1, <2>2
<1> QED BY <1>4, <1>5, <1>8, <1>9 DEF RInv, NoStaleFinding

\* Reading the cached object keeps RInv.
LEMMA ReadKeeps ==
  ASSUME RInv, NEW w \in Workers, Read(w)
  PROVE  RInv'
<1> DEFINE v == cache[job[w].key]
           j == [job[w] EXCEPT !.view = v]
<1>1. pc[w] = "read" /\ UNCHANGED <<outside, dns, spent>>
  BY DEF Read, At
<1>2. job[w] \in Jobs /\ job[w].key \in Keys
  BY <1>1, Busy
<1>3. v \in Versions \union {NoObj}
  BY <1>2 DEF RInv, OwnTypeOK
<1>4. j \in Jobs /\ j.key = job[w].key /\ j.view = v
  BY <1>2, <1>3 DEF Jobs
<1>5. Call(w)
  BY <1>1, ReadCall DEF RInv, OwnTypeOK, SpentType
<1>6. CASE Goto(w, "listZones", j)
  <2>1. "listZones" \in Sites /\ OnTask("listZones", j) /\ \A h : FindingsHold("listZones", j, RecordsOf(h)')
    BY DEF OnTask, FindingsHold, Sites, EnsureSites, CleanupSites
  <2> HIDE DEF j
  <2> QED BY <1>4, <1>5, <1>6, <2>1, GotoKeeps
<1>7. CASE v # NoObj /\ v.dns # None /\ EnsureFrom(w, j, 1)
  <2>1. Ensuring(w, j)
    BY <1>3, <1>4, <1>7 DEF Ensuring
  <2> HIDE DEF j, v
  <2> QED BY <1>5, <1>7, <2>1, EnsureFromKeeps
<1> QED BY <1>6, <1>7 DEF Read

\* What a worker in ensureRoute53 can count on.
LEMMA AtEnsure ==
  ASSUME RInv, NEW w \in Workers, pc[w] \in EnsureSites
  PROVE  /\ pc[w] # "idle" /\ Ensuring(w, job[w]) /\ job[w].key \in Keys
         /\ job[w].i \in DOMAIN job[w].view.lbs
         /\ pc[w] \in {"findZone", "listRecords", "createTxt", "createA", "upsertA"} =>
              job[w].arn \in Arns /\ job[w].names # <<>> /\ Head(job[w].names) \in Hostnames
<1>1. pc[w] # "idle"
  BY DEF EnsureSites
<1>2. OnTask(pc[w], job[w]) /\ job[w] \in Jobs /\ job[w].key \in Keys
  BY <1>1, Busy
<1>3. job[w].names \in Seq(Hostnames)
  BY <1>2 DEF Jobs
<1> QED BY <1>1, <1>2, <1>3 DEF OnTask, Ensuring

\* The list of accelerators.
LEMMA ListAcceleratorsKeeps ==
  ASSUME RInv, NEW w \in Workers, ListAccelerators(w)
  PROVE  RInv'
<1> DEFINE all == {a \in Arns : Exists(a)}
           j == [job[w] EXCEPT !.listed = all, !.found = {}]
<1>1. pc[w] = "list" /\ UNCHANGED outside
  BY DEF ListAccelerators, At
<1>2. pc[w] \in EnsureSites
  BY <1>1 DEF EnsureSites
<1>3. Call(w)
  BY <1>1, AskCall DEF ListAccelerators
<1>4. Ensuring(w, j) /\ j.i \in DOMAIN j.view.lbs
  BY <1>2, AtEnsure DEF Ensuring, Jobs
<1> HIDE DEF j
<1>5. CASE Listed(w, j)
  BY <1>3, <1>4, <1>5, ListedKeeps
<1>6. CASE Goto(w, "tags", j)
  <2>1. "tags" \in Sites /\ OnTask("tags", j) /\ \A h : FindingsHold("tags", j, RecordsOf(h)')
    BY <1>4 DEF OnTask, FindingsHold, Sites, EnsureSites, Ensuring
  <2> QED BY <1>3, <1>4, <1>6, <2>1, GotoKeeps DEF Ensuring
<1>7. CASE Finish(w, "err")
  BY <1>3, <1>7, FinishKeeps
<1> QED BY <1>5, <1>6, <1>7 DEF ListAccelerators, j

\* And their tags.
LEMMA ListTagsKeeps ==
  ASSUME RInv, NEW w \in Workers, ListTags(w)
  PROVE  RInv'
<1> DEFINE rest(a) == job[w].listed \ {a}
           found(a) == IF TagsMatch(acc[a], Host(job[w])) THEN job[w].found \union {a} ELSE job[w].found
           j(a) == [job[w] EXCEPT !.listed = rest(a), !.found = found(a)]
<1>1. pc[w] = "tags" /\ UNCHANGED outside
  BY DEF ListTags, At
<1>2. pc[w] \in EnsureSites
  BY <1>1 DEF EnsureSites
<1>3. PICK a \in job[w].listed :
        \/ /\ Answers(Exists(a), dns)
           /\ IF rest(a) = {} THEN Listed(w, j(a)) ELSE Goto(w, "tags", j(a))
        \/ Fails(w, Exists(a), dns) /\ Finish(w, "err")
  BY DEF ListTags
<1>4. Call(w)
  BY <1>1, <1>3, AskCall
<1>5. rest(a) \in SUBSET Arns /\ found(a) \in SUBSET Arns
  BY <1>2, AtEnsure DEF Ensuring, Jobs
<1>6. Ensuring(w, j(a)) /\ j(a).i \in DOMAIN j(a).view.lbs
  <2> HIDE DEF rest, found
  <2>1. job[w] \in Jobs /\ Ensuring(w, job[w]) /\ job[w].i \in DOMAIN job[w].view.lbs
    BY <1>2, AtEnsure DEF Ensuring
  <2>2. j(a) \in Jobs
    BY <1>5, <2>1 DEF Jobs
  <2>3. /\ j(a).key = job[w].key /\ j(a).view = job[w].view
        /\ j(a).i = job[w].i /\ j(a).names = job[w].names
    BY <2>1 DEF Jobs
  <2> QED BY <2>1, <2>2, <2>3 DEF Ensuring
<1> HIDE DEF j
<1>7. CASE Listed(w, j(a))
  BY <1>4, <1>6, <1>7, ListedKeeps
<1>8. CASE Goto(w, "tags", j(a))
  <2>1. "tags" \in Sites /\ OnTask("tags", j(a)) /\ \A h : FindingsHold("tags", j(a), RecordsOf(h)')
    BY <1>6 DEF OnTask, FindingsHold, Sites, EnsureSites, Ensuring
  <2> QED BY <1>4, <1>6, <1>8, <2>1, GotoKeeps DEF Ensuring
<1>9. CASE Finish(w, "err")
  BY <1>4, <1>9, FinishKeeps
<1> QED BY <1>3, <1>7, <1>8, <1>9

-----------------------------------------------------------------------------
(* The records of one hostname *)

\* A hostname of the worker's object, told from its records.
LEMMA Recorded ==
  ASSUME RInv, NEW k, NEW h, NEW a, <<h, a>> \in RecordsOf(k)
  PROVE  h \in Hostnames /\ dns[h].txt = k /\ dns[h].a = a
BY DEF RecordsOf

\* GetHostedZone.
LEMMA FindZoneKeeps ==
  ASSUME RInv, NEW w \in Workers, FindZone(w)
  PROVE  RInv'
<1>1. pc[w] = "findZone" /\ UNCHANGED outside /\ pc[w] \in EnsureSites
  BY DEF FindZone, At, EnsureSites
<1>2. Call(w)
  BY <1>1, AskCall, AtEnsure DEF FindZone
<1>3. CASE Goto(w, "listRecords", job[w])
  BY <1>1, <1>2, <1>3, AtEnsure, NameKeeps
<1>4. CASE Finish(w, "err")
  BY <1>2, <1>4, FinishKeeps
<1> QED BY <1>3, <1>4 DEF FindZone

\* The decision about a hostname.
LEMMA ListRecordsKeeps ==
  ASSUME RInv, NEW w \in Workers, ListRecords(w)
  PROVE  RInv'
<1> DEFINE j == job[w]
           h == Head(j.names)
<1>1. pc[w] = "listRecords" /\ UNCHANGED outside /\ pc[w] \in EnsureSites
  BY DEF ListRecords, At, EnsureSites
<1>2. Call(w) /\ \A k : RecordsOf(k)' = RecordsOf(k)
  BY <1>1, AskCall, AtEnsure DEF ListRecords
<1>3. /\ Ensuring(w, j) /\ j.i \in DOMAIN j.view.lbs
      /\ j.arn \in Arns /\ j.names # <<>> /\ h \in Hostnames
  BY <1>1, AtEnsure
<1>4. CASE Goto(w, "createTxt", j) \/ NextName(w, j)
  BY <1>2, <1>3, <1>4, NameKeeps, NextNameKeeps
<1>5. CASE OwnsAlias(j.key, h) /\ Goto(w, "upsertA", j)
  <2>1. "upsertA" \in Sites /\ OnTask("upsertA", j)
    BY <1>3 DEF OnTask, Sites, EnsureSites, Ensuring
  <2>2. <<h, dns[h].a>> \in RecordsOf(j.key) /\ dns[h].a \in Targets
    BY <1>3, <1>5 DEF OwnsAlias, RecordsOf
  <2>3. \A k : k = j.key => FindingsHold("upsertA", j, RecordsOf(k)')
    BY <1>2, <2>2 DEF FindingsHold
  <2> QED BY <1>2, <1>3, <1>5, <2>1, <2>3, GotoKeeps DEF Ensuring
<1>6. CASE Finish(w, "err")
  BY <1>2, <1>6, FinishKeeps
<1> QED BY <1>4, <1>5, <1>6 DEF ListRecords

\* The TXT record comes first: from then on the hostname is the object's.
LEMMA CreateTxtKeeps ==
  ASSUME RInv, NEW w \in Workers, CreateTxt(w)
  PROVE  RInv'
<1> DEFINE j == job[w]
           h == Head(j.names)
           r == [dns[h] EXCEPT !.txt = j.key]
           new == [dns EXCEPT ![h] = r]
<1>1. pc[w] = "createTxt" /\ UNCHANGED outside /\ pc[w] \in EnsureSites
  BY DEF CreateTxt, At, EnsureSites
<1>2. /\ Ensuring(w, j) /\ j.i \in DOMAIN j.view.lbs /\ pc[w] # "idle" /\ j.key \in Keys
      /\ j.arn \in Arns /\ j.names # <<>> /\ h \in Hostnames
  BY <1>1, AtEnsure
<1>3. dns \in DnsType /\ dns[h] \in RecordSets
  BY <1>2 DEF RInv, OwnTypeOK, DnsType
<1>4. r \in RecordSets /\ r.txt = j.key /\ r.a = dns[h].a
  BY <1>2, <1>3 DEF RecordSets
<1>5. \/ Answers(dns[h].txt = None, new) /\ Goto(w, "createA", j)
      \/ Fails(w, dns[h].txt = None, new) /\ Finish(w, "err")
  BY DEF CreateTxt
<1>6. dns' \in {dns, new} /\ spent' \in SpentType /\ (dns' # dns => dns[h].txt = None)
  BY <1>5, CallWrites
<1> HIDE DEF r
<1>7. Call(w)
  BY <1>1, <1>2, <1>4, <1>6, WriteCall
<1>8. CASE Answers(dns[h].txt = None, new) /\ Goto(w, "createA", j)
  <2>1. dns'[h] = r
    BY <1>2, <1>3, <1>8 DEF Answers, DnsType
  <2>2. r.a \in Targets \union {Plain, None}
    BY <1>4 DEF RecordSets
  <2>3. \A k : k = j.key => <<h, r.a>> \in RecordsOf(k)'
    BY <1>2, <1>4, <2>1 DEF RecordsOf
  <2>4. \A k : k = j.key => FindingsHold("createA", j, RecordsOf(k)')
    BY <2>2, <2>3 DEF FindingsHold
  <2>5. "createA" \in Sites /\ OnTask("createA", j)
    BY <1>2 DEF OnTask, Sites, EnsureSites, Ensuring
  <2> QED BY <1>2, <1>7, <1>8, <2>4, <2>5, GotoKeeps DEF Ensuring
<1>9. CASE Finish(w, "err")
  BY <1>7, <1>9, FinishKeeps
<1> QED BY <1>5, <1>8, <1>9

\* An alias is written where the TXT names the object.
LEMMA AliasCall ==
  ASSUME RInv, NEW w \in Workers, pc[w] \in {"createA", "upsertA"}, UNCHANGED outside,
         NEW allowed,
         LET new == [dns EXCEPT ![Head(job[w].names)].a = job[w].arn]
         IN  Answers(allowed, new) \/ Fails(w, allowed, new)
  PROVE  /\ Call(w) /\ Ensuring(w, job[w]) /\ job[w].i \in DOMAIN job[w].view.lbs
         /\ job[w].arn \in Arns /\ job[w].names # <<>>
<1> DEFINE j == job[w]
           h == Head(j.names)
           r == [dns[h] EXCEPT !.a = j.arn]
           new == [dns EXCEPT ![h] = r]
<1>1. pc[w] \in EnsureSites
  BY DEF EnsureSites
<1>2. /\ Ensuring(w, j) /\ j.i \in DOMAIN j.view.lbs /\ pc[w] # "idle" /\ j.key \in Keys
      /\ j.arn \in Arns /\ j.names # <<>> /\ h \in Hostnames
  BY <1>1, AtEnsure
<1>3. dns[h] \in RecordSets
  BY <1>2 DEF RInv, OwnTypeOK
<1>4. dns[h].txt = j.key
  <2>1. FindingsHold(pc[w], j, RecordsOf(j.key))
    BY <1>2, Busy
  <2>2. \E a : <<h, a>> \in RecordsOf(j.key)
    BY <2>1 DEF FindingsHold
  <2> QED BY <2>2, Recorded
<1>5. r \in RecordSets /\ r.txt = j.key
  BY <1>2, <1>3, <1>4 DEF RecordSets, Targets
<1>6. dns' \in {dns, new} /\ spent' \in SpentType
  BY CallWrites
<1> HIDE DEF r
<1>7. Call(w)
  BY <1>2, <1>4, <1>5, <1>6, WriteCall
<1> QED BY <1>2, <1>7

\* So are the alias that is created,
LEMMA CreateAKeeps ==
  ASSUME RInv, NEW w \in Workers, CreateA(w)
  PROVE  RInv'
<1>1. pc[w] \in {"createA", "upsertA"} /\ UNCHANGED outside
  BY DEF CreateA, At
<1>2. /\ Call(w) /\ Ensuring(w, job[w]) /\ job[w].i \in DOMAIN job[w].view.lbs
      /\ job[w].arn \in Arns /\ job[w].names # <<>>
  BY <1>1, AliasCall DEF CreateA
<1> QED BY <1>2, NextNameKeeps, FinishKeeps DEF CreateA

\* and the one that is updated.
LEMMA UpsertAKeeps ==
  ASSUME RInv, NEW w \in Workers, UpsertA(w)
  PROVE  RInv'
<1>1. pc[w] \in {"createA", "upsertA"} /\ UNCHANGED outside
  BY DEF UpsertA, At
<1>2. /\ Call(w) /\ Ensuring(w, job[w]) /\ job[w].i \in DOMAIN job[w].view.lbs
      /\ job[w].arn \in Arns /\ job[w].names # <<>>
  BY <1>1, AliasCall DEF UpsertA
<1> QED BY <1>2, NextNameKeeps, FinishKeeps DEF UpsertA

-----------------------------------------------------------------------------
(* CleanupRecordSet *)

\* The zones.
LEMMA ListZonesKeeps ==
  ASSUME RInv, NEW w \in Workers, ListZones(w)
  PROVE  RInv'
<1> DEFINE j == [job[w] EXCEPT !.zones = Zones]
<1>1. pc[w] = "listZones" /\ UNCHANGED outside
  BY DEF ListZones, At
<1>2. Call(w)
  BY <1>1, AskCall DEF ListZones
<1>3. j \in Jobs /\ j.key = job[w].key
  BY <1>1, Busy DEF Jobs
<1> HIDE DEF j
<1>4. CASE NextZone(w, j)
  BY <1>2, <1>3, <1>4, NextZoneKeeps
<1>5. CASE Finish(w, "err")
  BY <1>2, <1>5, FinishKeeps
<1> QED BY <1>4, <1>5 DEF ListZones, j

\* The aliases found in a zone are all the object has there.
LEMMA FindOwnedAKeeps ==
  ASSUME RInv, NEW w \in Workers, FindOwnedA(w)
  PROVE  RInv'
<1> DEFINE found == {<<h, dns[h].a>> : h \in {g \in InZone(job[w].zone) : OwnsAlias(job[w].key, g)}}
           j == [job[w] EXCEPT !.todo = found]
<1>1. pc[w] = "ownedA" /\ UNCHANGED outside
  BY DEF FindOwnedA, At
<1>2. Call(w) /\ \A k : RecordsOf(k)' = RecordsOf(k)
  BY <1>1, AskCall DEF FindOwnedA
<1>3. job[w] \in Jobs /\ job[w].key \in Keys
  BY <1>1, Busy
<1>4. /\ found \subseteq Hostnames \X Targets /\ found \subseteq RecordsOf(job[w].key)
      /\ RecordsOf(job[w].key) \intersect (InZone(job[w].zone) \X Targets) \subseteq found
  BY DEF InZone, OwnsAlias, RecordsOf
<1>5. CASE found = {} /\ Goto(w, "ownedTxt", job[w])
  <2>1. "ownedTxt" \in Sites /\ OnTask("ownedTxt", job[w])
    BY DEF OnTask, Sites, EnsureSites, CleanupSites
  <2>2. \A k : k = job[w].key => FindingsHold("ownedTxt", job[w], RecordsOf(k)')
    <3> HIDE DEF found
    <3> QED BY <1>2, <1>4, <1>5 DEF FindingsHold
  <2> QED BY <1>2, <1>3, <1>5, <2>1, <2>2, GotoKeeps
<1>6. CASE Goto(w, "deleteA", j)
  <2> HIDE DEF found
  <2>1. j \in Jobs /\ j.key = job[w].key /\ j.zone = job[w].zone /\ j.todo = found
    BY <1>3, <1>4 DEF Jobs
  <2> HIDE DEF j
  <2>2. "deleteA" \in Sites /\ OnTask("deleteA", j)
    BY DEF OnTask, Sites, EnsureSites, CleanupSites
  <2>3. \A k : k = j.key => FindingsHold("deleteA", j, RecordsOf(k)')
    BY <1>2, <1>4, <2>1 DEF FindingsHold
  <2> QED BY <1>2, <1>6, <2>1, <2>2, <2>3, GotoKeeps
<1>7. CASE Finish(w, "err")
  BY <1>2, <1>7, FinishKeeps
<1> QED BY <1>5, <1>6, <1>7 DEF FindOwnedA

\* An alias deleted: those still listed are still there, and there are no others.
LEMMA DeleteAKeeps ==
  ASSUME RInv, NEW w \in Workers, DeleteA(w)
  PROVE  RInv'
<1> DEFINE mine == RecordsOf(job[w].key)
           zone == InZone(job[w].zone) \X Targets
<1>1. pc[w] = "deleteA" /\ UNCHANGED outside
  BY DEF DeleteA, At
<1>2. /\ job[w] \in Jobs /\ job[w].key \in Keys /\ job[w].todo \subseteq mine
      /\ mine \intersect zone \subseteq job[w].todo
  BY <1>1, Busy DEF FindingsHold
<1>3. PICK t \in job[w].todo :
        LET j == [job[w] EXCEPT !.todo = job[w].todo \ {t}]
            allowed == dns[t[1]].a = t[2]
            new == [dns EXCEPT ![t[1]] = [dns[t[1]] EXCEPT !.a = None]]
        IN  \/ /\ Answers(allowed, new)
               /\ Goto(w, IF j.todo = {} THEN "ownedTxt" ELSE "deleteA", j)
            \/ Fails(w, allowed, new) /\ Finish(w, "err")
  BY DEF DeleteA
<1> DEFINE h == t[1]
           r == [dns[h] EXCEPT !.a = None]
           new == [dns EXCEPT ![h] = r]
           j == [job[w] EXCEPT !.todo = job[w].todo \ {t}]
<1>4. t \in mine /\ t \in Hostnames \X Targets
  BY <1>2 DEF Jobs
<1>5. h \in Hostnames /\ t = <<h, t[2]>> /\ dns[h].txt = job[w].key /\ dns[h].a = t[2]
  BY <1>4 DEF RecordsOf
<1>6. dns \in DnsType /\ dns[h] \in RecordSets
  BY <1>5 DEF RInv, OwnTypeOK, DnsType
<1>7. r \in RecordSets /\ r.txt = job[w].key /\ r.a = None
  BY <1>5, <1>6 DEF RecordSets
<1>8. dns' \in {dns, new} /\ spent' \in SpentType
  BY <1>3, CallWrites
<1> HIDE DEF r
<1>9. Call(w)
  <2>1. r.a \notin Arns
    BY <1>7, NullAssumption DEF Targets
  <2> QED BY <1>1, <1>5, <1>7, <1>8, <2>1, WriteCall
<1>10. CASE /\ dns' = new
            /\ Goto(w, IF j.todo = {} THEN "ownedTxt" ELSE "deleteA", j)
  <2>1. dns'[h] = r /\ \A g \in Hostnames \ {h} : dns'[g] = dns[g]
    BY <1>5, <1>6, <1>10 DEF DnsType
  <2>2. \A k : k = job[w].key =>
          RecordsOf(k)' = (mine \ {t}) \union {<<h, None>>}
    <3>1. \A k : k = job[w].key => RecordsOf(k)' \subseteq (mine \ {t}) \union {<<h, None>>}
      BY <1>5, <1>7, <2>1 DEF RecordsOf
    <3>2. \A k : k = job[w].key => (mine \ {t}) \union {<<h, None>>} \subseteq RecordsOf(k)'
      BY <1>5, <1>7, <2>1 DEF RecordsOf
    <3> QED BY <3>1, <3>2
  <2>3. None \notin Targets
    BY NullAssumption
  <2>4. /\ j \in Jobs /\ j.key = job[w].key /\ j.zone = job[w].zone
        /\ j.todo = job[w].todo \ {t}
    BY <1>2 DEF Jobs
  <2> HIDE DEF j
  <2>5. \A k : k = j.key => /\ RecordsOf(k)' \intersect zone \subseteq j.todo
                            /\ j.todo \subseteq RecordsOf(k)'
    <3> HIDE DEF mine
    <3> QED BY <1>2, <2>2, <2>3, <2>4
  <2>6. CASE j.todo = {} /\ Goto(w, "ownedTxt", j)
    <3>1. "ownedTxt" \in Sites /\ OnTask("ownedTxt", j)
      BY DEF OnTask, Sites, EnsureSites, CleanupSites
    <3>2. \A k : k = j.key => FindingsHold("ownedTxt", j, RecordsOf(k)')
      BY <2>4, <2>5, <2>6 DEF FindingsHold
    <3> QED BY <1>9, <2>4, <2>6, <3>1, <3>2, GotoKeeps
  <2>7. CASE Goto(w, "deleteA", j)
    <3>1. "deleteA" \in Sites /\ OnTask("deleteA", j)
      BY DEF OnTask, Sites, EnsureSites, CleanupSites
    <3>2. \A k : k = j.key => FindingsHold("deleteA", j, RecordsOf(k)')
      BY <2>4, <2>5 DEF FindingsHold
    <3> QED BY <1>9, <2>4, <2>7, <3>1, <3>2, GotoKeeps
  <2> QED BY <1>10, <2>6, <2>7
<1>11. CASE Finish(w, "err")
  BY <1>9, <1>11, FinishKeeps
<1> QED BY <1>3, <1>10, <1>11 DEF Answers, r

\* The TXT records found in a zone.
LEMMA FindOwnedTxtKeeps ==
  ASSUME RInv, NEW w \in Workers, FindOwnedTxt(w)
  PROVE  RInv'
<1> DEFINE found == {<<h, Foreign>> : h \in {g \in InZone(job[w].zone) : dns[g].txt = job[w].key}}
           j == [job[w] EXCEPT !.todo = found]
<1>1. pc[w] = "ownedTxt" /\ UNCHANGED outside
  BY DEF FindOwnedTxt, At
<1>2. Call(w) /\ \A k : RecordsOf(k)' = RecordsOf(k)
  BY <1>1, AskCall DEF FindOwnedTxt
<1>3. /\ job[w] \in Jobs /\ job[w].key \in Keys
      /\ RecordsOf(job[w].key) \intersect (InZone(job[w].zone) \X Targets) = {}
  BY <1>1, Busy DEF FindingsHold
<1>4. found \subseteq Hostnames \X Targets /\ \A t \in found : t[1] \in InZone(job[w].zone)
  BY DEF InZone, Targets
<1>5. CASE NextZone(w, job[w])
  BY <1>2, <1>3, <1>5, NextZoneKeeps
<1>6. CASE Goto(w, "deleteTxt", j)
  <2> HIDE DEF found
  <2>1. j \in Jobs /\ j.key = job[w].key /\ j.zone = job[w].zone /\ j.todo = found
    BY <1>3, <1>4 DEF Jobs
  <2> HIDE DEF j
  <2>2. "deleteTxt" \in Sites /\ OnTask("deleteTxt", j)
    BY DEF OnTask, Sites, EnsureSites, CleanupSites
  <2>3. \A k : k = j.key => FindingsHold("deleteTxt", j, RecordsOf(k)')
    BY <1>2, <1>3, <1>4, <2>1 DEF FindingsHold
  <2> QED BY <1>2, <1>6, <2>1, <2>2, <2>3, GotoKeeps
<1>7. CASE Finish(w, "err")
  BY <1>2, <1>7, FinishKeeps
<1> QED BY <1>5, <1>6, <1>7 DEF FindOwnedTxt

\* A TXT record goes only when no alias is left beside it.
LEMMA DeleteTxtKeeps ==
  ASSUME RInv, NEW w \in Workers, DeleteTxt(w)
  PROVE  RInv'
<1> DEFINE mine == RecordsOf(job[w].key)
           zone == InZone(job[w].zone) \X Targets
<1>1. pc[w] = "deleteTxt" /\ UNCHANGED outside
  BY DEF DeleteTxt, At
<1>2. /\ job[w] \in Jobs /\ job[w].key \in Keys /\ mine \intersect zone = {}
      /\ \A u \in job[w].todo : u[1] \in InZone(job[w].zone)
  BY <1>1, Busy DEF FindingsHold
<1>3. PICK t \in job[w].todo :
        LET j == [job[w] EXCEPT !.todo = job[w].todo \ {t}]
            allowed == dns[t[1]].txt = j.key
            new == [dns EXCEPT ![t[1]] = [dns[t[1]] EXCEPT !.txt = None]]
        IN  \/ /\ Answers(allowed, new)
               /\ IF j.todo = {} THEN NextZone(w, j) ELSE Goto(w, "deleteTxt", j)
            \/ Fails(w, allowed, new) /\ Finish(w, "err")
  BY DEF DeleteTxt
<1> DEFINE h == t[1]
           r == [dns[h] EXCEPT !.txt = None]
           new == [dns EXCEPT ![h] = r]
           j == [job[w] EXCEPT !.todo = job[w].todo \ {t}]
<1>4. /\ j \in Jobs /\ j.key = job[w].key /\ j.zone = job[w].zone
      /\ j.todo = job[w].todo \ {t}
  BY <1>2 DEF Jobs
<1>5. h \in Hostnames /\ h \in InZone(job[w].zone)
  BY <1>2 DEF InZone
<1>6. dns \in DnsType /\ dns[h] \in RecordSets
  BY <1>5 DEF RInv, OwnTypeOK, DnsType
<1>7. r \in RecordSets /\ r.txt = None /\ r.a = dns[h].a
  BY <1>6 DEF RecordSets
<1>8. dns' \in {dns, new} /\ spent' \in SpentType /\ (dns' # dns => dns[h].txt = job[w].key)
  BY <1>3, <1>4, CallWrites
<1> HIDE DEF r
<1>9. Call(w)
  <2>1. ASSUME dns[h].txt = job[w].key, dns[h].a \in Targets
        PROVE  FALSE
    <3>1. <<h, dns[h].a>> \in RecordsOf(job[w].key)
      BY <1>5, <2>1 DEF RecordsOf
    <3>2. <<h, dns[h].a>> \in InZone(job[w].zone) \X Targets
      BY <1>5, <2>1
    <3> QED BY <1>2, <3>1, <3>2
  <2>2. dns[h].txt = job[w].key => r.a \notin Arns
    BY <1>7, <2>1 DEF Targets
  <2> QED BY <1>1, <1>5, <1>7, <1>8, <2>2, WriteCall
<1>10. \A k : k = job[w].key => RecordsOf(k)' \subseteq mine
  <2>1. \A g \in Hostnames : dns'[g].txt = job[w].key => dns'[g] = dns[g]
    <3>1. \A g \in Hostnames : dns'[g] # dns[g] => g = h /\ dns'[g] = r
      BY <1>5, <1>6, <1>8 DEF DnsType
    <3> QED BY <1>2, <1>7, <3>1, NullAssumption
  <2> QED BY <2>1 DEF RecordsOf
<1> HIDE DEF j
<1>11. CASE NextZone(w, j)
  BY <1>4, <1>9, <1>11, NextZoneKeeps
<1>12. CASE Goto(w, "deleteTxt", j)
  <2>1. "deleteTxt" \in Sites /\ OnTask("deleteTxt", j)
    BY DEF OnTask, Sites, EnsureSites, CleanupSites
  <2>2. \A k : k = j.key => RecordsOf(k)' \intersect zone = {}
    BY <1>2, <1>4, <1>10
  <2>3. \A u \in j.todo : u[1] \in InZone(j.zone)
    BY <1>2, <1>4
  <2>4. \A k : k = j.key => FindingsHold("deleteTxt", j, RecordsOf(k)')
    BY <1>4, <2>2, <2>3 DEF FindingsHold
  <2> QED BY <1>4, <1>9, <1>12, <2>1, <2>4, GotoKeeps
<1>13. CASE Finish(w, "err")
  BY <1>9, <1>13, FinishKeeps
<1> QED BY <1>3, <1>11, <1>12, <1>13 DEF j

-----------------------------------------------------------------------------
(* The environment *)

\* A step that leaves the workers, the records and the keys in work alone.
LEMMA AsideKeeps ==
  ASSUME RInv, OwnTypeOK', UNCHANGED <<pc, job, dns>>,
         \A kind \in Kinds : queue[kind].processing \subseteq queue'[kind].processing
  PROVE  RInv'
<1>1. NoOrphanRecord'
  BY DEF RInv, NoOrphanRecord
<1>2. ASSUME NEW v \in Workers, pc[v] # "idle"
      PROVE  /\ job[v].key \in Keys /\ QueueOf[v] \in Kinds
             /\ job[v].key \in queue'[QueueOf[v]].processing
  <2>1. /\ job[v].key \in Keys /\ QueueOf[v] \in Kinds
        /\ job[v].key \in queue[QueueOf[v]].processing
    BY <1>2, KindAssumption DEF RInv, OwnTypeOK, NoStaleFinding, OneWorkerPerKey, Jobs
  <2> QED BY <2>1
<1>3. OneWorkerPerKey'
  BY <1>2 DEF RInv, NoStaleFinding, OneWorkerPerKey
<1>4. ASSUME NEW v \in Workers, pc'[v] # "idle"
      PROVE  (/\ OnTask(pc[v], job[v])
              /\ FindingsHold(pc[v], job[v], RecordsOf(job[v].key)))'
  <2>1. \A k : RecordsOf(k)' = RecordsOf(k)
    BY DEF RecordsOf
  <2> QED BY <1>4, <2>1, OthersKeep
<1> QED BY <1>1, <1>3, <1>4 DEF RInv, NoStaleFinding

\* An edit of an object, or what becomes of the accelerators, keeps RInv: neither
\* touches a worker or a record.
LEMMA ElsewhereKeeps ==
  ASSUME RInv, Elsewhere
  PROVE  RInv'
<1>1. CASE UNCHANGED <<obj, watch>>
  <2>1. OwnTypeOK'
    BY <1>1 DEF RInv, OwnTypeOK, Elsewhere, SpentType
  <2> QED BY <2>1, AsideKeeps DEF Elsewhere
<1>2. ASSUME NEW k \in Keys, NEW v \in Versions \union {NoObj}, Edit(k, v)
      PROVE  RInv'
  <2>1. obj' = [obj EXCEPT ![k] = v] /\ watch' = [watch EXCEPT ![k] = Append(watch[k], v)]
    BY <1>2 DEF Edit
  <2>2. Append(watch[k], v) \in Seq(Versions \union {NoObj})
    BY DEF RInv, OwnTypeOK
  <2>3. watch' \in [Keys -> Seq(Versions \union {NoObj})]
    BY <2>1, <2>2 DEF RInv, OwnTypeOK
  <2>4. obj' \in [Keys -> Versions \union {NoObj}]
    BY <2>1 DEF RInv, OwnTypeOK
  <2>5. OwnTypeOK'
    BY <2>3, <2>4 DEF RInv, OwnTypeOK, Elsewhere, SpentType
  <2> QED BY <2>5, AsideKeeps DEF Elsewhere
<1> QED BY <1>1, <1>2 DEF Elsewhere

\* Both are such steps.
LEMMA ChangeElsewhere ==
  ASSUME RInv, \/ \E k \in Keys, v \in Versions \union {NoObj} : Change(k, v)
               \/ \E a \in Arns, r \in Accelerators \union {NoAcc} : AcceleratorChanges(a, r)
  PROVE  Elsewhere
<1>1. spent' = [spent EXCEPT !.changes = spent.changes + 1]
  BY DEF Change, AcceleratorChanges
<1>2. spent \in SpentType
  BY DEF RInv, OwnTypeOK, SpentType
<1>3. spent' \in SpentType /\ spent'.crashes = spent.crashes
  BY <1>1, <1>2 DEF SpentType
<1> QED BY <1>3 DEF Change, AcceleratorChanges, Elsewhere, Edit

\* An informer event keeps RInv: it only adds a key that waits.
LEMMA DeliverKeeps ==
  ASSUME RInv, NEW k \in Keys, Deliver(k)
  PROVE  RInv'
<1> DEFINE s == watch[k]
           q == queue[KindOf[k]]
<1>1. PICK n \in {1, Len(s)} :
        /\ cache' = [cache EXCEPT ![k] = s[n]]
        /\ watch' = [watch EXCEPT ![k] = SubSeq(s, n + 1, Len(s))]
        /\ queue' \in {queue, [queue EXCEPT ![KindOf[k]] = Add(q, k)]}
  BY DEF Deliver, Notified
<1>2. s # <<>> /\ UNCHANGED <<obj, acc, pc, job, dns, spent>>
  BY DEF Deliver
<1>3. s \in Seq(Versions \union {NoObj})
  BY DEF RInv, OwnTypeOK
<1>4. n \in 1 .. Len(s)
  <2>1. Len(s) \in Nat /\ Len(s) # 0
    BY <1>2, <1>3
  <2> QED BY <2>1
<1>5. s[n] \in Versions \union {NoObj}
  BY <1>3, <1>4
<1>6. SubSeq(s, n + 1, Len(s)) \in Seq(Versions \union {NoObj})
  <2>1. \A m \in n + 1 .. Len(s) : s[m] \in Versions \union {NoObj}
    BY <1>3, <1>4
  <2> QED BY <1>3, <1>4, <2>1
<1>7. /\ KindOf[k] \in Kinds /\ q \in QueueOver(Keys)
      /\ Add(q, k) \in QueueOver(Keys) /\ Add(q, k).processing = q.processing
  <2>1. KindOf[k] \in Kinds /\ q \in QueueOver(Keys)
    BY KindAssumption DEF RInv, OwnTypeOK
  <2> HIDE DEF q
  <2> QED BY <2>1 DEF QueueOver, Add
<1>8. /\ queue' \in [Kinds -> QueueOver(Keys)]
      /\ \A kind \in Kinds : queue[kind].processing \subseteq queue'[kind].processing
  <2> HIDE DEF q
  <2>1. queue \in [Kinds -> QueueOver(Keys)]
    BY DEF RInv, OwnTypeOK
  <2>2. q = queue[KindOf[k]]
    BY DEF q
  <2> QED BY <1>1, <1>7, <2>1, <2>2
<1>9. cache' \in [Keys -> Versions \union {NoObj}]
  BY <1>1, <1>5 DEF RInv, OwnTypeOK
<1>10. watch' \in [Keys -> Seq(Versions \union {NoObj})]
  <2> HIDE DEF s
  <2> QED BY <1>1, <1>6 DEF RInv, OwnTypeOK
<1>11. OwnTypeOK'
  BY <1>2, <1>8, <1>9, <1>10 DEF RInv, OwnTypeOK
<1> QED BY <1>2, <1>8, <1>11, AsideKeeps

\* The end of the process keeps RInv: no worker has anything, the queues are new.
LEMMA CrashKeeps ==
  ASSUME RInv, Crash
  PROVE  RInv'
<1>1. /\ spent' = [spent EXCEPT !.crashes = spent.crashes + 1]
      /\ cache' = obj /\ watch' = [k \in Keys |-> <<>>]
      /\ pc' = [w \in Workers |-> "idle"] /\ job' = [w \in Workers |-> NoJob]
      /\ UNCHANGED <<obj, acc, dns>>
  BY DEF Crash, Restarted
<1>2. queue' \in [Kinds -> QueueOver(Keys)]
  BY DEF Crash, Restarted, EmptyQueue, QueueOver
<1>3. spent' \in SpentType
  <2>1. spent \in SpentType /\ spent' = [spent EXCEPT !.crashes = spent.crashes + 1]
    BY <1>1 DEF RInv, OwnTypeOK, SpentType
  <2> QED BY <2>1 DEF SpentType
<1>4. watch' \in [Keys -> Seq(Versions \union {NoObj})]
  BY <1>1
<1>5. OwnTypeOK'
  BY <1>1, <1>2, <1>3, <1>4 DEF RInv, OwnTypeOK, SpentType
<1>6. NoOrphanRecord'
  BY <1>1 DEF RInv, NoOrphanRecord
<1>7. \A w \in Workers : pc'[w] = "idle"
  BY <1>1
<1> QED BY <1>5, <1>6, <1>7 DEF RInv, NoStaleFinding, OneWorkerPerKey

-----------------------------------------------------------------------------
(* The theorems *)

\* RInv at the start: no record is an object's, no worker has a key.
LEMMA InitRInv == Init => RInv
<1> SUFFICES ASSUME Init  PROVE RInv
  OBVIOUS
<1>1. EmptyQueue \in QueueOver(Keys) /\ <<>> \in Seq(Versions \union {NoObj})
  BY DEF EmptyQueue, QueueOver
<1>2. dns \in [Hostnames -> [txt : {Foreign, None}, a : {Foreign, Plain, None}]]
  BY FirstDnsAssumption DEF Init
<1>3. dns \in [Hostnames -> RecordSets]
  BY <1>2 DEF RecordSets, Targets
<1>4. OwnTypeOK
  BY <1>1, <1>3 DEF Init, OwnTypeOK
<1>5. NoOrphanRecord
  BY <1>2, NullAssumption DEF NoOrphanRecord, Targets
<1>6. NoStaleFinding
  BY DEF Init, NoStaleFinding, OneWorkerPerKey
<1> QED BY <1>4, <1>5, <1>6 DEF RInv

\* Every call of ensureRoute53 keeps RInv.
LEMMA EnsuresKeeps ==
  ASSUME RInv, NEW w \in Workers, Ensures(w)
  PROVE  RInv'
BY ListAcceleratorsKeeps, ListTagsKeeps, FindZoneKeeps, ListRecordsKeeps,
   CreateTxtKeeps, CreateAKeeps, UpsertAKeeps DEF Ensures

\* Every call of CleanupRecordSet keeps RInv.
LEMMA CleansUpKeeps ==
  ASSUME RInv, NEW w \in Workers, CleansUp(w)
  PROVE  RInv'
BY ListZonesKeeps, FindOwnedAKeeps, DeleteAKeeps, FindOwnedTxtKeeps, DeleteTxtKeeps
   DEF CleansUp

\* Every step keeps RInv.
LEMMA NextRInv == RInv /\ [Next]_vars => RInv'
<1> SUFFICES ASSUME RInv, [Next]_vars  PROVE RInv'
  OBVIOUS
<1>1. CASE \/ \E k \in Keys, v \in Versions \union {NoObj} : Change(k, v)
           \/ \E a \in Arns, r \in Accelerators \union {NoAcc} : AcceleratorChanges(a, r)
  BY <1>1, ChangeElsewhere, ElsewhereKeeps
<1>2. CASE \E k \in Keys : Deliver(k)
  BY <1>2, DeliverKeeps
<1>3. CASE \E w \in Workers, k \in Keys : Take(w, k)
  BY <1>3, TakeKeeps
<1>4. CASE \E w \in Workers : Work(w)
  BY <1>4, ReadKeeps, EnsuresKeeps, CleansUpKeeps DEF Work
<1>5. CASE Crash
  BY <1>5, CrashKeeps
<1>6. CASE UNCHANGED vars
  <2>1. OwnTypeOK'
    BY <1>6 DEF vars, RInv, OwnTypeOK
  <2> QED BY <1>6, <2>1, AsideKeeps DEF vars
<1> QED BY <1>1, <1>2, <1>3, <1>4, <1>5, <1>6 DEF Next

\* RInv holds in every reachable state.
THEOREM Inductive == Spec => []RInv
BY InitRInv, NextRInv, PTL DEF Spec

\* Type correctness, for any objects, workers, hostnames and zones: no call of this
\* controller writes an accelerator, and all else is part of RInv.
THEOREM TypeCorrect == Spec => []TypeOK
<1> DEFINE AccTypeOK == acc \in [Arns -> Accelerators \union {NoAcc}]
<1>1. Init => AccTypeOK
  BY DEF Init
<1>2. AccTypeOK /\ [Next]_vars => AccTypeOK'
  <2>1. ASSUME NEW w \in Workers, Work(w)
        PROVE  acc' = acc
    BY <2>1 DEF Work, Read, Ensures, ListAccelerators, ListTags, FindZone, ListRecords,
       CreateTxt, CreateA, UpsertA, CleansUp, ListZones, FindOwnedA, DeleteA,
       FindOwnedTxt, DeleteTxt, At, outside
  <2>2. ASSUME AccTypeOK, NEW a \in Arns, NEW r \in Accelerators \union {NoAcc},
               AcceleratorChanges(a, r)
        PROVE  AccTypeOK'
    BY <2>2 DEF AcceleratorChanges
  <2> QED BY <2>1, <2>2 DEF Next, Change, Deliver, Take, At, outside, Crash, vars
<1>3. RInv /\ AccTypeOK => TypeOK
  BY DEF RInv, TypeOK
<1> HIDE DEF AccTypeOK
<1> QED BY <1>1, <1>2, <1>3, Inductive, PTL DEF Spec

\* No alias of an accelerator is ever without an object's TXT, whatever fails or
\* crashes between the two writes of a creation or a deletion.
THEOREM NoOrphan == Spec => []NoOrphanRecord
<1>1. RInv => NoOrphanRecord
  BY DEF RInv
<1> QED BY <1>1, Inductive, PTL

\* What a worker listed still holds when it writes: the workers of other objects
\* do not touch the records that name this one.
THEOREM NoStale == Spec => []NoStaleFinding
<1>1. RInv => NoStaleFinding
  BY DEF RInv
<1> QED BY <1>1, Inductive, PTL

-----------------------------------------------------------------------------
(* Writes *)

\* Worker w writes the records of one hostname, which name its object or nobody
\* before and after, and leaves a plain address alone.
WritesOwn(w) ==
  /\ pc[w] # "idle"
  /\ \E h \in Hostnames : \E r :
       /\ dns' = [dns EXCEPT ![h] = r]
       /\ dns[h].txt \in {job[w].key, None} /\ r.txt \in {job[w].key, None}
       /\ dns[h].a = Plain => r.a = Plain

\* Every call of a worker writes nothing or what is its own.
LEMMA Writes ==
  ASSUME RInv, NEW w \in Workers, Work(w), dns' # dns
  PROVE  WritesOwn(w)
<1> DEFINE h == Head(job[w].names)
<1> USE DEF Answers, Fails, At, WritesOwn
<1>1. ASSUME pc[w] \in {"createTxt", "createA", "upsertA"}
      PROVE  h \in Hostnames /\ dns[h] \in RecordSets
  BY <1>1, AtEnsure DEF RInv, OwnTypeOK, EnsureSites
<1>2. CASE \/ Read(w) \/ ListAccelerators(w) \/ ListTags(w) \/ FindZone(w) \/ ListRecords(w)
           \/ ListZones(w) \/ FindOwnedA(w) \/ FindOwnedTxt(w)
  BY <1>2 DEF Read, ListAccelerators, ListTags, FindZone, ListRecords, ListZones,
       FindOwnedA, FindOwnedTxt
<1>3. CASE CreateTxt(w)
  <2>1. pc[w] = "createTxt" /\ dns[h].txt = None
    BY <1>3 DEF CreateTxt
  <2>2. dns' = [dns EXCEPT ![h] = [dns[h] EXCEPT !.txt = job[w].key]]
    BY <1>3 DEF CreateTxt
  <2>3. LET r == [dns[h] EXCEPT !.txt = job[w].key] IN r.a = dns[h].a /\ r.txt = job[w].key
    BY <1>1, <2>1 DEF RecordSets
  <2> QED BY <1>1, <2>1, <2>2, <2>3
<1>4. CASE CreateA(w) \/ UpsertA(w)
  <2>1. pc[w] \in {"createA", "upsertA"} /\ (CreateA(w) => dns[h].a = None)
    BY <1>4 DEF CreateA, UpsertA
  <2>2. dns' = [dns EXCEPT ![h] = [dns[h] EXCEPT !.a = job[w].arn]]
    BY <1>4 DEF CreateA, UpsertA
  <2>3. dns[h].txt = job[w].key /\ (pc[w] = "upsertA" => dns[h].a \in Targets)
    BY <2>1, Busy DEF FindingsHold, RecordsOf
  <2>4. dns[h].a # Plain
    BY <1>4, <2>1, <2>3, NullAssumption DEF UpsertA
  <2>5. [dns[h] EXCEPT !.a = job[w].arn].txt = job[w].key
    BY <1>1, <2>1, <2>3 DEF RecordSets
  <2> QED BY <1>1, <2>1, <2>2, <2>3, <2>4, <2>5
<1>5. CASE DeleteA(w)
  <2>1. pc[w] = "deleteA" /\ job[w].todo \subseteq Hostnames \X Targets
        /\ job[w].todo \subseteq RecordsOf(job[w].key)
    BY <1>5, Busy DEF DeleteA, FindingsHold, Jobs
  <2>2. PICK t \in job[w].todo :
          /\ dns[t[1]].a = t[2]
          /\ dns' = [dns EXCEPT ![t[1]] = [dns[t[1]] EXCEPT !.a = None]]
    BY <1>5 DEF DeleteA
  <2>3. t[1] \in Hostnames /\ dns[t[1]].txt = job[w].key /\ dns[t[1]].a \in Targets
    BY <2>1, <2>2 DEF RecordsOf
  <2>4. dns[t[1]].a # Plain
    BY <2>3, NullAssumption
  <2>5. [dns[t[1]] EXCEPT !.a = None].txt = job[w].key
    BY <2>3 DEF RInv, OwnTypeOK, RecordSets
  <2> QED BY <2>1, <2>2, <2>3, <2>4, <2>5
<1>6. CASE DeleteTxt(w)
  <2>1. pc[w] = "deleteTxt" /\ job[w].todo \subseteq Hostnames \X Targets
    BY <1>6, Busy DEF DeleteTxt, Jobs
  <2>2. PICK t \in job[w].todo :
          /\ dns[t[1]].txt = job[w].key
          /\ dns' = [dns EXCEPT ![t[1]] = [dns[t[1]] EXCEPT !.txt = None]]
    BY <1>6, <2>1, Busy DEF DeleteTxt, Jobs
  <2>3. t[1] \in Hostnames /\ dns[t[1]] \in RecordSets
    BY <2>1, <2>2 DEF RInv, OwnTypeOK
  <2>4. LET r == [dns[t[1]] EXCEPT !.txt = None] IN r.a = dns[t[1]].a /\ r.txt = None
    BY <2>3 DEF RecordSets
  <2> QED BY <2>1, <2>2, <2>3, <2>4
<1> QED BY <1>2, <1>3, <1>4, <1>5, <1>6 DEF Work, Ensures, CleansUp

\* Records of a hostname that change are those of a worker's object, or nobody's.
LEMMA OwnersChange ==
  ASSUME RInv, NEW w \in Workers, Work(w), NEW h \in Hostnames, dns'[h] # dns[h]
  PROVE  /\ dns[h].txt # None =>
              \E v \in Workers : pc[v] # "idle" /\ job[v].key = dns[h].txt
         /\ dns[h].a = Plain => dns'[h].a = Plain
<1>1. pc[w] # "idle"
  BY Writes DEF WritesOwn
<1>2. PICK g \in Hostnames : \E r :
        /\ dns' = [dns EXCEPT ![g] = r]
        /\ dns[g].txt \in {job[w].key, None}
        /\ dns[g].a = Plain => r.a = Plain
  BY Writes DEF WritesOwn
<1>3. dns \in [Hostnames -> RecordSets]
  BY DEF RInv, OwnTypeOK
<1>4. g = h /\ dns[h].txt \in {job[w].key, None} /\ (dns[h].a = Plain => dns'[h].a = Plain)
  BY <1>2, <1>3
<1> QED BY <1>1, <1>4

\* A hostname's records change only while a worker has the object its TXT names;
\* somebody else's records and plain addresses never change.
THEOREM OwnerWritesRecords == Spec => OnlyOwnerWritesRecords
<1>1. ASSUME RInv, [Next]_vars, NEW h \in Hostnames, dns'[h] # dns[h]
      PROVE  /\ dns[h].txt # None =>
                  \E w \in Workers : pc[w] # "idle" /\ job[w].key = dns[h].txt
             /\ dns[h].a = Plain => dns'[h].a = Plain
  <2>1. PICK w \in Workers : Work(w)
    BY <1>1 DEF Next, vars, Change, Deliver, AcceleratorChanges, Take, Crash
  <2> QED BY <1>1, <2>1, OwnersChange
<1>2. RInv /\ [Next]_vars =>
        [\A h \in Hostnames :
           /\ dns'[h] # dns[h] /\ dns[h].txt # None =>
                \E w \in Workers : pc[w] # "idle" /\ job[w].key = dns[h].txt
           /\ dns[h].a = Plain => dns'[h].a = Plain]_vars
  BY <1>1
<1> QED BY <1>2, Inductive, PTL DEF Spec, OnlyOwnerWritesRecords

=============================================================================
