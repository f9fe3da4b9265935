------------------------- MODULE ControllersProofs -------------------------
(***************************************************************************)
(* Proofs about Controllers: each of the two controllers still does in one *)
(* process with the other what its own module says, so that what is proved *)
(* of it alone holds of the composition as well.                           *)
(*                                                                         *)
(* GP and RP are the modules that prove it, with the constants and the     *)
(* variables that Controllers gives to G and R; their theorems are cited   *)
(* by these names.                                                         *)
(***************************************************************************)
EXTENDS Controllers, TLAPS

GP == INSTANCE GlobalAcceleratorStaysProofs WITH
  FirstAccs <- [a \in Arns |-> NoAcc], MaxCrashes <- 0

RP == INSTANCE Route53TargetsProofs WITH
  Workers <- RecordWorkers, QueueOf <- RecordQueueOf,
  Accelerators <- G!Accelerators, AccEdits <- {},
  FaultSites <- RecordFaultSites, MaxFaults <- MaxRecordFaults, MaxCrashes <- 0,
  queue <- rqueue, pc <- rpc, job <- rjob, spent <- rspent

-----------------------------------------------------------------------------
(* The constants are as the two modules assume *)

\* The assumptions of GlobalAccelerator.
LEMMA AcceleratorConstants ==
  /\ KindOf \in [Keys -> GP!Kinds] /\ QueueOf \in [Workers -> GP!Kinds]
  /\ HostKind \in [LBs -> {"elb", "otherAws", "otherCloud"}]
  /\ \A v \in Versions : GP!IsVersion(v)
  /\ Edits \subseteq (Versions \union {NoObj}) \X (Versions \union {NoObj})
  /\ ClusterName \in Clusters
  /\ [a \in Arns |-> NoAcc] \in [Arns -> GP!Accelerators \union {NoAcc}]
  /\ \A a \in Arns : [b \in Arns |-> NoAcc][a] # NoAcc =>
       ~[b \in Arns |-> NoAcc][a].managed \/ [b \in Arns |-> NoAcc][a].cluster # ClusterName
  /\ NoObj \notin Versions
  /\ NoAcc \notin GP!Accelerators
  /\ NoJob \notin GP!Jobs
  /\ None \notin GP!Listeners \union Arns
  /\ MaxFaults \in Nat /\ MaxChanges \in Nat /\ 0 \in Nat
BY KindAssumption, HostAssumption, VersionAssumption, EditAssumption, ClusterAssumption,
   NullAssumption, BoundAssumption
   DEF G!Kinds, GP!Kinds, G!IsVersion, GP!IsVersion, G!Accelerators, GP!Accelerators,
       G!Jobs, GP!Jobs, G!Listeners, GP!Listeners, R!Targets

\* The assumptions of Route53.
LEMMA RecordConstants ==
  /\ KindOf \in [Keys -> RP!Kinds] /\ RecordQueueOf \in [RecordWorkers -> RP!Kinds]
  /\ HostKind \in [LBs -> {"elb", "otherAws", "otherCloud"}]
  /\ \A v \in Versions : /\ v.eligible \in BOOLEAN /\ v.lbs \in Seq(LBs)
                         /\ v.dns \in Seq(Hostnames) \union {None}
  /\ Edits \subseteq (Versions \union {NoObj}) \X (Versions \union {NoObj})
  /\ {} \subseteq (G!Accelerators \union {NoAcc}) \X (G!Accelerators \union {NoAcc})
  /\ \A r \in G!Accelerators : r.managed \in BOOLEAN /\ r.cluster \in Clusters /\ r.host \in LBs
  /\ ZoneOf \in [Hostnames -> Zones \union {None}]
  /\ FirstDns \in [Hostnames -> [txt : {Foreign, None}, a : {Foreign, Plain, None}]]
  /\ NoObj \notin Versions
  /\ NoAcc \notin G!Accelerators
  /\ NoJob \notin RP!Jobs
  /\ None \notin Keys \union RP!Targets \union Zones \union {Plain} \union Seq(Hostnames)
  /\ Foreign \notin Keys \union Arns
  /\ Plain \notin RP!Targets
  /\ MaxRecordFaults \in Nat /\ MaxChanges \in Nat /\ 0 \in Nat
BY KindAssumption, HostAssumption, VersionAssumption, EditAssumption, ZoneAssumption,
   FirstDnsAssumption, NullAssumption, BoundAssumption
   DEF G!Kinds, R!Kinds, RP!Kinds, G!IsVersion, G!Accelerators, R!Jobs, RP!Jobs,
       R!Targets, RP!Targets

-----------------------------------------------------------------------------
(* The steps of the Global Accelerator controller.  G and GP say the same  *)
(* of each: their definitions are the same once they are expanded.         *)

\* A call of one of its workers.
LEMMA SameWork == ASSUME NEW w, G!Work(w)  PROVE GP!Work(w)
BY DEF
   G!Add, GP!Add, G!Done, GP!Done, G!Requeues, GP!Requeues, G!Finished, GP!Finished,
   G!cluster, GP!cluster, G!Exists, GP!Exists, G!TagsMatch, GP!TagsMatch, G!Wanted,
   GP!Wanted, G!PortChanged, GP!PortChanged, G!ListenerChanged, GP!ListenerChanged,
   G!NewAccelerator, GP!NewAccelerator, G!Goto, GP!Goto, G!Finish, GP!Finish,
   G!Answers, GP!Answers, G!Fails, GP!Fails, G!At, GP!At, G!EnsureFrom, GP!EnsureFrom,
   G!Host, GP!Host, G!NextAccelerator, GP!NextAccelerator, G!Listed, GP!Listed,
   G!Updated, GP!Updated, G!Cleaned, GP!Cleaned, G!ReadObject, GP!ReadObject,
   G!DescribeLoadBalancer, GP!DescribeLoadBalancer, G!ListAccelerators,
   GP!ListAccelerators, G!ListTags, GP!ListTags, G!CreateAccelerator,
   GP!CreateAccelerator, G!AbortCreate, GP!AbortCreate, G!CreateListener,
   GP!CreateListener, G!CreateEndpointGroup, GP!CreateEndpointGroup,
   G!AcceleratorChanged, GP!AcceleratorChanged, G!UpdateAccelerator,
   GP!UpdateAccelerator, G!TagResource, GP!TagResource, G!GetListener, GP!GetListener,
   G!PutListener, GP!PutListener, G!GetEndpointGroup, GP!GetEndpointGroup,
   G!PutEndpointGroup, GP!PutEndpointGroup, G!DescribeAccelerator,
   GP!DescribeAccelerator, G!RelatedListener, GP!RelatedListener,
   G!RelatedEndpointGroup, GP!RelatedEndpointGroup, G!DeleteEndpointGroup,
   GP!DeleteEndpointGroup, G!DeleteListener, GP!DeleteListener, G!DisableAccelerator,
   GP!DisableAccelerator, G!PollAccelerator, GP!PollAccelerator, G!DeleteAccelerator,
   GP!DeleteAccelerator, G!Ensures, GP!Ensures, G!CleansUp, GP!CleansUp, G!Work,
   GP!Work

\* A worker takes a key.
LEMMA SameTake == ASSUME NEW w, NEW k, G!Take(w, k)  PROVE GP!Take(w, k)
BY DEF G!CanGet, GP!CanGet, G!Get, GP!Get, G!cluster, GP!cluster, G!At, GP!At,
   G!Take, GP!Take

\* An event.
LEMMA SameDeliver == ASSUME NEW k, G!Deliver(k)  PROVE GP!Deliver(k)
BY DEF G!Add, GP!Add, G!aws, GP!aws, G!Notifies, GP!Notifies, G!Deliver, GP!Deliver

\* An edit.
LEMMA SameChange == ASSUME NEW k, NEW v, G!Change(k, v)  PROVE GP!Change(k, v)
BY DEF G!aws, GP!aws, G!Change, GP!Change

\* What AWS does by itself.
LEMMA SameAws ==
  ASSUME (\E l \in LBs : G!LBActivate(l)) \/ (\E a \in Arns : G!AwsDeploys(a))
  PROVE  (\E l \in LBs : GP!LBActivate(l)) \/ (\E a \in Arns : GP!AwsDeploys(a))
BY DEF G!cluster, GP!cluster, G!Balancers, GP!Balancers, G!LBActivate, GP!LBActivate,
   G!AwsDeploys, GP!AwsDeploys

\* The start.
LEMMA SameInit == G!Init => GP!Init
BY DEF G!EmptyQueue, GP!EmptyQueue, G!Kinds, GP!Kinds, G!Balancers, GP!Balancers,
   G!Init, GP!Init

\* Every step of the composition is a step of the Global Accelerator controller,
\* or one it does not notice: the Route53 controller writes nothing of its own
\* state and no accelerator.
LEMMA AcceleratorStep == [Next]_vars => [G!Next]_G!vars
<1> SUFFICES ASSUME [Next]_vars  PROVE [G!Next]_G!vars
  OBVIOUS
<1>1. CASE \E k \in Keys : \E v \in Versions \union {NoObj} : Change(k, v)
  BY <1>1 DEF Change, G!Next
<1>2. CASE \E k \in Keys : Deliver(k) \/ TakeAccelerator(k)
  BY <1>2 DEF Deliver, TakeAccelerator, G!Next
<1>3. ASSUME NEW k \in Keys, TakeRecord(k)
      PROVE  UNCHANGED G!vars
  BY <1>3 DEF TakeRecord, R!Take, R!At, R!outside, accelerators, G!vars
<1>4. CASE AwsSettles
  BY <1>4 DEF AwsSettles, G!Next
<1>5. CASE \E w \in Workers : WorkAccelerator(w)
  BY <1>5 DEF WorkAccelerator, G!Next
<1>6. ASSUME NEW w, WorkRecord(w)
      PROVE  UNCHANGED G!vars
  BY <1>6 DEF WorkRecord, R!Work, R!Read, R!Ensures, R!ListAccelerators, R!ListTags,
     R!FindZone, R!ListRecords, R!CreateTxt, R!CreateA, R!UpsertA, R!CleansUp,
     R!ListZones, R!FindOwnedA, R!DeleteA, R!FindOwnedTxt, R!DeleteTxt, R!At,
     R!outside, accelerators, G!vars
<1>7. CASE UNCHANGED vars
  BY <1>7 DEF vars, accelerators, G!vars
<1> QED BY <1>1, <1>2, <1>3, <1>4, <1>5, <1>6, <1>7 DEF Next

\* And so is it one of GP.
LEMMA SameStep == [G!Next]_G!vars => [GP!Next]_GP!vars
<1> SUFFICES ASSUME [G!Next]_G!vars  PROVE [GP!Next]_GP!vars
  OBVIOUS
<1>1. CASE \E k \in Keys, v \in Versions \union {NoObj} : G!Change(k, v)
  BY <1>1, SameChange DEF GP!Next
<1>2. CASE \E k \in Keys : G!Deliver(k)
  BY <1>2, SameDeliver DEF GP!Next
<1>3. CASE (\E l \in LBs : G!LBActivate(l)) \/ (\E a \in Arns : G!AwsDeploys(a))
  BY <1>3, SameAws DEF GP!Next
<1>4. CASE \E w \in Workers, k \in Keys : G!Take(w, k)
  BY <1>4, SameTake DEF GP!Next
<1>5. CASE \E w \in Workers : G!Work(w)
  BY <1>5, SameWork DEF GP!Next
<1>6. CASE G!Crash
  BY <1>6 DEF G!Crash, GP!Crash, G!Notifies, GP!Notifies, G!EmptyQueue, GP!EmptyQueue,
     G!Kinds, GP!Kinds, G!aws, GP!aws, GP!Next
<1>7. CASE UNCHANGED G!vars
  BY <1>7 DEF G!vars, GP!vars
<1> QED BY <1>1, <1>2, <1>3, <1>4, <1>5, <1>6, <1>7 DEF G!Next

\* The composition implements GlobalAccelerator: whatever is proved of the Global
\* Accelerator controller alone holds of it beside the Route53 controller.
THEOREM ImplementsAccelerators == Spec => G!Spec
<1>1. Init => G!Init
  BY DEF Init
<1> QED BY <1>1, AcceleratorStep, PTL DEF Spec, G!Spec

-----------------------------------------------------------------------------
(* The steps of the Route53 controller: R and RP say the same of each      *)

\* A call of one of its workers.
LEMMA SameRecordWork == ASSUME NEW w, R!Work(w)  PROVE RP!Work(w)
BY DEF
   R!Cardinality, RP!Cardinality, R!Add, RP!Add, R!Done, RP!Done, R!Requeues,
   RP!Requeues, R!Finished, RP!Finished, R!Targets, RP!Targets, R!outside, RP!outside,
   R!At, RP!At, R!Goto, RP!Goto, R!Finish, RP!Finish, R!Answers, RP!Answers, R!Fails,
   RP!Fails, R!Exists, RP!Exists, R!Host, RP!Host, R!TagsMatch, RP!TagsMatch,
   R!OwnsAlias, RP!OwnsAlias, R!EnsureFrom, RP!EnsureFrom, R!Read, RP!Read, R!Listed,
   RP!Listed, R!ListAccelerators, RP!ListAccelerators, R!ListTags, RP!ListTags,
   R!NextName, RP!NextName, R!FindZone, RP!FindZone, R!ListRecords, RP!ListRecords,
   R!CreateTxt, RP!CreateTxt, R!CreateA, RP!CreateA, R!UpsertA, RP!UpsertA,
   R!NextZone, RP!NextZone, R!ListZones, RP!ListZones, R!InZone, RP!InZone,
   R!FindOwnedA, RP!FindOwnedA, R!DeleteA, RP!DeleteA, R!FindOwnedTxt,
   RP!FindOwnedTxt, R!DeleteTxt, RP!DeleteTxt, R!Ensures, RP!Ensures, R!CleansUp,
   RP!CleansUp, R!Work, RP!Work

\* A worker takes a key.
LEMMA SameRecordTake == ASSUME NEW w, NEW k, R!Take(w, k)  PROVE RP!Take(w, k)
BY DEF R!CanGet, RP!CanGet, R!Get, RP!Get, R!outside, RP!outside, R!At, RP!At,
   R!Take, RP!Take

\* An event, which the handlers of both controllers see.
LEMMA SameRecordDeliver ==
  ASSUME RP!RInv, NEW k \in Keys, Deliver(k)
  PROVE  RP!Deliver(k)
<1>1. PICK n \in {1, Len(watch[k])} :
        /\ cache' = [cache EXCEPT ![k] = watch[k][n]]
        /\ watch' = [watch EXCEPT ![k] = SubSeq(watch[k], n + 1, Len(watch[k]))]
  BY DEF Deliver, G!Deliver
<1>2. cache'[k] = watch[k][n]
  BY <1>1 DEF RP!RInv, RP!OwnTypeOK
<1>3. R!Notified(k, watch[k][n])
  BY <1>2 DEF Deliver
<1>4. RP!Notified(k, watch[k][n])
  BY <1>3 DEF R!Add, RP!Add, R!Notifies, RP!Notifies, R!Notified, RP!Notified
<1>5. watch[k] # <<>> /\ UNCHANGED <<obj, acc, rpc, rjob, dns, rspent>>
  BY DEF Deliver, G!Deliver, G!aws
<1> QED BY <1>1, <1>4, <1>5 DEF RP!Deliver

\* The start.
LEMMA SameRecordInit == R!Init => RP!Init
BY DEF R!EmptyQueue, RP!EmptyQueue, R!Kinds, RP!Kinds, R!Init, RP!Init

\* A step of the Route53 controller, in a process that does not crash.
RecordsOwn ==
  \/ \E k \in Keys : RP!Deliver(k)
  \/ \E w \in RecordWorkers, k \in Keys : RP!Take(w, k)
  \/ \E w \in RecordWorkers : RP!Work(w)

\* Every step of the composition is one of the Route53 controller, or leaves
\* everything but the objects and the accelerators alone.
LEMMA RecordStep == RP!RInv /\ [Next]_vars => RP!Elsewhere \/ RecordsOwn
<1> SUFFICES ASSUME RP!RInv, [Next]_vars  PROVE RP!Elsewhere \/ RecordsOwn
  OBVIOUS
<1>1. ASSUME UNCHANGED records, UNCHANGED <<obj, watch, cache>>
      PROVE  RP!Elsewhere
  BY <1>1 DEF records, RP!Elsewhere, RP!RInv, RP!OwnTypeOK, RP!SpentType
<1>2. ASSUME NEW k \in Keys, NEW v \in Versions \union {NoObj}, Change(k, v)
      PROVE  RP!Elsewhere
  BY <1>2 DEF Change, G!Change, records, RP!Elsewhere, RP!Edit, RP!RInv, RP!OwnTypeOK,
     RP!SpentType
<1>3. ASSUME NEW k \in Keys, Deliver(k)
      PROVE  RecordsOwn
  BY <1>3, SameRecordDeliver DEF RecordsOwn
<1>4. ASSUME NEW k \in Keys, TakeAccelerator(k)
      PROVE  RP!Elsewhere
  BY <1>1, <1>4 DEF TakeAccelerator, G!Take, G!At, G!cluster
<1>5. ASSUME NEW k \in Keys, TakeRecord(k)
      PROVE  RecordsOwn
  BY <1>5, SameRecordTake DEF TakeRecord, RecordsOwn
<1>6. CASE AwsSettles
  BY <1>1, <1>6 DEF AwsSettles, G!LBActivate, G!AwsDeploys, G!cluster
<1>7. ASSUME NEW w, WorkAccelerator(w)
      PROVE  RP!Elsewhere
  BY <1>1, <1>7 DEF WorkAccelerator, G!At, G!cluster,
     G!ReadObject, G!DescribeLoadBalancer, G!ListAccelerators,
     G!ListTags, G!CreateAccelerator, G!CreateListener, G!CreateEndpointGroup,
     G!AcceleratorChanged, G!UpdateAccelerator, G!TagResource, G!GetListener,
     G!PutListener, G!GetEndpointGroup, G!PutEndpointGroup, G!DescribeAccelerator,
     G!RelatedListener, G!RelatedEndpointGroup, G!DeleteEndpointGroup,
     G!DeleteListener, G!DisableAccelerator, G!PollAccelerator, G!DeleteAccelerator,
     G!Work, G!Ensures, G!CleansUp
<1>8. ASSUME NEW w \in RecordWorkers, WorkRecord(w)
      PROVE  RecordsOwn
  BY <1>8, SameRecordWork DEF WorkRecord, RecordsOwn
<1>9. CASE UNCHANGED vars
  BY <1>1, <1>9 DEF vars
<1> QED BY <1>2, <1>3, <1>4, <1>5, <1>6, <1>7, <1>8, <1>9 DEF Next

-----------------------------------------------------------------------------
(* The invariants of the two hold in the composition *)

\* What the Global Accelerator controller keeps.
AcceleratorsKept == GP!IInv /\ GP!AllLayered /\ GP!RestInv

\* One accelerator per object, no stale finding, and the ledger of what is still
\* to be done for every object, beside the other controller.
THEOREM KeepsAccelerators == Spec => []AcceleratorsKept
<1>1. Init => AcceleratorsKept
  <2> SUFFICES ASSUME Init  PROVE AcceleratorsKept
    OBVIOUS
  <2>1. GP!Init
    BY SameInit DEF Init
  <2> QED BY <2>1, GP!InitIInv, GP!InitStages, GP!InitRestInv, AcceleratorConstants
          DEF AcceleratorsKept
<1>2. AcceleratorsKept /\ [Next]_vars => AcceleratorsKept'
  <2> SUFFICES ASSUME AcceleratorsKept, [Next]_vars  PROVE AcceleratorsKept'
    OBVIOUS
  <2>1. [GP!Next]_GP!vars
    BY AcceleratorStep, SameStep
  <2>2. GP!IInv'
    BY <2>1, GP!NextIInv, AcceleratorConstants DEF AcceleratorsKept
  <2>3. GP!AllLayered'
    BY <2>1, GP!NextStages, AcceleratorConstants DEF AcceleratorsKept
  <2>4. GP!RestInv'
    BY <2>1, GP!NextRestInv, AcceleratorConstants DEF AcceleratorsKept
  <2> QED BY <2>2, <2>3, <2>4 DEF AcceleratorsKept
<1> QED BY <1>1, <1>2, PTL DEF Spec

\* What the Route53 controller keeps, in a process that does not crash.
RecordsKept == RP!RInv /\ RP!RestInv /\ rspent.crashes = 0

\* The count of crashes is kept.
LEMMA CrashesKept == RecordsKept /\ [Next]_vars => rspent'.crashes = rspent.crashes
<1> SUFFICES ASSUME RecordsKept, [Next]_vars  PROVE rspent'.crashes = rspent.crashes
  OBVIOUS
<1>1. ASSUME NEW w \in RecordWorkers, RP!Work(w)
      PROVE  rspent'.crashes = rspent.crashes
  <2>1. RP!RInv'
    BY <1>1, RP!NextRInv, RecordConstants DEF RecordsKept, RP!Next
  <2>2. RP!Steps(w, rjob[w].key)
    BY <1>1, <2>1, RP!WorkSteps, RecordConstants DEF RecordsKept, RP!RestInv
  <2> QED BY <2>2 DEF RP!Steps
<1> QED BY <1>1, RecordStep DEF RecordsKept, RecordsOwn, RP!Elsewhere, RP!Deliver, RP!Take

\* No orphan alias, no stale finding, and the ledger of what is still to be done
\* for every object, while the other controller makes, changes and deletes the
\* accelerators this one reads.
THEOREM KeepsRecords == Spec => []RecordsKept
<1>1. Init => RecordsKept
  <2> SUFFICES ASSUME Init  PROVE RecordsKept
    OBVIOUS
  <2>1. RP!Init
    BY SameRecordInit DEF Init
  <2> QED BY <2>1, RP!InitRInv, RP!InitRestInv, RecordConstants DEF RecordsKept, RP!Init
<1>2. RecordsKept /\ [Next]_vars => RecordsKept'
  <2> SUFFICES ASSUME RecordsKept, [Next]_vars  PROVE RecordsKept'
    OBVIOUS
  <2>1. RP!Elsewhere \/ [RP!Next]_RP!vars
    BY RecordStep DEF RecordsKept, RecordsOwn, RP!Next
  <2>2. RP!RInv'
    BY <2>1, RP!NextRInv, RP!ElsewhereKeeps, RecordConstants DEF RecordsKept
  <2>3. RP!RestInv'
    BY <2>1, <2>2, RP!NextRestInv, RP!ElsewhereRestInv, RecordConstants DEF RecordsKept
  <2> QED BY <2>2, <2>3, CrashesKept DEF RecordsKept
<1> QED BY <1>1, <1>2, PTL DEF Spec

-----------------------------------------------------------------------------
(* The theorems *)

\* In the composition too the records of a hostname change only while a worker of
\* the Route53 controller has the object its TXT names: those of another object,
\* somebody else's and plain addresses are left alone.
THEOREM OwnerWritesBeside == Spec => R!OnlyOwnerWritesRecords
<1> DEFINE Respects(h) ==
             /\ dns'[h] # dns[h] /\ dns[h].txt # None =>
                  \E w \in RecordWorkers : rpc[w] # "idle" /\ rjob[w].key = dns[h].txt
             /\ dns[h].a = Plain => dns'[h].a = Plain
<1>1. ASSUME RecordsKept, [Next]_vars, NEW h \in Hostnames, dns'[h] # dns[h]
      PROVE  Respects(h)
  <2>1. RP!RInv
    BY <1>1 DEF RecordsKept
  <2>2. PICK w \in RecordWorkers : RP!Work(w)
    BY <1>1, <2>1, RecordStep DEF RecordsOwn, RP!Elsewhere, RP!Deliver, RP!Take
  <2> QED BY <1>1, <2>1, <2>2, RP!OwnersChange, RecordConstants
<1>2. RecordsKept /\ [Next]_vars => [\A h \in Hostnames : Respects(h)]_(R!vars)
  BY <1>1
<1> QED BY <1>2, KeepsRecords, PTL DEF Spec, R!OnlyOwnerWritesRecords

\* At rest every object that asks for an accelerator has one, complete and up to
\* date, and at most one.
THEOREM SyncedBeside ==
  ASSUME GP!BuildAnswered
  PROVE  Spec => [](G!QuiescentSynced /\ G!AtMostOneAccelerator)
<1>1. AcceleratorsKept => G!QuiescentSynced /\ G!AtMostOneAccelerator
  <2> SUFFICES ASSUME AcceleratorsKept  PROVE G!QuiescentSynced /\ G!AtMostOneAccelerator
    OBVIOUS
  <2>1. GP!QuiescentSynced
    BY GP!RestingSynced, GP!BuildAnswered, AcceleratorConstants DEF AcceleratorsKept
  <2>2. GP!AtMostOneAccelerator
    BY DEF AcceleratorsKept, GP!IInv
  <2> QED BY <2>1, <2>2 DEF G!Owned, GP!Owned, G!TagsMatch, GP!TagsMatch, G!Exists,
       GP!Exists, G!Drained, GP!Drained, G!Kinds, GP!Kinds, G!ElbHosts, GP!ElbHosts,
       G!ListenerChanged, GP!ListenerChanged, G!PortChanged, GP!PortChanged, G!Serves,
       GP!Serves, G!Quiet, GP!Quiet, G!QuiescentSynced, GP!QuiescentSynced,
       G!AtMostOneAccelerator, GP!AtMostOneAccelerator
<1> QED BY <1>1, KeepsAccelerators, PTL

\* What is gone or unmanaged leaves no accelerator, although the other controller
\* may still list it or point records to it; with users as CleanupReached says.
THEOREM NothingLeftInAws ==
  ASSUME GP!CleanupAnswered, GP!CleanupReached
  PROVE  Spec => []NoAcceleratorLeft
<1>1. AcceleratorsKept => NoAcceleratorLeft
  <2> SUFFICES ASSUME AcceleratorsKept  PROVE NoAcceleratorLeft
    OBVIOUS
  <2>1. GP!QuiescentClean
    BY GP!RestingClean, GP!CleanupAnswered, GP!CleanupReached, AcceleratorConstants
       DEF AcceleratorsKept
  <2> QED BY <2>1 DEF G!Owned, GP!Owned, G!TagsMatch, GP!TagsMatch, G!Exists,
       GP!Exists, G!Drained, GP!Drained, G!Kinds, GP!Kinds, G!Quiet, GP!Quiet,
       GP!QuiescentClean, NoAcceleratorLeft
<1> QED BY <1>1, KeepsAccelerators, PTL

\* At rest every hostname an object asks for has its TXT and its alias, although
\* the accelerators were made and deleted while the records were.
THEOREM RecordsBeside == Spec => []R!QuiescentRecords
<1>1. RecordsKept => R!QuiescentRecords
  <2> SUFFICES ASSUME RecordsKept  PROVE R!QuiescentRecords
    OBVIOUS
  <2>1. RP!QuiescentRecords
    BY RP!RestingRecords, RecordConstants DEF RecordsKept
  <2> QED BY <2>1 DEF R!Drained, RP!Drained, R!Kinds, RP!Kinds, R!Quiet, RP!Quiet,
       R!HasBalancer, RP!HasBalancer, R!QuiescentRecords, RP!QuiescentRecords
<1> QED BY <1>1, KeepsRecords, PTL

\* What is gone, or no longer has the annotation, leaves no record, whichever
\* controller is first to see it go.
THEOREM NothingLeftInRoute53 ==
  ASSUME RP!ServicesEligible
  PROVE  Spec => []NoRecordLeft
<1>1. RecordsKept => NoRecordLeft
  <2> SUFFICES ASSUME RecordsKept  PROVE NoRecordLeft
    OBVIOUS
  <2>1. RP!QuiescentNoRecords
    BY RP!RestingNoRecords, RP!ServicesEligible, RecordConstants DEF RecordsKept
  <2> QED BY <2>1 DEF RecordsKept, R!Drained, RP!Drained, R!Kinds, RP!Kinds, R!Quiet,
       RP!Quiet, RP!QuiescentNoRecords, NoRecordLeft
<1> QED BY <1>1, KeepsRecords, PTL

-----------------------------------------------------------------------------
(* The records follow the accelerators *)

\* When "of" tells whose each load balancer is, no object shows another's.
OwnBalancers(of) == \A k \in Keys : GP!Shows(of, k, obj[k])

\* An object is created again only when both controllers are done with the one
\* that had its key.
CreatedAfresh == \A k \in Keys : obj[k] = NoObj /\ obj'[k] # NoObj =>
  /\ watch[k] = <<>>
  /\ k \notin queue[KindOf[k]].pending \union queue[KindOf[k]].processing
  /\ k \notin rqueue[KindOf[k]].pending \union rqueue[KindOf[k]].processing

\* The workers of the Route53 controller have seen no other's either.
ViewsApart(of) ==
  \A w \in RecordWorkers : rpc[w] # "idle" => GP!Shows(of, rjob[w].key, rjob[w].view)

\* While an object is there, all that the Route53 controller has found and
\* written for it leads to accelerators that are the object's now.
RecordsLead == \A k \in Keys : obj[k] # NoObj => RP!Points(k, GP!Owned(k))

\* The inductive invariant, beside those of the two controllers.
FollowInv(of) == GP!Lasting /\ GP!Apart(of) /\ ViewsApart(of) /\ RecordsLead

\* The tags lead from the load balancers of an object to its own accelerators.
LEMMA TagsLead ==
  ASSUME NEW of, AcceleratorsKept, GP!Apart(of), NEW k, NEW v, GP!Shows(of, k, v)
  PROVE  RP!LeadsInto(v, GP!Owned(k))
<1> SUFFICES ASSUME v # NoObj, NEW n \in DOMAIN v.lbs, NEW a \in Arns,
                    RP!Exists(a), RP!TagsMatch(acc[a], v.lbs[n])
             PROVE  a \in GP!Owned(k)
  BY DEF RP!LeadsInto
<1>1. acc[a] \in GP!Accelerators
  BY DEF AcceleratorsKept, GP!IInv, GP!TypeOK, RP!Exists
<1>2. acc[a].owner \in Keys /\ a \in GP!Owned(acc[a].owner)
  BY <1>1 DEF GP!Accelerators, GP!Owned, GP!Exists, GP!TagsMatch, RP!Exists, RP!TagsMatch
<1>3. of[acc[a].host] = acc[a].owner
  BY <1>2 DEF GP!Apart, GP!HostsApart
<1>4. of[acc[a].host] = k
  BY DEF GP!Shows, RP!TagsMatch
<1> QED BY <1>2, <1>3, <1>4

\* At the start there are no objects and no workers.
LEMMA InitFollowInv == ASSUME NEW of  PROVE Init => FollowInv(of)
<1> SUFFICES ASSUME Init  PROVE FollowInv(of)
  OBVIOUS
<1>1. GP!Init
  BY SameInit DEF Init
<1>2. GP!Lasting /\ GP!Apart(of)
  BY <1>1, GP!InitLasting, GP!InitApart, AcceleratorConstants
<1>3. (\A k \in Keys : obj[k] = NoObj) /\ \A w \in RecordWorkers : rpc[w] = "idle"
  BY DEF Init, G!Init, R!Init
<1> QED BY <1>2, <1>3 DEF FollowInv, ViewsApart, RecordsLead

\* A step in which no worker of the Route53 controller moves: accelerators of an
\* object that is there stay, and one that is created has no records yet.
LEMMA RecordsStill ==
  ASSUME RP!ServicesEligible, AcceleratorsKept, RecordsKept, GP!Lasting, RecordsLead,
         [Next]_vars, [CreatedAfresh]_vars, UNCHANGED <<rpc, rjob, dns>>
  PROVE  RecordsLead'
<1> SUFFICES ASSUME NEW k \in Keys, obj'[k] # NoObj
             PROVE  RP!Points(k, GP!Owned(k))'
  BY DEF RecordsLead
<1>1. PICK S : S = GP!Owned(k)'
  OBVIOUS
<1>2. RP!Points(k, S)
  <2>1. CASE obj[k] # NoObj
    <3>1. [GP!Next]_GP!vars
      BY AcceleratorStep, SameStep
    <3>2. GP!Owned(k) \subseteq S
      BY <1>1, <2>1, <3>1, GP!OwnedGrows, AcceleratorConstants DEF AcceleratorsKept
    <3>3. RP!Points(k, GP!Owned(k))
      BY <2>1 DEF RecordsLead
    <3> QED BY <3>2, <3>3 DEF RP!Points, RP!AliasesIn, RP!Led
  <2>2. CASE obj[k] = NoObj
    <3>1. /\ watch[k] = <<>>
          /\ k \notin rqueue[KindOf[k]].pending /\ k \notin rqueue[KindOf[k]].processing
      BY <2>2 DEF CreatedAfresh, vars
    <3> QED BY <2>2, <3>1, RP!ServicesEligible, RP!DonePoints, RecordConstants DEF RecordsKept
  <2> QED BY <2>1, <2>2
<1>3. RP!Points(k, S)'
  BY <1>2 DEF RP!Points, RP!AliasesIn, RP!OwnsAlias, RP!Holds, RP!Led
<1> QED BY <1>1, <1>3

\* Every step keeps it.
LEMMA NextFollowInv ==
  ASSUME GP!NeverUnmanaged, GP!CreationAnswered, RP!ServicesEligible, NEW of,
         AcceleratorsKept, RecordsKept, RecordsKept', FollowInv(of),
         [Next]_vars, [CreatedAfresh]_vars, OwnBalancers(of)'
  PROVE  FollowInv(of)'
<1>1. [GP!Next]_GP!vars
  BY AcceleratorStep, SameStep
<1>2. [GP!CreatedAfresh]_GP!vars
  BY DEF CreatedAfresh, GP!CreatedAfresh, GP!DoneWith, vars, accelerators, GP!vars
<1>3. GP!Lasting'
  BY <1>1, <1>2, GP!NeverUnmanaged, GP!CreationAnswered, GP!NextLasting, AcceleratorConstants
     DEF AcceleratorsKept, FollowInv
<1>4. GP!Apart(of)'
  <2>1. \A k \in Keys : GP!Shows(of, k, obj'[k])
    BY DEF OwnBalancers, GP!Shows
  <2> QED BY <1>1, <2>1, GP!NextApart, AcceleratorConstants DEF AcceleratorsKept, FollowInv
<1>5. CASE UNCHANGED <<rpc, rjob, dns>>
  <2>1. RecordsLead'
    BY <1>5, RP!ServicesEligible, RecordsStill DEF FollowInv
  <2>2. ViewsApart(of)'
    BY <1>5 DEF FollowInv, ViewsApart, GP!Shows
  <2> QED BY <1>3, <1>4, <2>1, <2>2 DEF FollowInv
<1>6. ASSUME NEW w \in RecordWorkers, NEW k \in Keys, RP!Take(w, k)
      PROVE  FollowInv(of)'
  <2>1. /\ UNCHANGED <<obj, acc, dns>>
        /\ rjob'[w].key = k /\ rjob'[w].view = NoObj
        /\ rjob'[w].found = {} /\ rjob'[w].arn = None
        /\ \A v \in RecordWorkers \ {w} : rpc'[v] = rpc[v] /\ rjob'[v] = rjob[v]
    BY <1>6 DEF RP!Take, RP!At, RP!outside, RecordsKept, RP!RInv, RP!OwnTypeOK
  <2>2. ViewsApart(of)'
    BY <2>1 DEF FollowInv, ViewsApart, GP!Shows
  <2>3. ASSUME NEW h \in Keys, obj'[h] # NoObj
        PROVE  RP!Points(h, GP!Owned(h))'
    <3>1. PICK S : S = GP!Owned(h) /\ S = GP!Owned(h)'
      BY <2>1 DEF GP!Owned, GP!Exists
    <3>2. RP!Points(h, S)
      BY <2>1, <2>3, <3>1 DEF FollowInv, RecordsLead
    <3>3. None \notin Arns
      BY NullAssumption DEF R!Targets
    <3>4. RP!Points(h, S)'
      BY <2>1, <3>2, <3>3 DEF RP!Points, RP!AliasesIn, RP!OwnsAlias, RP!Holds, RP!Led
    <3> QED BY <3>1, <3>4
  <2> QED BY <1>3, <1>4, <2>2, <2>3 DEF FollowInv, RecordsLead
<1>7. ASSUME NEW w \in RecordWorkers, RP!Work(w)
      PROVE  FollowInv(of)'
  <2>1. /\ rpc[w] # "idle" /\ rjob[w].key \in Keys
        /\ \A v \in RecordWorkers \ {w} : rpc'[v] = rpc[v] /\ rjob'[v] = rjob[v]
        /\ \/ rpc'[w] = "idle"
           \/ /\ rjob'[w].key = rjob[w].key
              /\ rjob'[w].view \in {rjob[w].view, cache[rjob[w].key]}
    BY <1>7, RP!WorkMoves, RecordConstants DEF RecordsKept
  <2>2. UNCHANGED <<obj, acc>>
    <3>1. RP!Call(w)
      BY <1>7, RP!WorkSteps, RecordConstants DEF RecordsKept, RP!RestInv, RP!Steps
    <3> QED BY <3>1 DEF RP!Call
  <2>3. ViewsApart(of)'
    <3> SUFFICES ASSUME NEW v \in RecordWorkers, rpc'[v] # "idle"
                 PROVE  GP!Shows(of, rjob'[v].key, rjob'[v].view)
      BY DEF ViewsApart, GP!Shows
    <3>1. CASE v = w
      BY <2>1, <3>1 DEF FollowInv, ViewsApart, GP!Apart, GP!CopiesApart
    <3>2. CASE v # w
      BY <2>1, <3>2 DEF FollowInv, ViewsApart
    <3> QED BY <3>1, <3>2
  <2>4. ASSUME NEW k \in Keys, obj'[k] # NoObj
        PROVE  RP!Points(k, GP!Owned(k))'
    <3>1. PICK S : S = GP!Owned(k) /\ S = GP!Owned(k)'
      BY <2>2 DEF GP!Owned, GP!Exists
    <3>2. RP!Points(k, S)
      BY <2>2, <2>4, <3>1 DEF FollowInv, RecordsLead
    <3>3. k = rjob[w].key => RP!LeadsInto(rjob[w].view, S)
      <4>1. k = rjob[w].key => GP!Shows(of, k, rjob[w].view)
        BY <2>1 DEF FollowInv, ViewsApart
      <4> QED BY <3>1, <4>1, TagsLead DEF FollowInv
    <3>4. RP!Points(k, S)'
      BY <1>7, <3>2, <3>3, RP!WorkPoints, RecordConstants DEF RecordsKept, RP!RestInv
    <3> QED BY <3>1, <3>4
  <2> QED BY <1>3, <1>4, <2>3, <2>4 DEF FollowInv, RecordsLead
<1> QED BY <1>5, <1>6, <1>7, RecordStep
        DEF RecordsKept, RecordsOwn, RP!Elsewhere, RP!Deliver

\* At rest the accelerator that serves an object is the one its records lead to.
LEMMA RestingFollow ==
  ASSUME GP!BuildAnswered, NEW of, AcceleratorsKept, RecordsKept, FollowInv(of)
  PROVE  RecordsFollow
<1> SUFFICES ASSUME Quiet, NEW k \in Keys, Asks(obj[k]), NEW n \in DOMAIN obj[k].dns,
                    NEW h, h = obj[k].dns[n]
             PROVE  /\ dns[h].txt = k /\ dns[h].a \in G!Owned(k)
                    /\ G!Serves(acc[dns[h].a], obj[k])
  BY DEF RecordsFollow
<1>1. GP!QuiescentSynced /\ GP!AtMostOneAccelerator
  BY GP!RestingSynced, GP!BuildAnswered, AcceleratorConstants DEF AcceleratorsKept, GP!IInv
<1>2. RP!QuiescentRecords
  BY RP!RestingRecords, RecordConstants DEF RecordsKept
<1>3. GP!Quiet /\ RP!Quiet
  BY DEF Quiet, G!Quiet, GP!Quiet, R!Quiet, RP!Quiet, G!Drained, GP!Drained, R!Drained,
     RP!Drained, G!Kinds, GP!Kinds, R!Kinds, RP!Kinds
<1>4. PICK a \in GP!Owned(k) : GP!Serves(acc[a], obj[k])
  BY <1>1, <1>3 DEF GP!QuiescentSynced, Asks, G!ElbHosts, GP!ElbHosts
<1>5. dns[h].txt = k /\ dns[h].a \in Arns
  BY <1>2, <1>3 DEF RP!QuiescentRecords, RP!HasBalancer, Asks, G!ElbHosts
<1>6. h \in Hostnames
  <2>1. obj[k] \in Versions /\ obj[k].dns # None
    BY DEF Asks, AcceleratorsKept, GP!IInv, GP!TypeOK
  <2>2. obj[k].dns \in Seq(Hostnames)
    BY <2>1, VersionAssumption
  <2> QED BY <2>2
<1>7. dns[h].a \in GP!Owned(k)
  <2>1. RP!OwnsAlias(k, h)
    BY <1>5 DEF RP!OwnsAlias, RP!Targets
  <2>2. dns[h].a \in GP!Owned(k) \union {Foreign}
    BY <1>6, <2>1 DEF FollowInv, RecordsLead, RP!Points, RP!AliasesIn, Asks
  <2> QED BY <1>5, <2>2, NullAssumption
<1>8. dns[h].a = a
  BY <1>1, <1>4, <1>7 DEF GP!AtMostOneAccelerator
<1>9. dns[h].a \in G!Owned(k)
  BY <1>7 DEF G!Owned, GP!Owned, G!TagsMatch, GP!TagsMatch, G!Exists, GP!Exists
<1>10. G!Serves(acc[a], obj[k])
  BY <1>4 DEF G!Serves, GP!Serves, G!ListenerChanged, GP!ListenerChanged, G!PortChanged,
     GP!PortChanged, G!ElbHosts, GP!ElbHosts
<1> QED BY <1>5, <1>8, <1>9, <1>10

\* Once both controllers are at rest the hostnames of an object lead to the very
\* accelerator that serves it, although the Route53 controller goes by a list
\* read while the other one still builds, retags or moves the accelerator, and
\* is not told when that is done.  The hypotheses are what the code relies on:
\* the reads of BuildAnswered are answered, a creation does not fail half way, a
\* user does not unmanage an object that is there or let two objects show one
\* load balancer, nor creates one again while its old self is still cleaned up,
\* and the handlers see the services.
THEOREM RecordsFollowAccelerators ==
  ASSUME GP!BuildAnswered, GP!NeverUnmanaged, GP!CreationAnswered, RP!ServicesEligible,
         NEW of
  PROVE  Spec /\ []OwnBalancers(of) /\ [][CreatedAfresh]_vars => []RecordsFollow
<1>1. Init => FollowInv(of)
  BY InitFollowInv
<1>2. /\ AcceleratorsKept /\ RecordsKept /\ RecordsKept' /\ FollowInv(of)
      /\ [Next]_vars /\ [CreatedAfresh]_vars /\ OwnBalancers(of)'
      => FollowInv(of)'
  BY NextFollowInv, GP!NeverUnmanaged, GP!CreationAnswered, RP!ServicesEligible
<1>3. AcceleratorsKept /\ RecordsKept /\ FollowInv(of) => RecordsFollow
  BY RestingFollow, GP!BuildAnswered
<1> QED BY <1>1, <1>2, <1>3, KeepsAccelerators, KeepsRecords, PTL DEF Spec
=============================================================================
