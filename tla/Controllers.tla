---------------------------- MODULE Controllers ----------------------------
(***************************************************************************)
(* The Global Accelerator controller and the Route53 controller in one     *)
(* process (pkg/manager): they share the informers and AWS, and nothing    *)
(* else.  What one does to the accelerators the other sees only when it    *)
(* happens to list them.  The calls of both may fail; crashes are left to  *)
(* the two modules.                                                        *)
(*                                                                         *)
(* Variables with an "r" are the Route53 controller's.                     *)
(***************************************************************************)
EXTENDS Integers, Sequences, FiniteSets

CONSTANTS
  Keys, KindOf, Workers, QueueOf, LBs, HostKind, Names, Ports, Versions, Edits,
  Arns, Clusters, ClusterName, FaultSites,     \* as in GlobalAccelerator
  RecordWorkers, RecordQueueOf, Hostnames, Zones, ZoneOf, FirstDns,
  RecordFaultSites,                            \* as in Route53
  MaxFaults, MaxRecordFaults, MaxChanges,      \* bounds of a run
  NoObj, NoAcc, NoJob, None, Foreign, Plain

VARIABLES obj, watch, cache, queue, pc, job, acc, syncing, active, spent,
          rqueue, rpc, rjob, dns, rspent

G == INSTANCE GlobalAccelerator WITH
  FirstAccs <- [a \in Arns |-> NoAcc], MaxCrashes <- 0

R == INSTANCE Route53 WITH
  Workers <- RecordWorkers, QueueOf <- RecordQueueOf,
  Accelerators <- G!Accelerators, AccEdits <- {},
  FaultSites <- RecordFaultSites, MaxFaults <- MaxRecordFaults, MaxCrashes <- 0,
  queue <- rqueue, pc <- rpc, job <- rjob, spent <- rspent

\* What the two modules assume of their constants.
ASSUME KindAssumption ==
  /\ KindOf \in [Keys -> G!Kinds]
  /\ QueueOf \in [Workers -> G!Kinds] /\ RecordQueueOf \in [RecordWorkers -> R!Kinds]
ASSUME HostAssumption == HostKind \in [LBs -> {"elb", "otherAws", "otherCloud"}]
ASSUME VersionAssumption == \A v \in Versions :
  G!IsVersion(v) /\ v.dns \in Seq(Hostnames) \union {None}
ASSUME EditAssumption ==
  Edits \subseteq (Versions \union {NoObj}) \X (Versions \union {NoObj})
ASSUME ClusterAssumption == ClusterName \in Clusters
ASSUME ZoneAssumption == ZoneOf \in [Hostnames -> Zones \union {None}]
ASSUME FirstDnsAssumption ==
  FirstDns \in [Hostnames -> [txt : {Foreign, None}, a : {Foreign, Plain, None}]]
ASSUME NullAssumption ==
  /\ NoObj \notin Versions
  /\ NoAcc \notin G!Accelerators
  /\ NoJob \notin G!Jobs \union R!Jobs
  /\ None \notin G!Listeners \union Keys \union R!Targets \union Zones \union {Plain}
                   \union Seq(Hostnames)
  /\ Foreign \notin Keys \union Arns
  /\ Plain \notin R!Targets
ASSUME BoundAssumption == MaxFaults \in Nat /\ MaxRecordFaults \in Nat /\ MaxChanges \in Nat

records == <<rqueue, rpc, rjob, dns, rspent>>
accelerators == <<queue, pc, job, acc, syncing, active, spent>>
vars == <<obj, watch, cache, accelerators, records>>

-----------------------------------------------------------------------------

Init == G!Init /\ R!Init

Change(k, v) == G!Change(k, v) /\ UNCHANGED records

\* One informer, and a handler of each controller.
Deliver(k) ==
  /\ G!Deliver(k)
  /\ R!Notified(k, cache'[k])
  /\ UNCHANGED <<rpc, rjob, dns, rspent>>

AwsSettles ==
  /\ \/ \E l \in LBs : G!LBActivate(l)
     \/ \E a \in Arns : G!AwsDeploys(a)
  /\ UNCHANGED records

TakeAccelerator(k) == (\E w \in Workers : G!Take(w, k)) /\ UNCHANGED records
WorkAccelerator(w) == G!Work(w) /\ UNCHANGED records

TakeRecord(k) == (\E w \in RecordWorkers : R!Take(w, k)) /\ UNCHANGED accelerators
WorkRecord(w) == R!Work(w) /\ UNCHANGED accelerators

Next ==
  \/ \E k \in Keys : \E v \in Versions \union {NoObj} : Change(k, v)
  \/ \E k \in Keys : Deliver(k) \/ TakeAccelerator(k) \/ TakeRecord(k)
  \/ AwsSettles
  \/ \E w \in Workers : WorkAccelerator(w)
  \/ \E w \in RecordWorkers : WorkRecord(w)

\* That of the two controllers.
Fairness ==
  /\ \A k \in Keys :
       WF_vars(Deliver(k)) /\ SF_vars(TakeAccelerator(k)) /\ SF_vars(TakeRecord(k))
  /\ WF_vars(AwsSettles)
  /\ \A w \in Workers : WF_vars(WorkAccelerator(w))
  /\ \A w \in RecordWorkers : WF_vars(WorkRecord(w))

Spec == Init /\ [][Next]_vars

FairSpec == Spec /\ Fairness

-----------------------------------------------------------------------------
(* Properties *)

Quiet == G!Quiet /\ R!Quiet

\* Asks for an accelerator and records of its name.
Asks(v) == v # NoObj /\ v.eligible /\ v.managed /\ v.dns # None /\ G!ElbHosts(v) # {}

\* Once both controllers are at rest the hostnames of an object lead to the very
\* accelerator that serves it as it is now, although the records are made from a
\* list read while the other controller still builds, retags or moves it.
RecordsFollow ==
  Quiet => \A k \in Keys : Asks(obj[k]) =>
    \A n \in DOMAIN obj[k].dns :
      LET h == obj[k].dns[n]
      IN  /\ dns[h].txt = k
          /\ dns[h].a \in G!Owned(k)
          /\ G!Serves(acc[dns[h].a], obj[k])

\* Once the one is at rest, an object that is gone or unmanaged has left no
\* accelerator, although the other may still list it or point records to it.
NoAcceleratorLeft ==
  G!Quiet => \A k \in Keys :
    obj[k] = NoObj \/ ~obj[k].managed => G!Owned(k) = {}

\* Once the other is at rest, one that is gone or no longer has the Route53
\* annotation has left no record, whichever controller was first to see it go.
NoRecordLeft ==
  R!Quiet => \A k \in Keys :
    obj[k] = NoObj \/ obj[k].dns = None => \A h \in Hostnames : dns[h].txt # k

\* The two controllers come to rest for good: the minute's wait of the records
\* for their accelerator ends, since the other controller always gets it up.
EventuallyQuiet == <>[]Quiet
=============================================================================
