# Formal models of the AWS Global Accelerator controller

This directory holds TLA+ models of the controller in this repository, the TLC
configurations that check them on small instances, and TLAPS proofs of what
matters most for every instance. Paths below are relative to the repository's
root, line numbers are those of the modelled commit.

## The system

| Component | Code | State it keeps | Operations |
|---|---|---|---|
| Global Accelerator controller | `pkg/controller/globalaccelerator` | two rate-limited work queues (services, ingresses), the informers' caches | add/update/delete handlers; `processServiceDelete`, `processServiceCreateOrUpdate` and the two for ingresses, run by `workers` goroutines per queue |
| Global Accelerator workflow | `pkg/cloudprovider/aws/global_accelerator.go` | none: everything is read back from AWS, ownership is in the accelerator's tags | ensure (list by tags, create or update), clean up, add/remove/weigh endpoints |
| Reconcile loop | `pkg/reconcile/reconcile.go` | the work queue it is given | take a key, read the object, run a process function, put the key back or forget it |
| Load balancer lookup, provider detection | `pkg/cloudprovider/aws/load_balancer.go`, `pkg/cloudprovider/provider.go` | none | hostname to provider, name and region; describe the load balancer |
| Route53 controller and workflow | `pkg/controller/route53`, `pkg/cloudprovider/aws/route53.go` | two work queues; ownership is a TXT record beside each A record | ensure the records of an object's hostnames, clean them up |
| EndpointGroupBinding controller | `pkg/controller/endpointgroupbinding` | a work queue; finalizer and status of the custom resource | create (finalizer), update (add, remove, weigh endpoints; status), delete |
| Validating webhook | `pkg/webhoook` | none | refuses a change of `spec.endpointGroupArn` |
| Leader election, signals | `pkg/leaderelection`, `pkg/signals` | the lease | start as leader; every end is `os.Exit` |
| Manager, commands | `pkg/manager`, `cmd` | none | wiring, worker count, 30 s resync |
| Clients, informers, deep copies | `pkg/client`, `zz_generated.*` | | generated |

How they interact: users, the load balancer controller and the API server
change objects; an informer updates its cache and calls the handlers of the
Global Accelerator and Route53 controllers, each of which puts the object's key
in its own queue. A worker takes the key, reads the *cached* object, and makes a
sequence of AWS calls. Nothing is shared between workers but the queue and AWS
itself. The Route53 controller learns of an accelerator only through its
hostname tag, and only when something brings the object's key to it;
EndpointGroupBindings share endpoint groups through AWS only, and learn of their
service or ingress by asking the lister again at every resync. One
replica is leader at a time; the next one starts from a fresh list of the
objects and from what AWS holds.

What is hard about it:

- *Check, then act, in separate calls.* Listing accelerators, reading their tags
  and creating one are separate calls, and creation is not idempotent. Only the
  queue keeps two workers from doing it for the same object.
- *Lost answers.* A call that fails may have taken effect. The workflow keeps
  no notes; a retry must find everything in the listing.
- *Half-built and half-torn-down accelerators* (accelerator, listener, endpoint
  group; AWS insists on the opposite order for deletion, on disabling, and on
  waiting for the deployment).
- *Errors read as answers.* Several helpers turn an error into "unchanged" or
  "not there".
- *A resource with three writers.* A binding is written by users, by the API
  server (deletion, generation) and by workers going by a cached version, which
  they also edit in place.
- *Two records for one fact.* A hostname's TXT record says whose its A record is,
  and the two are written one after the other.
- *Events overtaken by events.* Handlers compare old and new versions, workers
  read only the newest.
- *Restarts between any two calls*, and what happened to objects meanwhile.

What each component has to get right:

- Global Accelerator: at most one accelerator per object; nobody else's
  accelerator is touched; at rest, a managed object has a complete accelerator
  and any other object has none; the controller comes to rest.
- Reconcile loop: one worker per key; a key whose work failed or was overtaken
  is handed out again.
- Route53: records appear and go together with their owner record; nobody
  else's records are touched; at rest they point at the object's accelerator.
- EndpointGroupBinding: at rest the endpoints in the group are those of the
  status and of the referenced object; other members of the group are left
  alone; the finalizer goes only after the endpoints.
- Webhook: with it in place a binding keeps its endpoint group.

## Plan

| Step | Modules | State |
|---|---|---|
| 1 | `Reconcile`: the loop and the queue of the first two controllers | done |
| 2 | `GlobalAccelerator`, `AcceleratorLifecycle`, which it implements, and `MCGlobalAccelerator` | done |
| 3 | `GlobalAcceleratorProofs` | done for safety |
| 3a | `GlobalAcceleratorAtRestProofs`: the ledger, and the states at rest | done |
| 4 | `EndpointGroupBinding` with the webhook, `BindingLifecycle`, which it implements, and `MCEndpointGroupBinding` | done |
| 5 | `Route53` and `MCRoute53` | done |
| 6 | `Controllers`, the composition of 2 and 5 in one process, and `MCControllers` | done |
| 7 | `Route53Proofs`, `EndpointGroupBindingProofs` | done for safety |
| 7a | `Route53AtRestProofs`: the ledger of the records | done |
| 7b | `GlobalAcceleratorStaysProofs`, `Route53TargetsProofs`: what each controller does that the other one relies on | done |
| 7c | `ControllersProofs`: what is proved of each controller holds in the composition, and the records follow the accelerators | done |
| 8 | the pure algorithms: the comparison of ports (`PortChangeSeen`); the host name parsers and user tags | the first done, the others left out, see "Not modelled" |

What would come after that: restarts in `Controllers`, and an abstract specification
of the records that `Route53` implements, as `AcceleratorLifecycle` and
`BindingLifecycle` are of the other two.

## What is modelled

### `Reconcile`

`ProcessNextWorkItem` and `reconcileHandler`: which outcomes of a process
function put a key back (`Requeues`) and the deferred `Done` (`Finished`). The
queue of client-go is external; what is kept is that a key waits once however
often it is added, that a key in a worker's hands is not handed out again before
`Done`, and that a key added meanwhile is handed out after it. Back-off and
delays only postpone a `Get`, which interleaving does anyway, so keys queued,
dirty or delayed are one set, `pending`.

### `GlobalAccelerator`

State:

| Variable | Stands for |
|---|---|
| `obj` | the objects in the API server |
| `watch`, `cache` | watch events not yet delivered; what the listers return |
| `queue` | `serviceQueue`, `ingressQueue` |
| `pc`, `job` | the call each worker is about to make, and its local variables: key, deep copy of the object, loop index, accelerators listed and still to be handled |
| `acc` | the accelerators in AWS: name, enabled, the owner, managed, cluster and hostname tags, the listener and the endpoint group's load balancers |
| `syncing` | disabled accelerators that are not DEPLOYED yet |
| `active` | load balancers in state active |
| `spent` | how much of the run's bounds is used |

Actions: each AWS call of a worker is one action, with everything the code does
between that call and the next one. `Take` and `ReadObject` start a key;
`DescribeLoadBalancer`, `ListAccelerators`, `ListTags` (one accelerator per
step), then `CreateAccelerator`, `CreateListener`, `CreateEndpointGroup`, or
`AcceleratorChanged`, `UpdateAccelerator`, `TagResource`, `GetListener`,
`PutListener`, `GetEndpointGroup`, `PutEndpointGroup` are
`EnsureGlobalAcceleratorFor...`; `DescribeAccelerator` to `DeleteAccelerator` are
`CleanupGlobalAccelerator`, for a deleted or unmanaged object and after a
failed creation. `Change`, `Deliver`, `LBActivate`, `AwsDeploys` and `Crash` are
the world: edits, the informer with its handlers, the two AWS state changes the
code waits for, and the end of a leader followed by the start of the next.

A call answers or fails. It may fail because AWS refuses it (unknown accelerator,
listener with an endpoint group, ...), which has no effect and may happen at any
time, or because of a fault, which may have taken effect all the same; faults are
confined to `FaultSites` and counted by `MaxFaults`. What AWS refuses is external
code, kept as far as the workflow relies on it.

Versions of an object keep what the code looks at: eligible
(`wasLoadBalancerService`, `wasALBIngress`), managed, the status hostnames, name,
ports and protocol. A hostname also stands for the load balancer it names.

Abstracted or left out:

- The informer's cache update and the handler call are one step. The 30 s resync
  calls the update handler with equal objects, which it ignores (`DeepEqual`), so it
  is a stutter.
- User tags, the IP address type and client IP preservation. User tags could
  overwrite the owner tags (`global_accelerator.go:433`); this is a listed hazard.
- Ports that an object lists twice; hostnames without a dot, at which
  `provider.go:10` panics.
- Events, logs and the regions of AWS clients.
- `status` of an accelerator except after disabling it: nothing else waits.

### `AcceleratorLifecycle`

The abstract specification: an object has at most one accelerator; it appears
enabled and bare, gains a listener, then an endpoint group, loses them in the
opposite order, and goes once it is disabled and bare; one object's accelerator
changes at a time. `Stages` in `GlobalAccelerator` is the refinement mapping: the
accelerators of each object by tags, and which parts each has.

### `EndpointGroupBinding`

State:

| Variable | Stands for |
|---|---|
| `log` | the versions of each binding in the order the API server wrote them; a resourceVersion is a position |
| `seen`, `cached` | the version the informer has, and its array of endpoint ids, which workers edit in place |
| `balancers` | the hostnames each service or ingress shows, as its lister returns them |
| `queue`, `pc`, `job` | the work queue, the next call of each worker, and its local variables |
| `groups` | the endpoint groups in AWS: the weight of each endpoint |
| `active`, `spent` | load balancers in state active; the bounds used |

Actions: `Take` and `Read` are `processNextWorkItem` and `syncHandler` up to the
branch of `reconcile`. `AddFinalizer` is `reconcileCreate`. `DescribeDeleted`,
`RemoveAll` (one turn of the loop), `ClearStatus` and `RemoveFinalizer` are
`reconcileDelete`. `GetLoadBalancer` (one hostname), `DescribeEndpointGroup`,
`RemoveEndpoint`, `CheckActive`, `AddEndpoint`, `UpdateWeight` and `UpdateStatus`
are `reconcileUpdate`; what comes between two calls is `Proceed`, `Plans` and
`Looks`. `EditBinding` is a user behind the webhook (`Admits`), `ChangeRef` and
`DeleteGroup` are what becomes of the service and of the group, `Deliver`,
`Resync` and `Crash` the informer and the process.

Three things are particular to this controller and kept as the code has them:

- Errors are not put back on the queue (`controller.go:164`); the resync of 30 s
  (`manager.go:53`) is what retries. In this controller the resync is an action: the
  update handler does not compare old and new.
- A write that is not based on the newest version is refused (`Write`): the API
  server's optimistic concurrency.
- `results` is the cached object's own array, and `slices.DeleteFunc` and
  `append(endpointIds[:i], ...)` shift it in place (`reconcile.go:84`, `175`).
  `EditsArray` writes through to the informer's copy as long as no event has
  replaced it. `RemoveAll` walks the shrinking slice as the code does and panics
  where the code does, and so does a removal without a client (`reconcile.go:170`).
  A panic ends the process (`Panic`), since `HandleCrash` panics again.

Assumed of AWS: adding an endpoint that is there is accepted, removing one that is
not there too, and the removal of the id "" may be accepted or refused.
`UpdateEndpointGroup` replaces the list of endpoints.

Left out: `clientIPPreservation` (a weight update drops it, `global_accelerator.go:934`),
namespaces, and the order in which a Go map hands out load balancers, which is
any order.

### `BindingLifecycle`

The abstract specification: a binding names one endpoint group for life; its
status names endpoints only while the finalizer holds it; a deletion stops
that; and it goes only when its status is empty or its group is gone. `Image`
in `EndpointGroupBinding` is the refinement mapping.

### `Route53`

State: `obj`, `watch`, `cache`, `queue`, `pc`, `job` and `spent` as in
`GlobalAccelerator`; `acc`, the accelerators, which this controller only reads;
and `dns`, for each hostname its TXT record (the object it names, a foreign
value, or none) and its A record (an alias of an accelerator or of something else,
a plain address, or none).

Actions: `ListAccelerators` and `ListTags` are `ListGlobalAcceleratorByHostname`;
`FindZone`, `ListRecords`, `CreateTxt`, `CreateA` and `UpsertA` the loop of
`ensureRoute53`; `ListZones`, `FindOwnedA`, `DeleteA`, `FindOwnedTxt` and
`DeleteTxt` are `CleanupRecordSet`. `AcceleratorChanges` is whatever the other
controller does. Route53 refuses to CREATE a record that is there and to DELETE one
that differs from what was listed.

Left out: record names and owner values as text (wildcards, the final dot), the
regions, records of other types, and paging.

### `Controllers`

The two controllers in one process over one set of informers (`manager.go`):
`GlobalAccelerator` and `Route53` as instances that share `obj`, `watch`, `cache`
and `acc`. `Deliver` is one informer event with the handler of each; every other
action is one controller's and leaves the other's variables alone. The calls of
both may fail (`FaultSites`, `RecordFaultSites`); crashes are left to the two
modules, each of which has its own run for them.

Operators introduced by a comment that starts with "Mistake:" are plausible bugs
kept beside the code they would spoil (a page of the listing forgotten, an error
dropped, ...). No specification uses them; each property is known to fail under
one of them.

## What the runs check

| Run | Instance | Question |
|---|---|---|
| `ownership` | 1 service, 2 workers, any edits (3), 2 faults, 1 restart | Can any interleaving, lost answer or restart give an object two accelerators, let a worker act on stale findings, write what is another's, or rest unserved? Does it implement `AcceleratorLifecycle`? |
| `convergence` | 1 service and 1 ingress, one worker each (the default of `--workers`), orderly edits (4), 1 fault | Does the controller come to rest, with everything served or cleaned up, and never forget an accelerator half way? |
| `ingress_listener` | 1 ingress, a fault of `createListener` | violated: see below |
| `describe_swallowed` | 1 service, a fault of `DescribeAccelerator` in the cleanup | violated: see below |
| `recreated` | 1 service deleted and created again, no fault | violated: see below |
| `bindings` | 1 binding, 2 workers, any edits of it, its service and its group (3), 1 fault, 1 restart and any panics | Does anything stale, conflicting or edited in place make a worker add an endpoint the finalizer does not protect, name one twice, or drop a binding too early? Does it implement `BindingLifecycle`? |
| `binding_converges` | 1 binding, 1 worker, patient users (6 edits), 1 fault, 1 restart | Does the binding always get what it asks for, and leave nothing behind when it goes? |
| `shared_group` | 2 bindings of one group, no fault | violated: see below |
| `lost_balancer` | 1 binding whose service loses its load balancer, no fault | violated: see below |
| `records` | 1 service and 1 ingress, one worker each, 3 hostnames in 2 zones, one with a plain address, 2 accelerators, 4 changes, 1 fault, 1 restart | Is an alias ever without its owner's TXT, or written by another object's worker? Are the records complete, or gone, at rest? |
| `half_created` | 1 service, 1 fault or restart | violated: see below |
| `records_follow` | both controllers on 1 service, 4 edits, 1 fault of an accelerator call | Do both come to rest, with the records leading to the accelerator that serves the object as it is now, and nothing left of what is gone? |

The runs of `GlobalAccelerator` use three ARNs, one of them taken by an accelerator
with the same owner tag in another cluster, and hostnames of two load balancers,
of another cloud and of an AWS service that is no load balancer. The account's quota
(no ARN left when one is created) is not reached in these instances; the proofs
cover it.

Properties:

- `TypeOK`: the types.
- `AtMostOneAccelerator`: no object has two accelerators of this cluster.
- `NoStaleFinding`: the reason for it. A worker that has the key is the only one;
  what it has listed still covers all the object's accelerators; those it is
  about to update or delete are there and still the object's; when it creates one
  there is none.
- `OnlyOwnerWrites`: an existing accelerator changes only while a worker has the
  object in its tags, and another cluster's never.
- `QuiescentSynced`, `QuiescentClean`: at rest (queues drained, watch empty) every
  eligible managed object with a load balancer has a complete and current
  accelerator, and every other object has none.
- `AbandonsNothing`: at any time, an accelerator that lacks a part or is
  disabled belongs to an object that is queued, in work, about to be reported, or
  waits for its load balancer.
- `ImplementsLifecycle`: refinement of `AcceleratorLifecycle`.
- `EventuallyQuiet`: after the last edit and fault, the controller rests for good.

Of `EndpointGroupBinding`:

- `TypeOK`: the types, among them that the id "" which an edit in place leaves in
  the array never reaches a status.
- `NeverAddsUnprotected`: a worker about to add an endpoint does so for a binding
  that exists and has the finalizer *now*, whatever version it goes by.
- `NamesOnce`: no status names an endpoint twice.
- `ImplementsBindingLifecycle`: refinement of `BindingLifecycle`.
- `BindingsSettle`: after the last edit, status, group and weight are what the
  binding asks for, or all is gone with it.
- `RemovesLost`, `RecordedIsBound`: what the comment and the README say, violated.

Of `Route53` (`NoStaleFinding` again: what a worker listed still holds when it acts):

- `NoOrphanRecord`: an alias of an accelerator always has an object's TXT beside it.
- `OnlyOwnerWritesRecords`: a hostname's records change only while a worker has the
  object its TXT names; somebody else's, and plain addresses, never.
- `QuiescentRecords`, `QuiescentNoRecords`: at rest every hostname an object asks
  for has its TXT and its alias, and an object that is gone or does not ask has none.
- `WantedRecordsAppear`: violated.

Of `Controllers` (`EventuallyQuiet` again, of both controllers):

- `RecordsFollow`: at rest the records of an object lead to the accelerator that
  serves it as it is now.
- `NoAcceleratorLeft`, `NoRecordLeft`: once the controller concerned is at rest,
  whatever the other one is doing, an object that is gone, unmanaged or without the
  annotation has left no accelerator and no record.

Why the bounds are enough. What makes the difference is another worker, a second
attempt, and an edit between two calls. Two workers on one object are all it takes
to break the queue's guarantee; two faults let a retry fail as well (and the
cleanup after a failed creation); three edits create, change and remove an
object; four let a service and an ingress each get their load balancer, or one
object go round a full cycle. More objects add nothing in `ownership`: by
`OnlyOwnerWrites` they share only the ARNs and the listing, which `convergence`
has with two objects. With `Crash` at one restart every call is a place where the
process may end.

For the other modules: `bindings` has one binding because bindings share only their
groups, which `shared_group` is about; two workers, so that a resync can hand out a
key while the other one works; two load balancers, since the loops over ids go
wrong with the second. Three edits create, change and delete a binding, or add and
remove its load balancers. `binding_converges` needs six: create, get a load
balancer, have it replaced, reweigh, delete. In `records` two objects can want the
same hostname, one object has hostnames in both zones, and four changes make an
object and its accelerator come and go. `records_follow` has one object: objects
share only listings and, as `records` shows, do not touch each other's records.

Fairness (`Fairness`, used by `convergence`, `binding_converges`, `records_follow`
and the violations of liveness). Weak for a worker's next call:
goroutines only block on AWS, whose calls return. Strong for taking a given key:
the queue hands keys out first in, first out, and a delay ends. Weak for the
watch, for a load balancer to become active and an accelerator to be deployed. In
`EndpointGroupBinding` also weak for the resync of a cached binding: its period is
30 s (`manager.go:53`).
Edits, faults and restarts are not fair, and their number is bounded: convergence
is about what follows the last of them. A fault may occur at any call until the
bound is used up.

Deadlock is not checked: once the edits are used up and the controller rests,
nothing is left to do.

## Known deviations

Disagreements with what the repository says, each shown by a run:

- `ingress_listener`: `createGlobalAcceleratorForIngress` returns nil when
  `createListener` fails (`global_accelerator.go:243`). The ingress is reported as
  synced, with an accelerator that has no listener, until its next change.
- `describe_swallowed`: an error of `DescribeAccelerator` makes
  `CleanupGlobalAccelerator` return nil without deleting (`global_accelerator.go:277`).
  The event "Global Accelerators are deleted" is recorded all the same.
- `recreated`: an object without a load balancer status returns before the managed
  check (`service.go:59`, `ingress.go:61`). Deleted and created again without the
  annotation before a worker gets to it, it keeps its accelerator for ever.
- `shared_group`: the last step of `reconcileUpdate` sets the weight with
  `UpdateEndpointGroup` and a list of one endpoint (`global_accelerator.go:931`), which
  drops every other binding's endpoint from the group. One binding with two load
  balancers loses the first in the same way.
- `lost_balancer`: without a load balancer `regionalCloud` is nil, and the removal of
  the old endpoints goes through it (`reconcile.go:170`): a panic on every pass of
  every leader.
- `half_created`: a pass that ends between the TXT and the A record
  (`route53.go:103`, `108`) leaves a TXT that every later pass tries to create again.

The passing runs therefore exclude exactly the following, each for the property
it would break:

- Faults at `createListener` of an ingress and at `describe` (the runs above), and
  at `changed`: `acceleratorChanged` takes unreadable tags for unchanged ones
  (`global_accelerator.go:420`), so a changed hostname tag may stay old.
- In `convergence`, edits that take the eligibility away (the update handler
  ignores an object that is not eligible any more, `controller.go:105`; README.md:101
  announces that the controller then "does nothing"), and edits that unmanage, or
  create unmanaged, an object without a load balancer status.
- In `convergence`, restarts: an object deleted while no leader runs is not in the
  next leader's list, and nothing looks for its accelerator. Restarts are checked in
  `ownership`, where `QuiescentSynced` holds with them.

- In `bindings` nothing is left out but what the run's bounds cut off; its
  properties hold through every panic. `BindingsSettle`, however, is checked with
  users who wait for the status before the next edit (`Patient`), one load
  balancer at a time, none lost for good, and no fault while the cached array is
  edited (`SpoilingFaults`). Without these:
  - a binding deleted between `AddEndpoints` and the status, or after a refused
    `UpdateStatus`, goes with an empty status and leaves the endpoint in the group
    (`reconcile.go:37`, `209`);
  - a deletion with two ids or more panics in the loop that cuts the slice it walks
    (`reconcile.go:84`), on every pass, so the finalizer never goes;
  - a load balancer replaced by one that is not active yet, or a later failure,
    leaves the informer's array without the removed id (`reconcile.go:175`), and
    what was removed there is not looked for again;
  - a binding whose service is missing only gets errors (`Missing`).
- In `records` the accelerators change freely, but these are not asked for:
  hostnames dropped from the annotation (never looked at again, `route53.go:82`), and
  the accelerator an alias leads to after the object's accelerator was replaced
  (`route53.go:377` compares it only when the object's key comes up again). An alias
  that somebody else makes beside an object's TXT is taken over, whatever it leads to
  (`route53.go:233`); no run has that edit.
- In `records_follow`, faults of `createListener` and `createEndpointGroup`: the
  accelerator is then deleted and made again under another ARN, and when the records
  were made in between they keep the old one, since nothing brings the object to the
  Route53 controller again. For the same reason the service is neither unmanaged and
  managed again nor deleted and created again in that run. No call of the Route53
  controller fails in it: `records` has those faults, and between the TXT and the
  alias they lead to the half-written hostname of `half_created`.

## What is proved

`GlobalAcceleratorProofs`, for every set of objects, workers, ARNs, versions,
edits, fault sites and bounds:

| Theorem | States |
|---|---|
| `TypeCorrect` | `Spec => []TypeOK` |
| `AtMostOne` | `Spec => []AtMostOneAccelerator` |
| `NoStale` | `Spec => []NoStaleFinding` |
| `OwnerWrites` | `Spec => OnlyOwnerWrites` |
| `RefinesLifecycle` | `Spec => ImplementsLifecycle` |
| `PortChangeSeen` | counting ports finds every change, and only changes, between lists without repetition |

Assumptions: those of `GlobalAccelerator`, which TLC evaluates in every run. They
are about types and null values, and one is about the world: at the start there
is no accelerator of this cluster. Built into the model, and so assumed by the
proofs, are that a listing contains every accelerator that exists when it is made,
that the queue does what `Reconcile` says, and that two leaders never overlap.

The argument. `AtMostOneAccelerator` is not inductive: whether a creation is safe
depends on what the worker saw calls ago. The inductive invariant is
`IInv == TypeOK /\ AtMostOneAccelerator /\ NoStaleFinding`. Its heart is
`OneWorkerPerKey`, from which it follows that the accelerators of an object change
only by the steps of the one worker that has it, so that a list made at `list`
covers them until `create`, whatever the other workers do. The
proof has one lemma per action. `WriteCall`, `AskCall` and `FollowKeeps` say
once what a call and the code after it preserve, and `OwnedEdit`, `OwnedDelete`
and `OwnedCreate` how a write moves `Owned`. `AsideKeeps` covers the other
workers.
`OwnerWrites` then needs only that the accelerator a worker writes is its object's.
`RefinesLifecycle` needs one more invariant, `AllLayered`: no endpoint group
without a listener. Its proof classifies each worker step as a creation, a
stage move or a deletion in `AcceleratorLifecycle`, and everything else as a
stutter.

`GlobalAcceleratorAtRestProofs`, about the same instances:

| Theorem | States | Assumes |
|---|---|---|
| `AccountsKept` | `Spec => []RestInv` | |
| `SyncedAtRest` | `Spec => []QuiescentSynced` | `BuildAnswered` |
| `CleanAtRest` | `Spec => []QuiescentClean` | `CleanupAnswered`, `CleanupReached`, `MaxCrashes = 0` |
| `NothingAbandoned` | `Spec => []AbandonsNothing` | all of these and `HostsReached` |

The assumptions are the known deviations above, stated for any instance, and
each theorem takes only those its property needs:

| Assumption | Says | Without it |
|---|---|---|
| `BuildAnswered` | `changed`, and `createListener` of an ingress, do not fail | their error is taken for an answer (`global_accelerator.go:420`, `:243`): no retry |
| `CleanupAnswered` | `describe` does not fail | its error is taken for "not there" (`:277`) |
| `CleanupReached` | users do not take the eligibility away, nor leave an object unmanaged and without a load balancer status | the handlers ignore the edit (`controller.go:105`), or the process function returns first (`service.go:59`) |
| `MaxCrashes = 0` | the process is not restarted | the next leader is not told of what is gone |
| `HostsReached` | a status that names load balancers names one of AWS's | the process functions skip the others, so an accelerator built or torn down half way waits for the next status |

`ownership` satisfies `BuildAnswered` (its edits are free and it restarts, and
`QuiescentSynced` is the one of the three it checks), and `convergence` all five.

The argument. A state at rest is reached in any number of ways, so the invariant
has to say at every moment what is still going to be done. `Ledger` does, for each
object whose key does *not* wait in the queue (a waiting key promises that a worker
will start from nothing, so nothing need be known). If a worker has the key, `OnIt`
holds: it works on the version that is in the cache now, in the mode that version
asks for, and the accelerator it is at is as far as the calls before its next one
bring it (`Progress`: named, tagged, with the right listener). If no worker has it,
`Settled` holds: the version needs nothing. The
steps that could break the ledger all make the key wait: an event that matters, by
the handlers (`Deliver`), an error or a load balancer that is not active, by
`Requeues`. The assumptions are where the code has such a step without that.
Two more parts close the induction: `Told`, that the last version on its way to
the informer is the one in the API server, and `AllEdited`, that objects are only
what edits make them. At rest no worker has the key, no key waits and the cache is the
object, so `Settled` is what the properties say. The proof has one lemma per
action; `OthersKept` and `AccountKept` say once that the ledger of an object is
not disturbed by the worker of another one, which follows from `OneWorkerPerKey`.

`Route53Proofs`, for every set of objects, hostnames, zones, accelerators, workers,
edits, fault sites and bounds:

| Theorem | States |
|---|---|
| `TypeCorrect` | `Spec => []TypeOK` |
| `NoOrphan` | `Spec => []NoOrphanRecord` |
| `NoStale` | `Spec => []NoStaleFinding` |
| `OwnerWritesRecords` | `Spec => OnlyOwnerWritesRecords` |

Assumptions: those of `Route53`, among them that at the start no TXT names one of
the modelled objects. The inductive invariant is
`RInv == OwnTypeOK /\ NoOrphanRecord /\ NoStaleFinding`, where `OwnTypeOK` is
`TypeOK` without the accelerators, which this controller only reads and of which
nothing needs to be known. The argument is the same as
above with records for accelerators: `RecordsOf` an object change only in steps of
the worker that has it, so what that worker listed holds until it writes.
`NoOrphanRecord` needs the second part, since whether an alias may be created
depends on a TXT seen or made calls ago, and it is what makes the order of the
writes matter: TXT before A when they appear, A before TXT when they go.

`Route53AtRestProofs`, about the same instances:

| Theorem | States | Assumes |
|---|---|---|
| `AccountsKept` | `Spec => []RestInv` | |
| `RecordsAtRest` | `Spec => []QuiescentRecords` | |
| `NoRecordsAtRest` | `Spec => []QuiescentNoRecords` | `ServicesEligible` |

`ServicesEligible`: every service is of the type and class the handlers look at; the
edit that takes the annotation off another one is not enqueued. `records` satisfies it.
`QuiescentNoRecords` itself speaks of states before the first restart.

The argument is that of the other ledger with records for parts: while a worker
ensures, every hostname it is past has both its records (`Ensured`), and while it
cleans up, every record of the object that is left is in a zone before it, or among
those it has found in this zone (`CleanedUp`). `Placed`, which closes the
induction, says that a TXT that names an object is in a hosted zone, where the cleanup
looks. `RecordsAtRest` holds in spite of `half_created`: a hostname left half written
keeps its key waiting for ever, so that is not a state at rest.

`GlobalAcceleratorStaysProofs`, about the instances of `GlobalAccelerator`:

| Theorem | States | Assumes |
|---|---|---|
| `AcceleratorsStay` | `[][\A k \in Keys : obj[k] # NoObj => Owned(k) \subseteq Owned(k)']_vars` | `NeverUnmanaged`, `CreationAnswered`, `[][CreatedAfresh]_vars` |

An accelerator is never taken from an object that is there, whatever else fails,
races or restarts. There are three ways in which the code does take it, and each is
an assumption:

| Assumption | Says | Without it |
|---|---|---|
| `CreationAnswered` | `createListener` of a service and `createEndpointGroup` do not fail | the workflow deletes what it has just made (`global_accelerator.go:140`) |
| `NeverUnmanaged` | no edit takes the managed annotation off an object that stays | that is what unmanaging is for |
| `CreatedAfresh` | an object is created again only when its old self is done with: every event delivered, its key neither queued nor with a worker | the cleanup of the old one goes on, for as long as it polls, and deletes what is the new one's by its tags |

The argument. `Lasting` is the invariant: for an object that is there no event in the
watch says that it is gone, nothing is done for it before the first event says it is
there, and whoever has it ensures (`Stays`); and whoever is about to create an endpoint
group has the listener for it (`GroupsReady`), since the missing listener is the one
error that is no failing call. The handler needs the cache to follow the
watch, and the worker's purpose follows the cache (`WorkMoves`), in which, by
`AllEdited`, only managed objects are. The module also has `Apart(of)`: when the
objects never show each other's load balancers, then neither do the copies in the
watch, the cache and the workers' hands, and the hostname tag of an accelerator
belongs to its owner.

`Route53TargetsProofs` has the lemmas on where the records of an object lead.
`Points(k, S)` says that every alias of object k, and every accelerator a worker has
found for it, is in S; `WorkPoints` that the calls of a worker keep it when the lookup
by hostname tag leads into S, and `DonePoints` that an object the controller is done
with has no records, so it leads into every S.

`ControllersProofs`, about the composition:

| Theorem | States | Assumes |
|---|---|---|
| `ImplementsAccelerators` | `Spec => G!Spec`, the `Spec` of `GlobalAccelerator` | |
| `KeepsAccelerators` | `Spec => []AcceleratorsKept`, its invariants | |
| `KeepsRecords` | `Spec => []RecordsKept`, the invariants of `Route53` | |
| `OwnerWritesBeside` | `Spec => R!OnlyOwnerWritesRecords` | |
| `SyncedBeside` | `Spec => [](G!QuiescentSynced /\ G!AtMostOneAccelerator)` | `BuildAnswered` |
| `RecordsBeside` | `Spec => []R!QuiescentRecords` | |
| `NothingLeftInAws` | `Spec => []NoAcceleratorLeft` | `CleanupAnswered`, `CleanupReached` |
| `NothingLeftInRoute53` | `Spec => []NoRecordLeft` | `ServicesEligible` |
| `RecordsFollowAccelerators` | `Spec /\ []OwnBalancers(of) /\ [][CreatedAfresh]_vars => []RecordsFollow` | `BuildAnswered`, `NeverUnmanaged`, `CreationAnswered`, `ServicesEligible` |

`GP` and `RP` in that module are the modules with the proofs about each controller,
given the constants and variables that `Controllers` gives to `G` and `R`. Their
assumptions become goals, which `AcceleratorConstants` and `RecordConstants` prove from
the assumptions of `Controllers`; with these every lemma there can be cited here.

The argument. On the side of the accelerators the composition is a refinement: each
step is one of `GlobalAccelerator` or leaves its variables alone (`SameWork`,
`SameTake`, `SameDeliver` and `SameAws` expand the definitions on both sides; they
come to the same formulas). On the side of the records it is not one of `Route53`,
where accelerators change in one step by an edit of the run: here any step of the
other controller may change them. `KeepsRecords` shows that the invariants bear it:
`RecordStep` says that a step is one of Route53's own or `Elsewhere`, which touches
nothing of Route53's but the accelerators, and the invariants do not mention these.
What an accelerator is decides only whether and when records are written, never
that they come in pairs and belong to their object.

`RecordsFollow` relates the two. At rest there is one accelerator that serves the
object (`SyncedBeside`) and an alias for each hostname (`RecordsBeside`); it is left
to show that they are the same, which depends on what the lookup found any number
of steps before, perhaps while the accelerator was still being built. The
invariant is `FollowInv(of)`, beside those of the two controllers:

- `RecordsLead`: what the Route53 controller has found and written for an object that
  is there leads to accelerators the object owns *now*. It survives the steps of the
  other controller because accelerators stay (`GP!Lasting`), and the steps of a Route53
  worker because the tags lead nowhere else (`TagsLead`).
- `GP!Apart(of)` and `ViewsApart(of)`, for `TagsLead`: the lookup is by the
  hostname tag alone, so an accelerator is the object's only if no other object shows
  that load balancer.

With at most one accelerator, "leads to an accelerator of the object" is "leads to the
one that serves it". The hypotheses are the known deviations again: a creation that fails
half way, or unmanaging, makes the accelerator anew; an object created again
while either controller is still at its old self may have its new accelerator deleted
or keep old records; objects that share a load balancer find each other's
accelerators; a service that is not eligible is deleted without its records. `of` is any
function from load balancers to objects and is not bounded by the instance.
`records_follow` satisfies all of them (its one object is created once), so the
theorem says of every instance what the run checks on that one.

`EndpointGroupBindingProofs`, for every set of bindings, workers, refs, load
balancers, groups, edits, fault sites and bounds:

| Theorem | States |
|---|---|
| `TypeCorrect` | `Spec => []TypeOK` |
| `NeverAdds` | `Spec => []NeverAddsUnprotected` |
| `NamedOnce` | `Spec => []NamesOnce` |
| `RefinesBindingLifecycle` | `Spec => ImplementsBindingLifecycle` |

Assumptions: those of `EndpointGroupBinding`, about types and null values (an edit
that asks for nothing where nothing is, is none). That the webhook sees every
edit and that the API server refuses a write based on an older version is built
into the model.

The argument. What a worker may do depends on a version that may be many versions
old, so the inductive invariant `BInv` speaks about the history of a binding.
`Guarded(k, p)` says: if version p of binding k has the finalizer and is not being
deleted, then every later version has the finalizer too. `History` says that of
every version from the informer's on, and `OnTask` of the version each worker goes
by. It holds because only `reconcileDelete` takes the finalizer away, which needs
a version that is being deleted to have been the informer's, so a worker that
reads later never sees an older one; and a worker that read earlier is another one,
whom `OneWorkerPerKey` excludes. `NeverAdds` is `Guarded` of the worker's version at the
newest one. `NamedOnce` needs that the array edited in place, `cached`, never names
an id twice before the deletion (`Distinct`, in which the id "" does not count), and
that a status is written only when nothing in it is stale, so "" is not in it.
`RefinesBindingLifecycle` looks at one version after another: `Moves` lists what a
version may become by one write, `MovesRefine` shows each to be a step of
`BindingLifecycle`, and `WorkRefines` and `EditRefines` that the four writes of a
worker and the edits of a user are among them; everything else is a stutter. The
proof has one lemma per action; `Step` is what an action may do to the rest,
`Quiet` what a call to AWS does, and `WriteKeeps` and `AppendKeeps` a new version.

Only model-checked:

- liveness under fairness, which is out of reach of TLAPS here: `EventuallyQuiet`
  and `BindingsSettle`. Every invariant and every action property that a passing run
  checks is proved as well.
- the other direction, that the hypotheses of the theorems cannot be spared, is shown
  only by the runs that expect a violation, and for the others by the
  code quoted under "Known deviations".

## Not modelled

- The pure functions on text and ports: `GetLBNameFromHostname` and the region it
  returns, `DetectCloudProvider` (what they decide is kept, how they cut strings is
  not), `listenerForService` and `listenerForIngress`, which make the list of ports
  out of an object, and `acceleratorTags`. They are sequential functions of one
  argument that tables of examples reach, as the tests beside them do; the two
  boundary cases that they leave open, a hostname without a dot and a port listed
  twice, are listed as hazards. The comparison of the lists of ports is modelled
  (`PortChanged`).
- User tags, IP address type and client IP preservation of accelerators and endpoints:
  they are written along with the calls modelled, and nothing the controllers
  decide depends on them, except where a user tag overwrites an owner tag.
- The webhook's HTTP server and JSON handling, the commands and the wiring of clients:
  input and output around the decision `Admits`.
- The election itself, the rate limiter, the informers and generated code: client-go
  and its generators. What the controllers rely on is in the models.

## Running

    tlc -workers 2 -config GlobalAcceleratorOwnership.cfg MCGlobalAccelerator.tla
    tlc -workers 2 -config BindingSafety.cfg MCEndpointGroupBinding.tla
    tlc -workers 2 -config Route53Records.cfg MCRoute53.tla
    tlc -workers 2 -config ControllersRecords.cfg MCControllers.tla
    tlapm GlobalAcceleratorProofs.tla
    tlapm GlobalAcceleratorAtRestProofs.tla
    tlapm Route53Proofs.tla
    tlapm Route53AtRestProofs.tla
    tlapm GlobalAcceleratorStaysProofs.tla
    tlapm Route53TargetsProofs.tla
    tlapm ControllersProofs.tla
    tlapm EndpointGroupBindingProofs.tla

`ownership` has about 470,000 distinct states, `convergence` 360,000, `bindings`
480,000, `records` 1,050,000 and `records_follow` 230,000; each takes one to two
minutes on two cores, the proofs some minutes each.
