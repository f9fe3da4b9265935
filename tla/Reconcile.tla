----------------------------- MODULE Reconcile -----------------------------
(***************************************************************************)
(* The loop every controller runs its keys through: ProcessNextWorkItem    *)
(* and reconcileHandler of pkg/reconcile/reconcile.go, over the            *)
(* rate-limiting work queue of client-go.                                  *)
(*                                                                         *)
(* The queue is external code.  Of it only what the controllers rely on is *)
(* kept: a key waits at most once however often it is added, a key handed  *)
(* to a worker is not handed to another one before Done, and a key added   *)
(* while a worker has it is handed out again after Done.  "pending" is the *)
(* union of the keys queued, the keys marked dirty during processing and   *)
(* the keys whose delay (AddRateLimited, AddAfter) is still running: a     *)
(* delay only says that Get comes later, which interleaving already says.  *)
(***************************************************************************)
EXTENDS FiniteSets

\* How a process function returns: an error, an error wrapped as NoRetry, a
\* Result with RequeueAfter > 0, a Result with Requeue, or the zero Result.
Outcomes == {"err", "noRetry", "after", "requeue", "ok"}

QueueOver(K) == [pending : SUBSET K, processing : SUBSET K]

EmptyQueue == [pending |-> {}, processing |-> {}]

Add(q, k) == [q EXCEPT !.pending = @ \union {k}]

\* Mistake: a key is handed out while another worker still has it.
CanGetTwice(q, k) == k \in q.pending

\* Get hands out a waiting key that no worker is processing.
CanGet(q, k) == k \in q.pending \ q.processing

Get(q, k) == [pending    |-> q.pending \ {k},
              processing |-> q.processing \union {k}]

Done(q, k) == [q EXCEPT !.processing = @ \ {k}]

\* Mistake: only errors put the key back.
RequeuesErrors(res) == res = "err"

\* The outcomes after which reconcileHandler puts the key back.
Requeues(res) == res \in {"err", "after", "requeue"}

\* The end of a key: what reconcileHandler does with the outcome, then the
\* deferred Done of ProcessNextWorkItem.
Finished(q, k, res) == Done(IF Requeues(res) THEN Add(q, k) ELSE q, k)

\* No key waits and no worker is busy.
Drained(q) == q.pending = {} /\ q.processing = {}
=============================================================================
