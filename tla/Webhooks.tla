------------------------------ MODULE Webhooks ------------------------------
(***************************************************************************)
(* Webhook delivery (pulsepay/webhooks): endpoints are registered and      *)
(* deactivated by requests, WebhookDispatcher.dispatch makes an event and  *)
(* a deliver_webhook job for each active endpoint, and deliver posts it.   *)
(*                                                                         *)
(* The job worker runs one handler at a time, deliver_webhook or the       *)
(* process_refund that calls dispatch.  It alone writes events, so its     *)
(* copy of one is the row.  An event is named by its dispatch and its      *)
(* endpoint, a job by its event and a number.  Delays of retries are left  *)
(* out: StormQueue.tla shows that no job starts early.                     *)
(***************************************************************************)
EXTENDS Naturals, FiniteSets

CONSTANTS
  Endpoints,      \* webhook endpoints of one customer
  Dispatches,     \* calls of dispatch
  MaxDeliveries,  \* attempts of an event: 5
  MaxAttempts,    \* Job.max_attempts
  MaxFaults       \* bound: database errors and crashes together

ASSUME WebhooksAssumption ==
  /\ IsFiniteSet(Endpoints) /\ Endpoints # {}
  /\ IsFiniteSet(Dispatches) /\ Dispatches # {}
  /\ {MaxDeliveries, MaxAttempts} \subseteq Nat \ {0}
  /\ MaxFaults \in Nat

Events == Dispatches \X Endpoints

(* An event has one delivery after another, and a fault can add one.       *)
Jobs == Events \X (1..MaxDeliveries + MaxFaults)

VARIABLES
  endpoint,     \* endpoint[e]: unregistered, active or inactive
  event,        \* the committed row of each event
  dispatch,     \* each dispatch's progress
  worker,       \* the worker's progress in deliver_webhook
  life,         \* jobs.status of the deliver_webhook jobs
  attempts,     \* jobs.attempt_count
  posts,        \* history: times an event was posted
  received,     \* history: events their endpoint has received
  late,         \* history: posts to an endpoint after its deactivation
  skipped,      \* history: events a job did not find
  dbErrors, crashes

jobVars == <<life, attempts>>
postVars == <<posts, received, late>>
faultVars == <<dbErrors, crashes>>
vars == <<endpoint, event, dispatch, worker, jobVars, postVars, skipped,
          faultVars>>

Queue == INSTANCE JobLifecycle

(* A dispatch: "new"; "sending" the endpoints are read, those in `left`    *)
(* have no event yet; "done".  A delivery: "found" its event is read;      *)
(* "posting" the endpoint is active; then what the answer leads to;        *)
(* "rescheduled" the next job is committed; "return" the handler is done;  *)
(* "ended" the consumer task is.                                           *)
TypeOK ==
  /\ endpoint \in [Endpoints -> {"unregistered", "active", "inactive"}]
  /\ event \in [Events ->
       [status : {"none", "queued", "failed", "delivered", "dead"},
        attempt_count : 0..MaxDeliveries + MaxFaults]]
  /\ dispatch \in [Dispatches ->
       [pc : {"new", "sending", "done"}, to : SUBSET Endpoints,
        left : SUBSET Endpoints]]
  /\ worker \in
       [pc : {"idle", "found", "posting", "succeeded", "exhausted",
              "retrying", "rescheduled", "return", "ended"}, job : Jobs]
  /\ life \in [Jobs -> {"absent", "queued", "running", "completed", "dead"}]
  /\ attempts \in [Jobs -> 0..MaxAttempts]
  /\ posts \in [Events -> Nat]
  /\ received \subseteq Events
  /\ late \in [Endpoints -> Nat]
  /\ skipped \subseteq Events
  /\ {dbErrors, crashes} \subseteq Nat /\ dbErrors + crashes <= MaxFaults

Exists(v) == event[v].status # "none"
JobsOf(v) == {j \in Jobs : j[1] = v /\ life[j] # "absent"}
Settled == {"delivered", "dead"}

Init ==
  /\ endpoint = [e \in Endpoints |-> "unregistered"]
  /\ event = [v \in Events |-> [status |-> "none", attempt_count |-> 0]]
  /\ dispatch = [d \in Dispatches |-> [pc |-> "new", to |-> {}, left |-> {}]]
  /\ worker = [pc |-> "idle", job |-> CHOOSE j \in Jobs : TRUE]
  /\ Queue!Init
  /\ posts = [v \in Events |-> 0]
  /\ received = {}
  /\ late = [e \in Endpoints |-> 0]
  /\ skipped = {}
  /\ dbErrors = 0
  /\ crashes = 0

-----------------------------------------------------------------------------
(* Requests.                                                               *)

RegisterEndpoint(e) ==
  /\ endpoint[e] = "unregistered"
  /\ endpoint' = [endpoint EXCEPT ![e] = "active"]
  /\ UNCHANGED <<event, dispatch, worker, jobVars, postVars, skipped, faultVars>>

DeactivateEndpoint(e) ==
  /\ endpoint[e] = "active"
  /\ endpoint' = [endpoint EXCEPT ![e] = "inactive"]
  /\ UNCHANGED <<event, dispatch, worker, jobVars, postVars, skipped, faultVars>>

-----------------------------------------------------------------------------
(* dispatch, run by the worker in process_refund.                          *)

(* Variant of WorkerFree: dispatch is called outside of the worker.        *)
WorkerFreeBeside == worker.pc = "idle"

WorkerFree ==
  /\ worker.pc = "idle"
  /\ \A d \in Dispatches : dispatch[d].pc # "sending"

StartDispatch(d) ==
  /\ WorkerFree
  /\ dispatch[d].pc = "new"
  /\ LET active == {e \in Endpoints : endpoint[e] = "active"}
     IN  dispatch' = [dispatch EXCEPT ![d] =
                        [pc |-> "sending", to |-> active, left |-> active]]
  /\ UNCHANGED <<endpoint, event, worker, jobVars, postVars, skipped, faultVars>>

(* The event is flushed, its job is committed.                             *)
EnqueueDelivery(d, e) ==
  /\ dispatch[d].pc = "sending"
  /\ e \in dispatch[d].left
  /\ dispatch' = [dispatch EXCEPT ![d].left = @ \ {e}]
  /\ Queue!Create(<<<<d, e>>, 1>>)
  /\ UNCHANGED <<endpoint, event, worker, postVars, skipped, faultVars>>

CommitDispatch(d) ==
  /\ dispatch[d].pc = "sending"
  /\ dispatch[d].left = {}
  /\ dispatch' = [dispatch EXCEPT ![d].pc = "done"]
  /\ event' = [v \in Events |->
                 IF v[1] = d /\ v[2] \in dispatch[d].to
                 THEN [status |-> "queued", attempt_count |-> 0] ELSE event[v]]
  /\ UNCHANGED <<endpoint, worker, jobVars, postVars, skipped, faultVars>>

-----------------------------------------------------------------------------
(* deliver.                                                                *)

Delivered == worker.job[1]      \* the event under delivery
Goto(pc) == worker' = [worker EXCEPT !.pc = pc]

(* The job starts; without its event the handler returns at once.          *)
StartDelivery(j) ==
  /\ WorkerFree
  /\ Queue!Begin(j)
  /\ worker' = [pc |-> IF Exists(j[1]) THEN "found" ELSE "return", job |-> j]
  /\ skipped' = skipped \cup ({j[1]} \ {v \in Events : Exists(v)})
  /\ UNCHANGED <<endpoint, event, dispatch, postVars, faultVars>>

(* Variant of Settle: the attempt is counted before and after the answer.  *)
SettleTwice(status) ==
  event' = [event EXCEPT ![Delivered] =
              [status |-> status, attempt_count |-> @.attempt_count + 2]]

(* The attempt is counted with the commit of what came of it.              *)
Settle(status) ==
  event' = [event EXCEPT ![Delivered] =
              [status |-> status, attempt_count |-> @.attempt_count + 1]]

(* Variant of MayPost: is_active is not looked at.                         *)
MayPostAlways(e) == TRUE

MayPost(e) == endpoint[e] = "active"

CheckEndpoint ==
  /\ worker.pc = "found"
  /\ IF MayPost(Delivered[2])
     THEN Goto("posting") /\ UNCHANGED event
     ELSE /\ event' = [event EXCEPT ![Delivered].status = "dead"]
          /\ Goto("return")
  /\ UNCHANGED <<endpoint, dispatch, jobVars, postVars, skipped, faultVars>>

(* Variant of LastAttempt: one attempt more.                               *)
LastAttemptLate(v) == event[v].attempt_count + 1 > MaxDeliveries

LastAttempt(v) == event[v].attempt_count + 1 >= MaxDeliveries

(* Variant of Outcome: an answer that is no success is taken for one.      *)
OutcomeAnswered(arrives, succeeds) == "succeeded"

(* A success is an answer to what has arrived; it may be lost.             *)
Outcome(arrives, succeeds) ==
  CASE arrives /\ succeeds -> "succeeded"
    [] ~(arrives /\ succeeds) /\ LastAttempt(Delivered) -> "exhausted"
    [] ~(arrives /\ succeeds) /\ ~LastAttempt(Delivered) -> "retrying"

Post ==
  /\ worker.pc = "posting"
  /\ \E arrives, succeeds \in BOOLEAN :
       /\ received' = received \cup {v \in {Delivered} : arrives}
       /\ Goto(Outcome(arrives, succeeds))
  /\ posts' = [posts EXCEPT ![Delivered] = @ + 1]
  /\ late' = [late EXCEPT ![Delivered[2]] =
                IF endpoint[Delivered[2]] = "inactive" THEN @ + 1 ELSE @]
  /\ UNCHANGED <<endpoint, event, dispatch, jobVars, skipped, faultVars>>

(* Variant of AfterEnd: no return, the code goes on to enqueue a retry.    *)
AfterEndRetry == "retrying"

AfterEnd == "return"

CommitDelivered ==
  /\ worker.pc = "succeeded"
  /\ Settle("delivered")
  /\ Goto(AfterEnd)
  /\ UNCHANGED <<endpoint, dispatch, jobVars, postVars, skipped, faultVars>>

CommitDead ==
  /\ worker.pc = "exhausted"
  /\ Settle("dead")
  /\ Goto(AfterEnd)
  /\ UNCHANGED <<endpoint, dispatch, jobVars, postVars, skipped, faultVars>>

(* Variant of NextJob: no job for the next attempt.                        *)
NextJobNone(v) == UNCHANGED jobVars

NextJob(v) == Queue!Create(<<v, Cardinality(JobsOf(v)) + 1>>)

(* enqueue_job commits in a session of its own, before the attempt is.     *)
EnqueueRetry ==
  /\ worker.pc = "retrying"
  /\ NextJob(Delivered)
  /\ Goto("rescheduled")
  /\ UNCHANGED <<endpoint, event, dispatch, postVars, skipped, faultVars>>

CommitFailed ==
  /\ worker.pc = "rescheduled"
  /\ Settle("failed")
  /\ Goto("return")
  /\ UNCHANGED <<endpoint, dispatch, jobVars, postVars, skipped, faultVars>>

FinishJob ==
  /\ worker.pc = "return"
  /\ Queue!Succeed(worker.job)
  /\ Goto("idle")
  /\ UNCHANGED <<endpoint, event, dispatch, postVars, skipped, faultVars>>

-----------------------------------------------------------------------------
(* Faults: what is not committed is rolled back.                           *)

MayFail == dbErrors + crashes < MaxFaults

(* The worker is at a deliver_webhook job.                                 *)
Busy == worker.pc \notin {"idle", "ended"}

(* Of the session of deliver_webhook: its job is run again.                *)
DeliveryDbError ==
  /\ MayFail
  /\ Busy /\ worker.pc # "return"
  /\ Queue!Raise(worker.job)
  /\ Goto("idle")
  /\ dbErrors' = dbErrors + 1
  /\ UNCHANGED <<endpoint, event, dispatch, postVars, skipped, crashes>>

(* Of the session of process_refund: another dispatch may follow.          *)
DispatchDbError(d) ==
  /\ MayFail
  /\ dispatch[d].pc = "sending"
  /\ dispatch' = [dispatch EXCEPT ![d].pc = "done"]
  /\ dbErrors' = dbErrors + 1
  /\ UNCHANGED <<endpoint, event, worker, jobVars, postVars, skipped, crashes>>

(* The handler the worker was at is cut short.                             *)
CutShort(pc) ==
  /\ dispatch' = [d \in Dispatches |->
       [dispatch[d] EXCEPT !.pc = IF @ = "sending" THEN "done" ELSE @]]
  /\ Goto(pc)

(* Nobody catches a database error outside of the handler, of a job of     *)
(* whatever kind: the job, if there is one, stays "running", and the       *)
(* consumer task ends.                                                     *)
ConsumerEnds ==
  /\ MayFail
  /\ worker.pc # "ended"
  /\ CutShort("ended")
  /\ dbErrors' = dbErrors + 1
  /\ UNCHANGED <<endpoint, event, jobVars, postVars, skipped, crashes>>

(* The process starts again, with a new consumer; the worker's job stays   *)
(* "running".                                                              *)
Crash ==
  /\ MayFail
  /\ CutShort("idle")
  /\ crashes' = crashes + 1
  /\ UNCHANGED <<endpoint, event, jobVars, postVars, skipped, dbErrors>>

-----------------------------------------------------------------------------
DispatchStep(d) ==
  \/ \E e \in Endpoints : EnqueueDelivery(d, e)
  \/ CommitDispatch(d)

DeliveryStep ==
  \/ \E j \in Jobs : StartDelivery(j)
  \/ CheckEndpoint
  \/ Post
  \/ CommitDelivered
  \/ CommitDead
  \/ EnqueueRetry
  \/ CommitFailed
  \/ FinishJob

WorkerStep == DeliveryStep \/ \E d \in Dispatches : DispatchStep(d)

Next ==
  \/ \E e \in Endpoints : RegisterEndpoint(e) \/ DeactivateEndpoint(e)
  \/ \E d \in Dispatches : StartDispatch(d) \/ DispatchDbError(d)
  \/ WorkerStep
  \/ DeliveryDbError
  \/ ConsumerEnds
  \/ Crash

Spec == Init /\ [][Next]_vars

(* The worker goes on while it has a handler to run and its consumer task  *)
(* lives: one that has ended has no step to take.  A POST ends after two   *)
(* seconds at the latest.  Dispatches have no fairness to start.           *)
FairSpec == Spec /\ WF_vars(WorkerStep)

-----------------------------------------------------------------------------
(* The job of an event finds it, although dispatch commits the job first:  *)
(* the worker that could take the job is busy in dispatch.                 *)
EventIsFound == \A v \in Events : Exists(v) => v \notin skipped

(* An event is posted five times at most, and once more for each attempt a *)
(* fault has left uncounted, and once for each job that a database error,  *)
(* after the retry was enqueued, has left beside the retry.                *)
PostsBounded ==
  \A v \in Events : posts[v] <= MaxDeliveries + crashes + 2 * dbErrors

(* An event without an end has a job to deliver it, or one that was cut    *)
(* short or is listed among the dead ones.                                 *)
NeverDropped ==
  \A v \in Events :
    event[v].status \in {"queued", "failed"} =>
      \E j \in JobsOf(v) : life[j] \in {"queued", "running", "dead"}

(* A delivered event has been received, and one is given up for dead only  *)
(* after all its attempts or at an endpoint that is not active any more.   *)
EndIsHonest ==
  \A v \in Events :
    /\ event[v].status = "delivered" => v \in received
    /\ event[v].status = "dead" =>
         event[v].attempt_count >= MaxDeliveries \/ endpoint[v[2]] = "inactive"

(* A deactivated endpoint gets no more than the one delivery under way.    *)
AtMostOneLate == \A e \in Endpoints : late[e] <= 1

(* An event keeps its end, unless a database error has left two jobs to    *)
(* deliver it: deliver does not look at the status.                        *)
EndIsFinal ==
  [][\A v \in Events :
       event[v].status \in Settled /\ dbErrors = 0 => event'[v] = event[v]]_vars

(* A job that is queued, or that the consumer is at.                       *)
Alive(j) == life[j] = "queued" \/ (life[j] = "running" /\ Busy /\ worker.job = j)

(* No job of v is alive, but one is dead or was cut short, "running" with  *)
(* nobody at it, by a crash or the end of the consumer task.               *)
Abandoned(v) ==
  /\ \E j \in JobsOf(v) : life[j] \in {"running", "dead"}
  /\ \A j \in JobsOf(v) : ~Alive(j)

(* Every event comes to an end unless its last job is dead or was cut      *)
(* short, or the consumer task has ended.                                  *)
EventEnds ==
  \A v \in Events :
    Exists(v) ~> \/ event[v].status \in Settled
                 \/ Abandoned(v)
                 \/ worker.pc = "ended"
=============================================================================
