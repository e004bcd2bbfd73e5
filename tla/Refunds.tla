------------------------------- MODULE Refunds -------------------------------
(***************************************************************************)
(* RefundService (pulsepay/refunds/service.py): concurrent POST            *)
(* /payments/{id}/refunds requests, each with a session of its own, and    *)
(* the worker's process_refund job with the webhook events it dispatches.  *)
(*                                                                         *)
(* A refund is named by the request that inserts it, and so is its job.    *)
(* Amounts count in units of the currency's smallest part.  A write is in  *)
(* the table from its commit on; what a session has flushed and not        *)
(* committed is in its pc.  Nobody but the worker updates a refund.        *)
(* Jobs live as JobLifecycle says, StormQueue.tla is shown to carry them.  *)
(***************************************************************************)
EXTENDS Naturals, FiniteSets

CONSTANTS
  Payments,     \* payments, all of the same amount
  Total,        \* Payment.amount
  Requests,     \* requests to POST /payments/{id}/refunds
  Keys,         \* Idempotency-Key headers
  Amounts,      \* amounts asked for
  Full,         \* no amount asked for: the whole remainder
  Endpoints,    \* active webhook endpoints of the customer
  None,         \* no answer
  Refused,      \* an answer of status 409 or 422
  Failure,      \* an answer of status 500
  MaxAttempts,  \* Job.max_attempts
  MaxCrashes,   \* bound: times the process dies
  MaxDbErrors   \* bound: database errors the sessions meet

ASSUME RefundsAssumption ==
  /\ Requests # {}
  /\ Total \in Nat \ {0}
  /\ Amounts \subseteq Nat \ {0}   \* InitiateRefundRequest: gt=0
  /\ Full \notin Nat
  /\ {None, Refused, Failure} \cap Requests = {}
  /\ MaxAttempts \in Nat \ {0}
  /\ {MaxCrashes, MaxDbErrors} \subseteq Nat

VARIABLES
  paid,         \* payments in state success
  refund,       \* refund[r]: the committed row of request r
  request,      \* each request's progress
  answer,       \* the refund it was answered with, or an error
  worker,       \* the worker's progress in process_refund
  events,       \* committed refund.completed events of a refund, per endpoint
  deliveries,   \* deliver_webhook jobs enqueued for them
  life,         \* jobs.status of the process_refund jobs
  attempts,     \* jobs.attempt_count
  overlapped,   \* history: payments two requests have refunded at a time
  crashes, dbErrors

requestVars == <<request, answer, overlapped>>
eventVars == <<events, deliveries>>
jobVars == <<life, attempts>>
faultVars == <<crashes, dbErrors>>
vars == <<paid, refund, requestVars, worker, eventVars, jobVars, faultVars>>

Queue == INSTANCE JobLifecycle WITH Jobs <- Requests

Settled == {"completed", "failed"}

(* A request: "new"; "unknown" its key has no refund; "allowed" the amount *)
(* is decided; "inserted" flushed; "enqueued" job committed; "done".       *)
(* The worker: "missing" no refund found; "found" one to process;          *)
(* "completing" the processor has refunded it, events are dispatched;      *)
(* "failing" it has not; "return" the handler is done; "ended" the         *)
(* consumer task is.                                                       *)
TypeOK ==
  /\ paid \subseteq Payments
  /\ refund \in [Requests -> [status : {"none"}, amount : {0}] \cup
                  [status : {"pending"} \cup Settled, amount : 1..Total]]
  /\ request \in [Requests ->
       [pc : {"new", "unknown", "allowed", "inserted", "enqueued", "done"},
        payment : Payments, key : Keys, asked : Amounts \cup {Full},
        amount : 0..Total]]
  /\ answer \in [Requests -> Requests \cup {None, Refused, Failure}]
  /\ worker \in
       [pc : {"idle", "missing", "found", "completing", "failing", "return", "ended"},
        job : Requests, sent : SUBSET Endpoints]
  /\ events \in [Requests \X Endpoints -> Nat]
  /\ deliveries \in [Requests \X Endpoints -> Nat]
  /\ life \in [Requests -> {"absent", "queued", "running", "completed", "dead"}]
  /\ attempts \in [Requests -> 0..MaxAttempts]
  /\ overlapped \subseteq Payments
  /\ crashes \in 0..MaxCrashes
  /\ dbErrors \in 0..MaxDbErrors

Key(r) == request[r].key
Exists(r) == refund[r].status # "none"

(* The units of p's amount that its refunds of such a status refund: as    *)
(* many of each refund as its amount says, so their number is the sum.     *)
UnitsRefunded(p, statuses) ==
  {unit \in Requests \X (1..Total) :
     /\ request[unit[1]].payment = p
     /\ refund[unit[1]].status \in statuses
     /\ unit[2] <= refund[unit[1]].amount}

(* Variant of Refunded: a refund counts only once it is completed.         *)
RefundedCompleted(p) == Cardinality(UnitsRefunded(p, {"completed"}))

(* _sum_non_failed_refunds                                                 *)
Refunded(p) == Cardinality(UnitsRefunded(p, {"pending", "completed"}))

Init ==
  /\ paid = {}
  /\ refund = [r \in Requests |-> [status |-> "none", amount |-> 0]]
  /\ request \in [Requests ->
       [pc : {"new"}, payment : Payments, key : Keys,
        asked : Amounts \cup {Full}, amount : {0}]]
  /\ answer = [r \in Requests |-> None]
  /\ worker = [pc |-> "idle", job |-> CHOOSE r \in Requests : TRUE, sent |-> {}]
  /\ events = [e \in Requests \X Endpoints |-> 0]
  /\ deliveries = [e \in Requests \X Endpoints |-> 0]
  /\ life = [r \in Requests |-> "absent"]
  /\ attempts = [r \in Requests |-> 0]
  /\ overlapped = {}
  /\ crashes = 0
  /\ dbErrors = 0

(* PaymentProcessing.tla, seen from here.                                  *)
PaymentSucceeds(p) ==
  /\ p \notin paid
  /\ paid' = paid \cup {p}
  /\ UNCHANGED <<refund, requestVars, worker, eventVars, jobVars, faultVars>>

-----------------------------------------------------------------------------
(* initiate_refund.                                                        *)

Goto(r, pc) == request' = [request EXCEPT ![r].pc = pc]
Answer(r, what) == Goto(r, "done") /\ answer' = [answer EXCEPT ![r] = what]

(* A refund of this key is the answer, whatever payment it is of.          *)
CheckKey(r) ==
  /\ request[r].pc = "new"
  /\ LET known == {q \in Requests : Exists(q) /\ Key(q) = Key(r)}
     IN  \/ known = {} /\ Goto(r, "unknown") /\ UNCHANGED answer
         \/ \E q \in known : Answer(r, q)
  /\ UNCHANGED <<paid, refund, overlapped, worker, eventVars, jobVars, faultVars>>

(* The amount r would refund with `before` refunded already.               *)
AmountOf(r, before) ==
  IF request[r].asked = Full THEN Total - before ELSE request[r].asked

(* Variant of Allowed: nothing has to remain.                              *)
AllowedNothing(r, before) == before + AmountOf(r, before) <= Total

Allowed(r, before) == before < Total /\ before + AmountOf(r, before) <= Total

(* A request is between its sum and its commit.                            *)
Deciding(r) == request[r].pc \in {"allowed", "inserted", "enqueued"}

(* The payment is read, and the refunds of it are summed up.               *)
CheckAmount(r) ==
  /\ request[r].pc = "unknown"
  /\ LET p == request[r].payment
         before == Refunded(p)
     IN  IF p \in paid /\ Allowed(r, before)
         THEN /\ request' = [request EXCEPT ![r].pc = "allowed",
                                            ![r].amount = AmountOf(r, before)]
              /\ overlapped' = overlapped \cup
                   {q \in {p} : \E s \in Requests :
                      Deciding(s) /\ request[s].payment = q}
              /\ UNCHANGED answer
         ELSE Answer(r, Refused) /\ UNCHANGED overlapped
  /\ UNCHANGED <<paid, refund, worker, eventVars, jobVars, faultVars>>

(* The INSERT waits for an uncommitted one of the same key.                *)
InsertMayRun(r) ==
  /\ request[r].pc = "allowed"
  /\ \A q \in Requests :
       request[q].pc \in {"inserted", "enqueued"} => Key(q) # Key(r)

(* Variant of KeyTaken: no unique constraint on refunds.                   *)
KeyNeverTaken(r) == FALSE

KeyTaken(r) == \E q \in Requests : Exists(q) /\ Key(q) = Key(r)

InsertRefund(r) ==
  /\ InsertMayRun(r)
  /\ ~KeyTaken(r)
  /\ Goto(r, "inserted")
  /\ UNCHANGED <<paid, refund, answer, overlapped, worker, eventVars, jobVars, faultVars>>

(* IntegrityError.                                                         *)
InsertRefused(r) ==
  /\ InsertMayRun(r)
  /\ KeyTaken(r)
  /\ Answer(r, Failure)
  /\ UNCHANGED <<paid, refund, overlapped, worker, eventVars, jobVars, faultVars>>

(* enqueue_job commits in a session of its own.                            *)
EnqueueProcessRefund(r) ==
  /\ request[r].pc = "inserted"
  /\ Queue!Create(r)
  /\ Goto(r, "enqueued")
  /\ UNCHANGED <<paid, refund, answer, overlapped, worker, eventVars, faultVars>>

CommitRefund(r) ==
  /\ request[r].pc = "enqueued"
  /\ refund' = [refund EXCEPT ![r] =
                  [status |-> "pending", amount |-> request[r].amount]]
  /\ Answer(r, r)
  /\ UNCHANGED <<paid, overlapped, worker, eventVars, jobVars, faultVars>>

-----------------------------------------------------------------------------
(* process_refund.                                                         *)

WorkerGoto(pc) == worker' = [worker EXCEPT !.pc = pc]

(* Variant of Found: process_refund takes a settled refund, too.           *)
FoundSettled(r) == IF Exists(r) THEN "found" ELSE "missing"

Found(r) == CASE ~Exists(r) -> "missing"
              [] refund[r].status = "pending" -> "found"
              [] refund[r].status \in Settled -> "return"

(* The job starts and its handler reads the refund.                        *)
StartJob(r) ==
  /\ worker.pc = "idle"
  /\ Queue!Begin(r)
  /\ worker' = [pc |-> Found(r), job |-> r, sent |-> {}]
  /\ UNCHANGED <<paid, refund, requestVars, eventVars, faultVars>>

(* Variant of EndMissing: the job is skipped, as process_payment does.      *)
EndSkipped(r) == Queue!Succeed(r)

EndMissing(r) == Queue!Raise(r)

(* PaymentNotFound leaves the handler.                                     *)
RefundMissing ==
  /\ worker.pc = "missing"
  /\ EndMissing(worker.job)
  /\ WorkerGoto("idle")
  /\ UNCHANGED <<paid, refund, requestVars, eventVars, faultVars>>

(* "processing" is flushed, the processor asked.                           *)
ProcessorAnswers ==
  /\ worker.pc = "found"
  /\ \E pc \in {"completing", "failing"} : WorkerGoto(pc)
  /\ UNCHANGED <<paid, refund, requestVars, eventVars, jobVars, faultVars>>

(* dispatch: the event is flushed, its delivery job is committed.          *)
Dispatch(e) ==
  /\ worker.pc = "completing"
  /\ e \notin worker.sent
  /\ worker' = [worker EXCEPT !.sent = @ \cup {e}]
  /\ deliveries' = [deliveries EXCEPT ![<<worker.job, e>>] = @ + 1]
  /\ UNCHANGED <<paid, refund, requestVars, events, jobVars, faultVars>>

(* The commit at the end of dispatch is the refund's, too.                 *)
CommitCompleted ==
  /\ worker.pc = "completing"
  /\ worker.sent = Endpoints
  /\ refund' = [refund EXCEPT ![worker.job].status = "completed"]
  /\ events' = [x \in DOMAIN events |->
                  events[x] + (IF x[1] = worker.job THEN 1 ELSE 0)]
  /\ WorkerGoto("return")
  /\ UNCHANGED <<paid, requestVars, deliveries, jobVars, faultVars>>

(* Variant of AtFailure: the commit is missing.                            *)
AtFailureNothing(r) == refund

AtFailure(r) == [refund EXCEPT ![r].status = "failed"]

CommitFailed ==
  /\ worker.pc = "failing"
  /\ refund' = AtFailure(worker.job)
  /\ WorkerGoto("return")
  /\ UNCHANGED <<paid, requestVars, eventVars, jobVars, faultVars>>

FinishJob ==
  /\ worker.pc = "return"
  /\ Queue!Succeed(worker.job)
  /\ WorkerGoto("idle")
  /\ UNCHANGED <<paid, refund, requestVars, eventVars, faultVars>>

-----------------------------------------------------------------------------
(* Faults: what a session has not committed is rolled back.                *)

Started(r) == request[r].pc \notin {"new", "done"}

RequestDbError(r) ==
  /\ dbErrors < MaxDbErrors
  /\ Started(r)
  /\ Answer(r, Failure)
  /\ dbErrors' = dbErrors + 1
  /\ UNCHANGED <<paid, refund, overlapped, worker, eventVars, jobVars, crashes>>

(* The worker is at its job.                                               *)
Busy == worker.pc \notin {"idle", "ended"}

(* Also the refresh after a commit: the job is run again all the same.     *)
WorkerDbError ==
  /\ dbErrors < MaxDbErrors
  /\ Busy
  /\ Queue!Raise(worker.job)
  /\ WorkerGoto("idle")
  /\ dbErrors' = dbErrors + 1
  /\ UNCHANGED <<paid, refund, requestVars, eventVars, crashes>>

(* Nobody catches a database error outside of the handler, of this job or  *)
(* of one of another kind: the job, if there is one, stays "running", and  *)
(* the consumer task ends.                                                 *)
ConsumerEnds ==
  /\ dbErrors < MaxDbErrors
  /\ worker.pc # "ended"
  /\ WorkerGoto("ended")
  /\ dbErrors' = dbErrors + 1
  /\ UNCHANGED <<paid, refund, requestVars, eventVars, jobVars, crashes>>

(* The process starts again, with a new consumer; the worker's job stays   *)
(* "running".                                                              *)
Crash ==
  /\ crashes < MaxCrashes
  /\ request' = [r \in Requests |->
       [request[r] EXCEPT !.pc = IF Started(r) THEN "done" ELSE @]]
  /\ WorkerGoto("idle")
  /\ crashes' = crashes + 1
  /\ UNCHANGED <<paid, refund, answer, overlapped, eventVars, jobVars, dbErrors>>

-----------------------------------------------------------------------------
RequestStep(r) ==
  \/ CheckKey(r)
  \/ CheckAmount(r)
  \/ InsertRefund(r)
  \/ InsertRefused(r)
  \/ EnqueueProcessRefund(r)
  \/ CommitRefund(r)

WorkerStep ==
  \/ \E r \in Requests : StartJob(r)
  \/ RefundMissing
  \/ ProcessorAnswers
  \/ \E e \in Endpoints : Dispatch(e)
  \/ CommitCompleted
  \/ CommitFailed
  \/ FinishJob

Next ==
  \/ \E p \in Payments : PaymentSucceeds(p)
  \/ \E r \in Requests : RequestStep(r) \/ RequestDbError(r)
  \/ WorkerStep
  \/ WorkerDbError
  \/ ConsumerEnds
  \/ Crash

Spec == Init /\ [][Next]_vars

(* The worker goes on while it has a job and its consumer task lives: one  *)
(* that has ended has no step to take.                                     *)
FairSpec == Spec /\ WF_vars(WorkerStep)

-----------------------------------------------------------------------------
(* A key makes one refund, and every request with the key that is answered *)
(* with a refund is answered with that one; the loser of two concurrent    *)
(* requests is answered with an error (InsertRefused).                     *)
SameKeyOneRefund ==
  \A q, r \in Requests :
    Key(q) = Key(r) =>
      /\ Exists(q) /\ Exists(r) => q = r
      /\ {answer[q], answer[r]} \subseteq Requests => answer[q] = answer[r]

(* No more than the payment is ever refunded, as long as no two requests   *)
(* of one payment are between their sum and their commit at a time: not by *)
(* refunds of the remainder, refunds freed by a failure, repeated keys,    *)
(* jobs that run twice or requests that a fault cut short.                 *)
RefundsFit ==
  \A p \in Payments : p \notin overlapped => Refunded(p) <= Total

(* No more than the payment is ever refunded.                              *)
NeverOverRefunded == \A p \in Payments : Refunded(p) <= Total

(* The customer's endpoints are told of a completed refund once each, of   *)
(* another never, and each event has a job that delivers it: dispatch()    *)
(* commits refund and events together, the jobs before them.               *)
AnnouncedOnce ==
  \A r \in Requests, e \in Endpoints :
    /\ events[r, e] = IF refund[r].status = "completed" THEN 1 ELSE 0
    /\ deliveries[r, e] >= events[r, e]

(* A pending refund is never forgotten: its job is queued, or was under    *)
(* way, or is listed among the dead ones.  A job that ran before its       *)
(* refund was committed does not end as completed.                         *)
NeverDropped ==
  \A r \in Requests :
    refund[r].status = "pending" => life[r] \in {"queued", "running", "dead"}

(* A settled refund never changes, by a job that is run again or otherwise *)
SettledIsFinal ==
  [][\A r \in Requests :
       refund[r].status \in Settled => refund'[r] = refund[r]]_vars

(* The job of r was cut short, "running" with nobody at it, by a crash or  *)
(* the end of the consumer task.                                           *)
CutShort(r) == life[r] = "running" /\ ~(Busy /\ worker.job = r)

(* A refund is settled in the end unless its job has used up its attempts, *)
(* on errors or before the refund was there to be found, or was cut short, *)
(* or the consumer task has ended.                                         *)
RefundSettles ==
  \A r \in Requests :
    refund[r].status = "pending" ~>
      \/ refund[r].status \in Settled
      \/ life[r] = "dead" \/ CutShort(r)
      \/ worker.pc = "ended"
=============================================================================
