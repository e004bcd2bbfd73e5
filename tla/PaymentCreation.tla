--------------------------- MODULE PaymentCreation ---------------------------
(***************************************************************************)
(* How a payment comes to be (pulsepay/payments/service.py, router.py):    *)
(* concurrent POST /payments/ requests with idempotency keys, the stored   *)
(* answers and their expiry, and the process_payment job that each request *)
(* enqueues in a transaction of its own before its payment is committed.   *)
(*                                                                         *)
(* A payment is named by the request that inserts it, and so is its job.   *)
(* Jobs live as JobLifecycle says, StormQueue.tla is shown to carry them   *)
(* so; what a job does with a payment it finds is one step here and the    *)
(* subject of PaymentProcessing.tla.  A key's uniqueness on payments is a  *)
(* constraint of the database: an INSERT waits for another of the same key *)
(* that is not committed, and fails once one is.                           *)
(***************************************************************************)
EXTENDS Naturals

CONSTANTS
  Requests,     \* requests to POST /payments/, each with a session
  Keys,         \* Idempotency-Key headers
  NoRequest,    \* stands for an absent record and for no answer
  Failure,      \* an answer of status 500
  MaxAttempts,  \* Job.max_attempts
  MaxCrashes,   \* bound: times the process dies
  MaxDbErrors   \* bound: database errors of requests and worker together

ASSUME PaymentCreationAssumption ==
  /\ Requests # {} /\ Keys # {}
  /\ NoRequest \notin Requests /\ Failure \notin Requests
  /\ NoRequest # Failure
  /\ MaxAttempts \in Nat \ {0}
  /\ {MaxCrashes, MaxDbErrors} \subseteq Nat

VARIABLES
  payment,      \* payment[r]: the row request r inserted
  record,       \* record[k]: whose answer idempotency_records stores for k
  expired,      \* keys whose record is past its expires_at
  request,      \* each request's progress and key
  answer,       \* answer[r]: the payment it was answered with, or Failure
  worker,       \* the worker's job and whether it has found its payment
  life,         \* jobs.status
  attempts,     \* jobs.attempt_count
  early,        \* history: jobs last taken before their payment's commit
  crashes, dbErrors

jobVars == <<worker, life, attempts, early>>
recordVars == <<record, expired>>
requestVars == <<request, answer>>
faultVars == <<crashes, dbErrors>>
vars == <<payment, recordVars, requestVars, jobVars, faultVars>>

Queue == INSTANCE JobLifecycle WITH Jobs <- Requests

(* "inserted" is flushed and not committed: nobody else sees it.           *)
Committed == {"pending", "processed"}

(* A request: "new"; "fresh" no record found; "stale" an expired one       *)
(* found; "inserted" payment flushed; "enqueued" job committed; "done".    *)
(* The worker: "ended" once its consumer task is.                          *)
TypeOK ==
  /\ payment \in [Requests -> {"none", "inserted"} \cup Committed]
  /\ record \in [Keys -> Requests \cup {NoRequest}]
  /\ expired \subseteq Keys
  /\ request \in [Requests ->
       [pc : {"new", "fresh", "stale", "inserted", "enqueued", "done"}, key : Keys]]
  /\ answer \in [Requests -> Requests \cup {NoRequest, Failure}]
  /\ worker \in [pc : {"idle", "found", "skipped", "ended"}, job : Requests]
  /\ life \in [Requests -> {"absent", "queued", "running", "completed", "dead"}]
  /\ attempts \in [Requests -> 0..MaxAttempts]
  /\ early \subseteq Requests
  /\ crashes \in 0..MaxCrashes
  /\ dbErrors \in 0..MaxDbErrors

Key(r) == request[r].key
Started(r) == request[r].pc # "new"
SameKey(k) == {r \in Requests : Started(r) /\ Key(r) = k}

Init ==
  /\ payment = [r \in Requests |-> "none"]
  /\ record = [k \in Keys |-> NoRequest]
  /\ expired = {}
  /\ request = [r \in Requests |-> [pc |-> "new", key |-> CHOOSE k \in Keys : TRUE]]
  /\ answer = [r \in Requests |-> NoRequest]
  /\ worker = [pc |-> "idle", job |-> CHOOSE r \in Requests : TRUE]
  /\ life = [r \in Requests |-> "absent"]
  /\ attempts = [r \in Requests |-> 0]
  /\ early = {}
  /\ crashes = 0
  /\ dbErrors = 0

-----------------------------------------------------------------------------
(* create_payment.                                                         *)

Goto(r, pc) == request' = [request EXCEPT ![r].pc = pc]
Answer(r, what) == Goto(r, "done") /\ answer' = [answer EXCEPT ![r] = what]

(* The record of the key is looked up; one that has not expired answers.   *)
CheckKey(r, k) ==
  /\ request[r].pc = "new"
  /\ LET answered == record[k] # NoRequest /\ k \notin expired
     IN  /\ request' = [request EXCEPT ![r] =
              [key |-> k,
               pc |-> IF answered THEN "done"
                      ELSE IF record[k] = NoRequest THEN "fresh" ELSE "stale"]]
         /\ answer' = [answer EXCEPT ![r] = IF answered THEN record[k] ELSE @]
  /\ UNCHANGED <<payment, recordVars, jobVars, faultVars>>

(* Variant of InsertMayRun: requests of one key exclude one another from   *)
(* the lookup on, and neither goes first.                                  *)
InsertMayRunAlone(r) ==
  /\ request[r].pc \in {"fresh", "stale"}
  /\ \A q \in SameKey(Key(r)) \ {r} : request[q].pc = "done"

(* Nobody holds an uncommitted row of this key.                            *)
InsertMayRun(r) ==
  /\ request[r].pc \in {"fresh", "stale"}
  /\ \A q \in SameKey(Key(r)) : payment[q] # "inserted"

(* Variant of KeyTaken: no unique constraint on payments.                  *)
KeyNeverTaken(k) == FALSE

KeyTaken(k) == \E q \in SameKey(k) : payment[q] \in Committed

(* An expired record is deleted, the payment inserted, both uncommitted.   *)
InsertPayment(r) ==
  /\ InsertMayRun(r)
  /\ ~KeyTaken(Key(r))
  /\ payment' = [payment EXCEPT ![r] = "inserted"]
  /\ Goto(r, "inserted")
  /\ UNCHANGED <<recordVars, answer, jobVars, faultVars>>

(* Variant of RecordAfterRefusal: the error is stored as the key's answer. *)
RecordRefusal(k) == [record EXCEPT ![k] = Failure]

RecordAfterRefusal(k) == record

(* IntegrityError: nothing is kept, the deletion of the record included.   *)
InsertRefused(r) ==
  /\ InsertMayRun(r)
  /\ KeyTaken(Key(r))
  /\ Answer(r, Failure)
  /\ record' = RecordAfterRefusal(Key(r))
  /\ UNCHANGED <<payment, expired, jobVars, faultVars>>

(* Variant of CreateJob: the job is forgotten.                             *)
CreateNoJob(r) == UNCHANGED <<life, attempts>>

CreateJob(r) == Queue!Create(r)

(* enqueue_job commits the job in a session of its own.                    *)
EnqueueProcessJob(r) ==
  /\ request[r].pc = "inserted"
  /\ CreateJob(r)
  /\ Goto(r, "enqueued")
  /\ UNCHANGED <<payment, recordVars, answer, worker, early, faultVars>>

(* Variant of AtCommit: the row is not committed, only its record is.       *)
AtCommitNothing(r) == payment

AtCommit(r) == [payment EXCEPT ![r] = "pending"]

(* Payment and record become visible together; then the answer goes out.   *)
CommitPayment(r) ==
  /\ request[r].pc = "enqueued"
  /\ payment' = AtCommit(r)
  /\ record' = [record EXCEPT ![Key(r)] = r]
  /\ expired' = expired \ {Key(r)}
  /\ Answer(r, r)
  /\ UNCHANGED <<jobVars, faultVars>>

(* The record's 24 hours are over.                                         *)
ExpireRecord(k) ==
  /\ record[k] # NoRequest
  /\ k \notin expired
  /\ expired' = expired \cup {k}
  /\ UNCHANGED <<payment, record, requestVars, jobVars, faultVars>>

-----------------------------------------------------------------------------
(* The worker: a job looks for its payment; one that is not there, or not  *)
(* yet, is skipped and the job completes all the same.                     *)

InHandler == worker.pc \in {"found", "skipped"}

StartJob(r) ==
  /\ worker.pc = "idle"
  /\ Queue!Begin(r)
  /\ worker' = [pc |-> IF payment[r] \in Committed THEN "found" ELSE "skipped",
                job |-> r]
  /\ early' = IF payment[r] \in Committed THEN early \ {r} ELSE early \cup {r}
  /\ UNCHANGED <<payment, recordVars, requestVars, faultVars>>

(* What the job makes of its payment.                                      *)
Processed ==
  [payment EXCEPT ![worker.job] = IF worker.pc = "found" THEN "processed" ELSE @]

FinishJob ==
  /\ InHandler
  /\ Queue!Succeed(worker.job)
  /\ payment' = Processed
  /\ worker' = [worker EXCEPT !.pc = "idle"]
  /\ UNCHANGED <<recordVars, requestVars, early, faultVars>>

(* Variant of EndRaised: a job that raises is not run again.               *)
EndRaisedCompleted(r) == Queue!Succeed(r)

(* One attempt is spent: the job is queued again, or dead.                 *)
EndRaised(r) == Queue!Raise(r)

(* The handler raises: at a payment an earlier attempt has processed       *)
(* (PaymentAlreadyProcessed), or at an error of the database, before or    *)
(* after its work was committed.                                           *)
JobRaises ==
  /\ InHandler
  /\ EndRaised(worker.job)
  /\ worker' = [worker EXCEPT !.pc = "idle"]
  /\ \/ payment[worker.job] = "processed" /\ UNCHANGED <<payment, dbErrors>>
     \/ /\ dbErrors < MaxDbErrors
        /\ dbErrors' = dbErrors + 1
        /\ payment' \in {payment, Processed}
  /\ UNCHANGED <<recordVars, requestVars, early, crashes>>

(* Nobody catches a database error outside of the handler, of this job or  *)
(* of one of another kind: the job, if there is one, stays "running", with *)
(* its work done or not, and the consumer task ends.                       *)
ConsumerEnds ==
  /\ worker.pc # "ended"
  /\ dbErrors < MaxDbErrors
  /\ dbErrors' = dbErrors + 1
  /\ payment' \in {payment, Processed}
  /\ worker' = [worker EXCEPT !.pc = "ended"]
  /\ UNCHANGED <<recordVars, requestVars, life, attempts, early, crashes>>

-----------------------------------------------------------------------------
(* Faults: what a request has not committed is rolled back.                *)

InFlight(r) == request[r].pc \in {"fresh", "stale", "inserted", "enqueued"}

RolledBack(r) == IF payment[r] = "inserted" THEN "none" ELSE payment[r]

DbError(r) ==
  /\ dbErrors < MaxDbErrors
  /\ InFlight(r)
  /\ payment' = [payment EXCEPT ![r] = RolledBack(r)]
  /\ Answer(r, Failure)
  /\ dbErrors' = dbErrors + 1
  /\ UNCHANGED <<recordVars, jobVars, crashes>>

(* The process dies and starts again, with a new consumer: no answer, and  *)
(* the worker's job stays "running".                                       *)
Crash ==
  /\ crashes < MaxCrashes
  /\ payment' = [r \in Requests |-> RolledBack(r)]
  /\ request' = [r \in Requests |->
       [request[r] EXCEPT !.pc = IF InFlight(r) THEN "done" ELSE @]]
  /\ worker' = [worker EXCEPT !.pc = "idle"]
  /\ crashes' = crashes + 1
  /\ UNCHANGED <<recordVars, answer, life, attempts, early, dbErrors>>

-----------------------------------------------------------------------------
RequestStep(r) ==
  \/ InsertPayment(r)
  \/ InsertRefused(r)
  \/ EnqueueProcessJob(r)
  \/ CommitPayment(r)

WorkerStep == (\E r \in Requests : StartJob(r)) \/ FinishJob
WorkerFault == JobRaises \/ ConsumerEnds

Next ==
  \/ \E r \in Requests, k \in Keys : CheckKey(r, k)
  \/ \E r \in Requests : RequestStep(r) \/ DbError(r)
  \/ \E k \in Keys : ExpireRecord(k)
  \/ WorkerStep
  \/ WorkerFault
  \/ Crash

Spec == Init /\ [][Next]_vars

(* A request that has begun goes on, and the worker with its jobs as long  *)
(* as its consumer task lives: one that has ended has no step to take.     *)
(* Nobody owes a request, an error, a crash or a restart.                  *)
FairSpec ==
  /\ Spec
  /\ \A r \in Requests : WF_vars(RequestStep(r))
  /\ WF_vars(WorkerStep)

-----------------------------------------------------------------------------
(* No two requests with one key are answered with two payments, be they    *)
(* concurrent, before or after the record's expiry, or after a crash.  Of  *)
(* requests that are answered with an error instead it says nothing:       *)
(* KeyIsHonoured is about them.                                            *)
SameKeySameAnswer ==
  \A q, r \in Requests :
    Key(q) = Key(r) /\ {answer[q], answer[r]} \subseteq Requests
      => answer[q] = answer[r]

(* An answer names a payment that is there to stay.                        *)
AnswerIsCommitted ==
  \A r \in Requests : answer[r] \in Requests => payment[answer[r]] \in Committed

(* A payment that waits to be processed has a job that is queued, or was   *)
(* under way, or is listed among the dead ones: through errors of requests *)
(* and of the worker, refused keys and rolled back requests, only a job    *)
(* taken before its payment's commit completes for nothing.  Enqueueing    *)
(* before the commit is what leaves no payment without a job, and what     *)
(* makes that one case.                                                    *)
DroppedOnlyIfEarly ==
  \A r \in Requests \ early :
    payment[r] = "pending" => life[r] \in {"queued", "running", "dead"}

(* A job committed as running that no consumer is at: a crash or the end   *)
(* of the consumer task has cut it short, and nothing runs it again.       *)
CutShort(r) == life[r] = "running" /\ ~(InHandler /\ worker.job = r)

(* A committed payment is processed in the end unless its job was taken    *)
(* early, was cut short or is dead, or the consumer task has ended.        *)
PendingIsProcessedUnless ==
  \A r \in Requests :
    payment[r] = "pending" ~>
      \/ payment[r] # "pending"
      \/ r \in early \/ CutShort(r) \/ life[r] = "dead"
      \/ worker.pc = "ended"

(* Every request comes to its end: requests wait for one another on a key, *)
(* never in a circle.                                                      *)
EveryRequestEnds ==
  \A r \in Requests : Started(r) ~> request[r].pc = "done"

(* A committed payment's job processes it.                                 *)
PendingIsProcessed ==
  \A r \in Requests : payment[r] = "pending" ~> payment[r] # "pending"

(* A request is answered with a payment unless an error or a crash comes:  *)
(* one whose key a concurrent request holds, and one whose key was seen    *)
(* more than 24 hours ago, like any other.                                 *)
KeyIsHonoured ==
  [][\A r \in Requests :
       request[r].pc # "done" /\ request'[r].pc = "done" =>
         \/ answer'[r] \in Requests
         \/ dbErrors' # dbErrors \/ crashes' # crashes]_vars
=============================================================================
