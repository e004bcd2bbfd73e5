-------------------------- MODULE PaymentProcessing --------------------------
(***************************************************************************)
(* How a payment that exists is confirmed (pulsepay/payments/service.py,   *)
(* pulsepay/jobs/handlers.py): PaymentService.confirm_payment and          *)
(* mark_payment_failed_max_retries, called by the worker's process_payment *)
(* and retry_payment jobs and by POST /payments/{id}/confirm.              *)
(*                                                                         *)
(* Every caller has a database session of its own.  A session reads a row  *)
(* once, at session.get(), and from then on works on its cached copy; a    *)
(* flush writes the columns the copy changed, takes the row's lock and     *)
(* keeps it to the commit; nobody sees the write before the commit, and    *)
(* readers wait for nobody (READ COMMITTED).                               *)
(*                                                                         *)
(* Jobs live as JobLifecycle says; StormQueue.tla is shown to carry them   *)
(* so.  Their delays are left out: a queued job is taken at any time.      *)
(* MaxJobs, MaxCrashes and MaxDbErrors are bounds of the model.            *)
(***************************************************************************)
EXTENDS Naturals, Sequences, FiniteSets
LOCAL INSTANCE SequencesExt

CONSTANTS
  Payments,     \* payments, created and committed with their first job
  Clients,      \* requests to POST /payments/{id}/confirm
  Worker,       \* the one consumer task of JobWorker
  MaxAttempts,  \* Job.max_attempts
  MaxRetries,   \* settings().MAX_PAYMENT_RETRY_ATTEMPTS
  MaxJobs,      \* bound: retry_payment jobs of one payment
  MaxCrashes,   \* bound: times the process dies
  MaxDbErrors   \* bound: database errors the sessions meet

ASSUME PaymentProcessingAssumption ==
  /\ Payments # {}
  /\ Worker \notin Clients
  /\ MaxAttempts \in Nat \ {0} /\ MaxRetries \in Nat \ {0}
  /\ {MaxJobs, MaxCrashes, MaxDbErrors} \subseteq Nat

Sessions == Clients \cup {Worker}

(* Job <<p, 0>> is the process_payment job of p, the others are its        *)
(* retry_payment jobs.                                                     *)
Jobs == Payments \X (0..MaxJobs)
IsRetry(j) == j[2] > 0

VARIABLES
  payments,     \* the payments table
  session,      \* each caller's progress, payment, copy read and copy now
  current,      \* the job the worker is at
  life,         \* jobs.status
  attempts,     \* jobs.attempt_count
  authorized,   \* history: times the processor authorized p
  confirms,     \* history: confirmations of p that were committed
  crashes, dbErrors

jobVars == <<life, attempts>>
chargeVars == <<authorized, confirms>>
faultVars == <<crashes, dbErrors>>
vars == <<payments, session, current, jobVars, chargeVars, faultVars>>

Queue == INSTANCE JobLifecycle

Statuses == {"pending", "processing", "success", "failed"}
Terminal == {"success", "failed"}

Row == [status : Statuses, retry_count : Nat,
        failure_class : {"none", "soft", "hard"}, history : Seq(Statuses)]

(* pc: "idle"; "loaded" the row is read; "held" the attempt is flushed and *)
(* the processor asked; "mark" the last retry is used up and the payment   *)
(* to be marked failed; "enqueue" a retry is to be enqueued; "return" the  *)
(* handler is done; "done" the request is answered; "ended" the worker's   *)
(* consumer task is.                                                       *)
Session ==
  [pc : {"idle", "loaded", "held", "mark", "enqueue", "return", "done", "ended"},
   payment : Payments, base : Row, mem : Row]

TypeOK ==
  /\ payments \in [Payments -> Row]
  /\ session \in [Sessions -> Session]
  /\ current \in Jobs
  /\ life \in [Jobs -> {"absent", "queued", "running", "completed", "dead"}]
  /\ attempts \in [Jobs -> 0..MaxAttempts]
  /\ authorized \in [Payments -> Nat]
  /\ confirms \in [Payments -> Nat]
  /\ crashes \in 0..MaxCrashes
  /\ dbErrors \in 0..MaxDbErrors

Created == [status |-> "pending", retry_count |-> 0, failure_class |-> "none",
            history |-> <<"pending">>]

Init ==
  /\ payments = [p \in Payments |-> Created]
  /\ session = [s \in Sessions |->
       [pc |-> "idle", payment |-> CHOOSE p \in Payments : TRUE,
        base |-> Created, mem |-> Created]]
  /\ current = CHOOSE j \in Jobs : TRUE
  /\ life = [j \in Jobs |-> IF IsRetry(j) THEN "absent" ELSE "queued"]
  /\ attempts = [j \in Jobs |-> 0]
  /\ authorized = [p \in Payments |-> 0]
  /\ confirms = [p \in Payments |-> 0]
  /\ crashes = 0
  /\ dbErrors = 0

-----------------------------------------------------------------------------
(* Sessions.                                                               *)

(* What the table holds once a session that read `base` commits `mem`:     *)
(* an UPDATE of the columns that differ.                                   *)
Merge(row, base, mem) ==
  [column \in DOMAIN row |->
     IF mem[column] # base[column] THEN mem[column] ELSE row[column]]

(* Nobody else has the row flushed and uncommitted.                        *)
Unlocked(p, s) ==
  \A t \in Sessions \ {s} : ~(session[t].pc = "held" /\ session[t].payment = p)

(* PaymentStateMachine.transition on a copy; its callers never ask for one *)
(* it refuses.                                                             *)
ValidTransitions == {<<"pending", "processing">>, <<"processing", "success">>,
                     <<"processing", "failed">>}

Transition(mem, target) ==
  [mem EXCEPT !.status = target, !.history = Append(@, target)]

ToProcessing(mem) ==
  IF mem.status = "pending" THEN Transition(mem, "processing") ELSE mem

(* The handler, or the request, ends: the worker goes on to `pc`.          *)
After(s, pc) == IF s = Worker THEN pc ELSE "done"

Goto(s, pc) == session' = [session EXCEPT ![s].pc = pc]

(* s commits `mem` on its payment and goes on to `pc` with that copy.      *)
Commit(s, mem, pc) ==
  LET p == session[s].payment
  IN  /\ payments' = [payments EXCEPT ![p] = Merge(@, session[s].base, mem)]
      /\ session' = [session EXCEPT ![s] =
                       [pc |-> pc, payment |-> p, base |-> mem, mem |-> mem]]

(* An exception leaves the handler, or becomes an error response.          *)
Raises(s) ==
  /\ Goto(s, After(s, "idle"))
  /\ IF s = Worker THEN Queue!Raise(current) ELSE UNCHANGED jobVars

-----------------------------------------------------------------------------
(* The callers.                                                            *)

(* The worker takes a job; its handler reads the payment.                  *)
TakeJob(j) ==
  /\ session[Worker].pc = "idle"
  /\ Queue!Begin(j)
  /\ current' = j
  /\ session' = [session EXCEPT ![Worker] =
       [pc |-> "loaded", payment |-> j[1],
        base |-> payments[j[1]], mem |-> payments[j[1]]]]
  /\ UNCHANGED <<payments, chargeVars, faultVars>>

(* POST /payments/{p}/confirm reads the payment.                           *)
RequestConfirm(c, p) ==
  /\ session[c].pc = "idle"
  /\ session' = [session EXCEPT ![c] =
       [pc |-> "loaded", payment |-> p, base |-> payments[p], mem |-> payments[p]]]
  /\ UNCHANGED <<payments, current, jobVars, chargeVars, faultVars>>

(* retry_payment gives up on a payment that has used up its retries.       *)
GivesUp(s) ==
  s = Worker /\ IsRetry(current) /\ session[s].mem.retry_count >= MaxRetries

Confirming(s) == session[s].pc = "loaded" /\ ~GivesUp(s)

(* Variant of Refused: a settled payment is attempted again.               *)
RefusedNever(mem) == FALSE

(* PaymentAlreadyProcessed, by the copy.                                   *)
Refused(mem) == mem.status \in Terminal

(* No handler catches it.                                                  *)
RefuseTerminal(s) ==
  /\ Confirming(s)
  /\ Refused(session[s].mem)
  /\ Raises(s)
  /\ UNCHANGED <<payments, current, chargeVars, faultVars>>

(* Variants of Attempted: the attempt is not counted; the payment succeeds *)
(* before the processor has answered.                                      *)
AttemptedUncounted(mem) == ToProcessing(mem)
AttemptedAsSuccess(mem) ==
  [Transition(ToProcessing(mem), "success") EXCEPT !.retry_count = @ + 1]

Attempted(mem) == [ToProcessing(mem) EXCEPT !.retry_count = @ + 1]

(* The attempt is counted and flushed; then the processor is asked.        *)
FlushAttempt(s) ==
  /\ Confirming(s)
  /\ ~Refused(session[s].mem)
  /\ Unlocked(session[s].payment, s)
  /\ session' = [session EXCEPT ![s].pc = "held", ![s].mem = Attempted(@)]
  /\ UNCHANGED <<payments, current, jobVars, chargeVars, faultVars>>

(* outcome < 0.85                                                          *)
Authorize(s) ==
  /\ session[s].pc = "held"
  /\ Commit(s, [Transition(session[s].mem, "success")
                  EXCEPT !.failure_class = "none"],
            After(s, "return"))
  /\ authorized' = [authorized EXCEPT ![session[s].payment] = @ + 1]
  /\ confirms' = [confirms EXCEPT ![session[s].payment] = @ + 1]
  /\ UNCHANGED <<current, jobVars, faultVars>>

(* Variant of AfterSoftFailure: the worker forgets the retry.              *)
AfterSoftFailureReturn(s) == After(s, "return")

AfterSoftFailure(s) ==
  IF session[s].mem.retry_count >= MaxRetries THEN "mark" ELSE After(s, "enqueue")

(* outcome < 0.95: committed; then marked failed, or raised to the caller. *)
FailSoftly(s) ==
  /\ session[s].pc = "held"
  /\ Commit(s, [session[s].mem EXCEPT !.failure_class = "soft"],
            AfterSoftFailure(s))
  /\ confirms' = [confirms EXCEPT ![session[s].payment] = @ + 1]
  /\ UNCHANGED <<current, jobVars, authorized, faultVars>>

(* The processor declines.                                                 *)
FailHard(s) ==
  /\ session[s].pc = "held"
  /\ Commit(s, [Transition(session[s].mem, "failed")
                  EXCEPT !.failure_class = "hard"],
            After(s, "return"))
  /\ confirms' = [confirms EXCEPT ![session[s].payment] = @ + 1]
  /\ UNCHANGED <<current, jobVars, authorized, faultVars>>

(* mark_payment_failed_max_retries, on the copy the session already has.   *)
Marking(s) == session[s].pc = "mark" \/ (session[s].pc = "loaded" /\ GivesUp(s))

(* Variants of GivenUp: failure_class gets what failure_reason should;     *)
(* giving up counts as an attempt.                                         *)
GivenUpSwapped(mem) == [Transition(ToProcessing(mem), "failed")
                          EXCEPT !.failure_class = "max_retries_exceeded"]
GivenUpCounted(mem) == [Transition(ToProcessing(mem), "failed")
                          EXCEPT !.failure_class = "hard", !.retry_count = @ + 1]

GivenUp(mem) == [Transition(ToProcessing(mem), "failed")
                   EXCEPT !.failure_class = "hard"]

MarkFailed(s) ==
  /\ Marking(s)
  /\ session[s].mem.status \notin Terminal
  /\ Unlocked(session[s].payment, s)
  /\ Commit(s, GivenUp(session[s].mem), After(s, "return"))
  /\ UNCHANGED <<current, jobVars, chargeVars, faultVars>>

MarkTerminal(s) ==
  /\ Marking(s)
  /\ \/ session[s].mem.status = "failed" /\ Goto(s, After(s, "return"))
                                         /\ UNCHANGED jobVars
     \/ session[s].mem.status = "success" /\ Raises(s)
  /\ UNCHANGED <<payments, current, chargeVars, faultVars>>

(* The handler catches the soft failure and enqueues a retry_payment job.  *)
EnqueueRetry ==
  /\ session[Worker].pc = "enqueue"
  /\ \E n \in 1..MaxJobs :
       /\ \A m \in 1..(n - 1) : life[<<current[1], m>>] # "absent"
       /\ Queue!Create(<<current[1], n>>)
  /\ Goto(Worker, "return")
  /\ UNCHANGED <<payments, current, chargeVars, faultVars>>

FinishJob ==
  /\ session[Worker].pc = "return"
  /\ Queue!Succeed(current)
  /\ Goto(Worker, "idle")
  /\ UNCHANGED <<payments, current, chargeVars, faultVars>>

-----------------------------------------------------------------------------
(* Faults.                                                                 *)

Busy(s) == session[s].pc \in {"loaded", "held", "mark", "enqueue", "return"}

(* The processor may have authorized an attempt that is rolled back.       *)
MayLoseAnswer(s) ==
  authorized' \in
    {authorized} \cup
    (IF session[s].pc = "held"
     THEN {[authorized EXCEPT ![session[s].payment] = @ + 1]} ELSE {})

(* A statement, a commit, a refresh or enqueue_job() raises: the session   *)
(* rolls back what it has not committed.                                   *)
DbError(s) ==
  /\ dbErrors < MaxDbErrors
  /\ Busy(s)
  /\ dbErrors' = dbErrors + 1
  /\ Raises(s)
  /\ MayLoseAnswer(s)
  /\ UNCHANGED <<payments, current, confirms, crashes>>

(* Nobody catches a database error outside of the handler, of this job or  *)
(* of one of another kind: the job, if there is one, stays "running", and  *)
(* the consumer task ends.                                                 *)
ConsumerEnds ==
  /\ dbErrors < MaxDbErrors
  /\ session[Worker].pc # "ended"
  /\ dbErrors' = dbErrors + 1
  /\ Goto(Worker, "ended")
  /\ MayLoseAnswer(Worker)
  /\ UNCHANGED <<payments, current, jobVars, confirms, crashes>>

(* Variant of LifeAfterCrash: the job the worker was at is queued again.   *)
LifeRequeued == [j \in Jobs |-> IF life[j] = "running" THEN "queued" ELSE life[j]]

LifeAfterCrash == life

(* The process dies and starts again, with a new consumer.  The job the    *)
(* worker was at stays "running"; answers of the processor may be lost     *)
(* with the sessions that asked.                                           *)
Crash ==
  /\ crashes < MaxCrashes
  /\ crashes' = crashes + 1
  /\ session' = [s \in Sessions |->
       [session[s] EXCEPT !.pc = IF @ = "idle" THEN @ ELSE After(s, "idle")]]
  /\ \E lost \in SUBSET {session[s].payment : s \in
                           {t \in Sessions : session[t].pc = "held"}} :
       authorized' = [p \in Payments |->
                        authorized[p] + (IF p \in lost THEN 1 ELSE 0)]
  /\ life' = LifeAfterCrash
  /\ UNCHANGED <<payments, current, attempts, confirms, dbErrors>>

-----------------------------------------------------------------------------
Confirmation(s) ==
  \/ RefuseTerminal(s)
  \/ FlushAttempt(s)
  \/ Authorize(s)
  \/ FailSoftly(s)
  \/ FailHard(s)
  \/ MarkFailed(s)
  \/ MarkTerminal(s)

WorkerStep ==
  (\E j \in Jobs : TakeJob(j)) \/ Confirmation(Worker) \/ EnqueueRetry \/ FinishJob

ClientStep(c) ==
  (\E p \in Payments : RequestConfirm(c, p)) \/ Confirmation(c)

(* A quiet system, with nothing left to confirm, may stop.                 *)
Next ==
  \/ WorkerStep
  \/ \E c \in Clients : ClientStep(c)
  \/ \E s \in Sessions : DbError(s)
  \/ ConsumerEnds
  \/ Crash

Spec == Init /\ [][Next]_vars

(* The worker goes on while it has a job and its consumer task lives: one  *)
(* that has ended has no step to take.  Sessions end.                      *)
FairSpec ==
  /\ Spec
  /\ WF_vars(WorkerStep)
  /\ \A c \in Clients : WF_vars(Confirmation(c))

-----------------------------------------------------------------------------
(* The column state_history agrees with itself and with the status: it     *)
(* starts at pending, each entry follows the one before by a transition of *)
(* PaymentStateMachine, and the last is the status, whatever stale copies  *)
(* sessions commit, since status and history are only written together.    *)
(* It need not be the path the payment took: see TerminalIsFinal.          *)
HistoryIsAPath ==
  \A p \in Payments :
    LET row == payments[p]
        h == row.history
    IN  /\ h # <<>> /\ h[1] = "pending" /\ h[Len(h)] = row.status
        /\ \A i \in 1..(Len(h) - 1) : <<h[i], h[i + 1]>> \in ValidTransitions

(* The customer is charged exactly when told so: a payment that succeeded  *)
(* was authorized once, one that failed never.  A database error that      *)
(* rolls back an answered attempt ends this: the job is tried again and    *)
(* asks the processor again.  A crash does not: the job is not tried again *)
ChargedHonestly ==
  dbErrors = 0 =>
    \A p \in Payments :
      /\ payments[p].status = "success" => authorized[p] = 1
      /\ payments[p].status = "failed" => authorized[p] = 0
      /\ authorized[p] <= 1

(* retry_count counts the attempts that were committed, whatever fails,    *)
(* and stays within the setting unless an error makes a job run again:     *)
(* process_payment does not compare it with the setting before an attempt. *)
RetryCountIsExact ==
  \A p \in Payments :
    /\ payments[p].retry_count = confirms[p]
    /\ dbErrors = 0 => payments[p].retry_count <= MaxRetries

(* A payment that is not settled is never forgotten: some job of it is     *)
(* queued, or was under way, or is listed among the dead ones.             *)
NeverDropped ==
  \A p \in Payments :
    payments[p].status \notin Terminal =>
      \E j \in Jobs : j[1] = p /\ life[j] \in {"queued", "running", "dead"}

(* A settled payment never changes again, nor does its history lose the    *)
(* transition that has settled it.                                         *)
TerminalIsFinal ==
  [][\A p \in Payments :
       payments[p].status \in Terminal =>
         /\ payments'[p].status = payments[p].status
         /\ payments'[p].history = payments[p].history]_vars

(* What state_history has recorded stays: a commit only adds to it.        *)
HistoryOnlyGrows ==
  [][\A p \in Payments : IsPrefix(payments[p].history, payments'[p].history)]_vars

(* Confirmed by its worker alone, a payment lives as PaymentLifecycle says *)
Lifecycle == INSTANCE PaymentLifecycle
               WITH state <- [p \in Payments |-> payments[p].status],
                    charged <- authorized
LifecycleSpec == Lifecycle!Spec

(* A job that is queued, or that the consumer is at.                       *)
Alive(j) == life[j] = "queued" \/ (life[j] = "running" /\ Busy(Worker) /\ current = j)

(* No job of p is alive, but one is dead or was cut short, "running" with  *)
(* nobody at it, by a crash or the end of the consumer task.               *)
Abandoned(p) ==
  /\ \E j \in Jobs : j[1] = p /\ life[j] \in {"running", "dead"}
  /\ \A j \in Jobs : j[1] = p => ~Alive(j)

(* Every payment is settled in the end unless its last job is dead or was  *)
(* cut short, or the consumer task has ended.                              *)
PaymentSettles ==
  \A p \in Payments :
    payments[p].status \notin Terminal ~>
      \/ payments[p].status \in Terminal
      \/ Abandoned(p)
      \/ session[Worker].pc = "ended"

(* With concurrent requests and errors: lost updates only make retry_count *)
(* too small, and a payment still succeeds only if it was authorized.      *)
RetryCountNotOverstated ==
  \A p \in Payments : payments[p].retry_count <= confirms[p]

SuccessWasAuthorized ==
  \A p \in Payments : payments[p].status = "success" => authorized[p] > 0
=============================================================================
