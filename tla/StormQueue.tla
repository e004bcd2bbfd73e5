----------------------------- MODULE StormQueue -----------------------------
(***************************************************************************)
(* StormQueue and JobWorker (pulsepay/jobs): job rows in PostgreSQL, an    *)
(* unbounded in-process asyncio.Queue of job ids, one consumer task, one   *)
(* poller task.  A step ends at each await that another coroutine, a       *)
(* commit or the end of the process can come between; a put on the         *)
(* unbounded queue never suspends.  A job's handler is abstracted to its   *)
(* end, a return or an exception; what it does is the subject of           *)
(* PaymentProcessing, PaymentCreation and Refunds.                         *)
(*                                                                         *)
(* Environment: `listed` is the page of dead jobs an operator last read;   *)
(* one operator retries each job of a page at most once.  The bounds       *)
(* MaxTime, MaxDispatch, MaxRetries and MaxFaults only keep the model      *)
(* finite.                                                                 *)
(***************************************************************************)
EXTENDS Naturals, Sequences, FiniteSets

CONSTANTS
  Jobs,         \* job ids
  MaxAttempts,  \* Job.max_attempts: every caller leaves its default
  Delays,       \* run_at - now at the time of enqueue(); 0 for "now"
  MaxTime,      \* bound: the clock stops here, no job asks for a later run_at
  MaxDispatch,  \* bound: the poller waits while the queue is this long
  MaxRetries,   \* bound: calls of retry_dead_job
  MaxFaults     \* bound: crashes, stops and database errors of the consumer

ASSUME StormQueueAssumption ==
  /\ Jobs # {} /\ IsFiniteSet(Jobs)
  /\ MaxAttempts \in Nat \ {0}
  /\ Delays \subseteq Nat
  /\ {MaxTime, MaxDispatch, MaxRetries, MaxFaults} \subseteq Nat

VARIABLES
  jobs,         \* the jobs table: [status, attempts, run_at] of each id
  now,          \* the clock, in units of a delay
  process,      \* "up", "stopping" (stop() has run) or "down"
  dispatch,     \* the asyncio.Queue
  enqueuing,    \* <<j, r>>: enqueue(run_at = r) has committed j, not yet put it
  retrying,     \* jobs retry_dead_job has committed but not yet put
  consumer,     \* the consumer task: pc, its job, the attempt_count it loaded
  polled,       \* the ids the poller has read and not yet put
  listed,       \* the operator's page of dead jobs
  runs,         \* history: times j's handler was called since its last reset
  count         \* history: what the bounds count

vars == <<jobs, now, process, dispatch, enqueuing, retrying, consumer, polled,
          listed, runs, count>>

Row == [status : {"absent", "queued", "running", "completed", "dead"},
        attempts : Nat, run_at : Nat]

(* pc: "off" no task; "wait" in dispatch_queue.get(); "loaded" the row is  *)
(* read and still to be marked; "run" in the handler; "putback" the retry  *)
(* is committed and still to be put.                                       *)
ConsumerState ==
  [pc : {"off", "wait", "loaded", "run", "putback"}, job : Jobs, attempts : Nat]

(* The integer columns and counters grow with the bounds; the type does    *)
(* not repeat them.                                                        *)
TypeOK ==
  /\ jobs \in [Jobs -> Row]
  /\ now \in Nat
  /\ process \in {"up", "stopping", "down"}
  /\ dispatch \in Seq(Jobs)
  /\ enqueuing \subseteq Jobs \X Nat
  /\ retrying \subseteq Jobs
  /\ consumer \in ConsumerState
  /\ polled \subseteq Jobs
  /\ listed \subseteq Jobs
  /\ runs \in [Jobs -> Nat]
  /\ count \in [retries : Nat, faults : Nat]

Status(j) == jobs[j].status
Due(j) == jobs[j].run_at <= now
Goto(pc) == [consumer EXCEPT !.pc = pc]

Init ==
  /\ jobs = [j \in Jobs |-> [status |-> "absent", attempts |-> 0, run_at |-> 0]]
  /\ now = 0
  /\ process = "up"
  /\ dispatch = <<>>
  /\ enqueuing = {}
  /\ retrying = {}
  /\ consumer = [pc |-> "wait", job |-> CHOOSE j \in Jobs : TRUE, attempts |-> 0]
  /\ polled = {}
  /\ listed = {}
  /\ runs = [j \in Jobs |-> 0]
  /\ count = [retries |-> 0, faults |-> 0]

Tick ==
  /\ now < MaxTime
  /\ now' = now + 1
  /\ UNCHANGED <<jobs, process, dispatch, enqueuing, retrying, consumer, polled,
                 listed, runs, count>>

-----------------------------------------------------------------------------
(* Callers of enqueue(): requests and handlers of any number.              *)

(* The row is inserted and committed in a session of its own.              *)
Enqueue(j, delay) ==
  /\ process # "down"
  /\ Status(j) = "absent"
  /\ now + delay <= MaxTime
  /\ jobs' = [jobs EXCEPT ![j] =
                [status |-> "queued", attempts |-> 0, run_at |-> now + delay]]
  /\ enqueuing' = enqueuing \cup {<<j, now + delay>>}
  /\ UNCHANGED <<now, process, dispatch, retrying, consumer, polled, listed,
                 runs, count>>

(* Variant of PutNow: the id is put whatever its run_at.                   *)
PutAlways(run_at) == TRUE

PutNow(run_at) == run_at <= now

(* The id is put when the run_at asked for has come by now.                *)
PutEnqueued(j, run_at) ==
  /\ process # "down"
  /\ <<j, run_at>> \in enqueuing
  /\ enqueuing' = enqueuing \ {<<j, run_at>>}
  /\ dispatch' = IF PutNow(run_at) THEN Append(dispatch, j) ELSE dispatch
  /\ UNCHANGED <<jobs, now, process, retrying, consumer, polled, listed, runs,
                 count>>

-----------------------------------------------------------------------------
(* The operator's side of the queue.                                       *)

GetDeadJobs ==
  /\ process # "down"
  /\ listed' = {j \in Jobs : Status(j) = "dead"}
  /\ UNCHANGED <<jobs, now, process, dispatch, enqueuing, retrying, consumer,
                 polled, runs, count>>

(* The method does not look at the job's status.                           *)
RetryDeadJob(j) ==
  /\ process # "down"
  /\ j \in listed
  /\ Status(j) # "absent"
  /\ count.retries < MaxRetries
  /\ jobs' = [jobs EXCEPT ![j] =
                [status |-> "queued", attempts |-> 0, run_at |-> now]]
  /\ retrying' = retrying \cup {j}
  /\ listed' = listed \ {j}
  /\ runs' = [runs EXCEPT ![j] = 0]
  /\ count' = [count EXCEPT !.retries = @ + 1]
  /\ UNCHANGED <<now, process, dispatch, enqueuing, consumer, polled>>

PutRetried(j) ==
  /\ process # "down"
  /\ j \in retrying
  /\ retrying' = retrying \ {j}
  /\ dispatch' = Append(dispatch, j)
  /\ UNCHANGED <<jobs, now, process, enqueuing, consumer, polled, listed, runs,
                 count>>

-----------------------------------------------------------------------------
(* The poller: one SELECT, then a put of every id it returned.             *)

(* Variant of Readable: only jobs that were never tried.                   *)
ReadableUntried(j) == Status(j) = "queued" /\ Due(j) /\ jobs[j].attempts = 0

Readable(j) == Status(j) = "queued" /\ Due(j)

Poll ==
  /\ process = "up"
  /\ polled = {}
  /\ Len(dispatch) < MaxDispatch
  /\ polled' = {j \in Jobs : Readable(j)}
  /\ UNCHANGED <<jobs, now, process, dispatch, enqueuing, retrying, consumer,
                 listed, runs, count>>

(* The rows come in no particular order.                                   *)
PutPolled ==
  /\ process = "up"
  /\ polled # {}
  /\ \E ids \in [1..Cardinality(polled) -> polled] :
       /\ \A j \in polled : \E i \in DOMAIN ids : ids[i] = j
       /\ dispatch' = dispatch \o ids
  /\ polled' = {}
  /\ UNCHANGED <<jobs, now, process, enqueuing, retrying, consumer, listed, runs,
                 count>>

-----------------------------------------------------------------------------
(* The consumer: _consume_loop and _process.                               *)

(* Variant of Processable: a finished job is run again.                    *)
ProcessableAny(status) == status # "absent"

(* Whether _process goes on with the row it has read.                      *)
Processable(status) == status \notin {"absent", "completed", "dead"}

(* An id is taken and its row is read; a finished job is skipped.          *)
Take ==
  /\ consumer.pc = "wait"
  /\ dispatch # <<>>
  /\ dispatch' = Tail(dispatch)
  /\ LET j == Head(dispatch)
     IN  consumer' = IF Processable(Status(j))
                     THEN [pc |-> "loaded", job |-> j, attempts |-> jobs[j].attempts]
                     ELSE consumer
  /\ UNCHANGED <<jobs, now, process, enqueuing, retrying, polled, listed, runs,
                 count>>

(* The row is marked running and committed; the handler is called.         *)
MarkRunning ==
  /\ consumer.pc = "loaded"
  /\ jobs' = [jobs EXCEPT ![consumer.job].status = "running"]
  /\ consumer' = Goto("run")
  /\ runs' = [runs EXCEPT ![consumer.job] = @ + 1]
  /\ UNCHANGED <<now, process, dispatch, enqueuing, retrying, polled, listed,
                 count>>

HandlerReturns ==
  /\ consumer.pc = "run"
  /\ jobs' = [jobs EXCEPT ![consumer.job].status = "completed"]
  /\ consumer' = Goto("wait")
  /\ UNCHANGED <<now, process, dispatch, enqueuing, retrying, polled, listed,
                 runs, count>>

(* Variant of Spent: the attempt is not counted.                           *)
SpentNot == consumer.attempts

(* The attempt is counted on the copy loaded before the handler ran.       *)
Spent == consumer.attempts + 1

(* Variant of StatusAfter: "failed", which _process only passes through.   *)
StatusAfterFailed(again) == "failed"

StatusAfter(again) == IF again THEN "queued" ELSE "dead"

HandlerRaises ==
  /\ consumer.pc = "run"
  /\ LET again == Spent < MaxAttempts
     IN  /\ jobs' = [jobs EXCEPT ![consumer.job] =
                       [status |-> StatusAfter(again),
                        attempts |-> Spent,
                        run_at |-> IF again THEN now ELSE @.run_at]]
         /\ consumer' = Goto(IF again THEN "putback" ELSE "wait")
  /\ UNCHANGED <<now, process, dispatch, enqueuing, retrying, polled, listed,
                 runs, count>>

PutBack ==
  /\ consumer.pc = "putback"
  /\ dispatch' = Append(dispatch, consumer.job)
  /\ consumer' = Goto("wait")
  /\ UNCHANGED <<jobs, now, process, enqueuing, retrying, polled, listed, runs,
                 count>>

(* A database error inside _process is caught by nobody: the loop ends,    *)
(* the id it had taken is gone, the transaction is rolled back.            *)
ReadFails ==
  /\ consumer.pc = "wait"
  /\ dispatch # <<>>
  /\ count.faults < MaxFaults
  /\ dispatch' = Tail(dispatch)
  /\ consumer' = Goto("off")
  /\ count' = [count EXCEPT !.faults = @ + 1]
  /\ UNCHANGED <<jobs, now, process, enqueuing, retrying, polled, listed, runs>>

CommitFails ==
  /\ consumer.pc \in {"loaded", "run"}
  /\ count.faults < MaxFaults
  /\ consumer' = Goto("off")
  /\ count' = [count EXCEPT !.faults = @ + 1]
  /\ UNCHANGED <<jobs, now, process, dispatch, enqueuing, retrying, polled,
                 listed, runs>>

-----------------------------------------------------------------------------
(* The process: lifespan() starts and stops the worker.                    *)

(* stop() cancels both tasks wherever they are; CancelledError is no       *)
(* Exception, so _process writes nothing.                                  *)
Stop ==
  /\ process = "up"
  /\ count.faults < MaxFaults
  /\ process' = "stopping"
  /\ consumer' = Goto("off")
  /\ polled' = {}
  /\ count' = [count EXCEPT !.faults = @ + 1]
  /\ UNCHANGED <<jobs, now, dispatch, enqueuing, retrying, listed, runs>>

(* The process ends and its memory with it; the table stays.               *)
LoseMemory ==
  /\ process' = "down"
  /\ dispatch' = <<>>
  /\ enqueuing' = {}
  /\ retrying' = {}
  /\ consumer' = Goto("off")
  /\ polled' = {}
  /\ UNCHANGED <<jobs, now, listed, runs>>

Exit ==
  /\ process = "stopping"
  /\ LoseMemory
  /\ UNCHANGED count

Crash ==
  /\ process = "up"
  /\ count.faults < MaxFaults
  /\ LoseMemory
  /\ count' = [count EXCEPT !.faults = @ + 1]

(* A new process: an empty StormQueue, a new JobWorker, both tasks.        *)
Start ==
  /\ process = "down"
  /\ process' = "up"
  /\ consumer' = Goto("wait")
  /\ UNCHANGED <<jobs, now, dispatch, enqueuing, retrying, polled, listed, runs,
                 count>>

-----------------------------------------------------------------------------
ConsumerStep ==
  Take \/ MarkRunning \/ HandlerReturns \/ HandlerRaises \/ PutBack

CallerStep ==
  \/ \E j \in Jobs, delay \in Delays : Enqueue(j, delay)
  \/ \E p \in enqueuing : PutEnqueued(p[1], p[2])
  \/ GetDeadJobs
  \/ \E j \in Jobs : RetryDeadJob(j) \/ PutRetried(j)

FaultStep ==
  ReadFails \/ CommitFails \/ Stop \/ Exit \/ Crash \/ Start

Next ==
  \/ Tick
  \/ CallerStep
  \/ Poll
  \/ PutPolled
  \/ ConsumerStep
  \/ FaultStep

Spec == Init /\ [][Next]_vars

(* asyncio resumes every ready coroutine, the poller wakes every five      *)
(* seconds, handlers end (every call they make has a timeout) and the      *)
(* service is restarted after it ends.  Nobody owes a fault, a request or  *)
(* a manual retry.                                                         *)
Fairness ==
  /\ WF_vars(Tick)
  /\ WF_vars(ConsumerStep)
  /\ WF_vars(Poll)
  /\ WF_vars(PutPolled)
  /\ WF_vars(Exit)
  /\ WF_vars(Start)

FairSpec == Spec /\ Fairness

-----------------------------------------------------------------------------
(* A job's handler is called once per attempt: never more often than       *)
(* max_attempts since the job was created or reset, and a job is declared  *)
(* dead only when it really had them all.  Concerns duplicates of an id in *)
(* the queue (poller, put-back and callers all put it), the copy of        *)
(* attempt_count _process counts on, and restarts between its commits.     *)
HandlerRunsBounded ==
  \A j \in Jobs :
    /\ runs[j] <= MaxAttempts
    /\ Status(j) = "dead" => runs[j] = MaxAttempts

(* No handler starts before its job's run_at: _process does not look at    *)
(* run_at, so whoever puts an id in the queue must have.                   *)
NeverEarly ==
  [][\A j \in Jobs :
       Status(j) # "running" /\ Status(j)' = "running" => Due(j)]_vars

(* The table shows the life JobLifecycle promises: no finished job is run  *)
(* again by an id left over in the queue, only an operator revives a dead  *)
(* job, every exception costs exactly one attempt.                         *)
Lifecycle ==
  INSTANCE JobLifecycle WITH life <- [j \in Jobs |-> jobs[j].status],
                             attempts <- [j \in Jobs |-> jobs[j].attempts]
LifecycleSpec == Lifecycle!Spec

(* Every job ends, completed or dead after its attempts, unless a fault    *)
(* comes: stop(), a crash or a database error can leave one running for    *)
(* ever, since nothing selects a running job again.                        *)
EveryJobSettles ==
  \A j \in Jobs :
    Status(j) = "queued" ~>
      Status(j) \in {"completed", "dead"} \/ count.faults > 0

(* A queued job is picked up in the end.                                   *)
QueuedJobIsTaken ==
  \A j \in Jobs : Status(j) = "queued" ~> Status(j) # "queued"

(* The rows are durable and the poller reads them all: whatever ids the    *)
(* end of a process or a failed read lost, a queued job is picked up in    *)
(* the end, by this process or by a later one.  One thing alone can keep   *)
(* it waiting: a process that is up with its consumer task ended.          *)
ConsumerEnded == process = "up" /\ consumer.pc = "off"

QueuedUnlessConsumerEnded ==
  \A j \in Jobs :
    Status(j) = "queued" ~> Status(j) # "queued" \/ ConsumerEnded

-----------------------------------------------------------------------------
(* Why HandlerRunsBounded, NeverEarly and LifecycleSpec hold: the          *)
(* inductive invariant of StormQueueProofs.tla, in named parts.            *)

Holds(queue, j) == \E i \in 1..Len(queue) : queue[i] = j

(* The id of j is somewhere on its way to the consumer.                    *)
InFlight(j) ==
  \/ Holds(dispatch, j)
  \/ j \in polled \cup retrying
  \/ consumer.pc = "putback" /\ consumer.job = j

(* Every handler call is accounted for in the row.                         *)
RunsCounted ==
  \A j \in Jobs :
    /\ runs[j] = jobs[j].attempts +
                   (IF Status(j) \in {"running", "completed"} THEN 1 ELSE 0)
    /\ Status(j) = "absent" => jobs[j].attempts = 0
    /\ IF Status(j) = "dead" THEN jobs[j].attempts = MaxAttempts
                             ELSE jobs[j].attempts < MaxAttempts

(* The consumer's copy of its row is still what the row says.              *)
CopyIsFresh ==
  /\ consumer.pc = "loaded" => Status(consumer.job) = "queued"
  /\ consumer.pc = "run" => Status(consumer.job) = "running"
  /\ consumer.pc \in {"loaded", "run"} =>
       /\ consumer.attempts = jobs[consumer.job].attempts
       /\ Due(consumer.job)

ListedAreDead == \A j \in listed : Status(j) = "dead"

(* Whatever is in flight exists and is due.                                *)
InFlightIsDue ==
  /\ \A j \in Jobs : InFlight(j) => Status(j) # "absent" /\ Due(j)
  /\ \A p \in enqueuing :
       /\ Status(p[1]) # "absent"
       /\ Due(p[1]) \/ jobs[p[1]].run_at <= p[2]

(* A running job the consumer does not hold was left by an earlier         *)
(* process: no id of it is left, or no consumer to take it.                *)
StrandedIsForgotten ==
  consumer.pc # "off" =>
    \A j \in Jobs :
      Status(j) = "running" =>
        \/ consumer.pc = "run" /\ consumer.job = j
        \/ ~InFlight(j) /\ \A p \in enqueuing : p[1] # j

DownIsEmpty ==
  process = "down" =>
    /\ consumer.pc = "off"
    /\ dispatch = <<>>
    /\ polled = {} /\ retrying = {} /\ enqueuing = {}

IndInv ==
  /\ TypeOK
  /\ RunsCounted
  /\ CopyIsFresh
  /\ ListedAreDead
  /\ InFlightIsDue
  /\ StrandedIsForgotten
  /\ DownIsEmpty
=============================================================================
