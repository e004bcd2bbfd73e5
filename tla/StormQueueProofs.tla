--------------------------- MODULE StormQueueProofs ---------------------------
(***************************************************************************)
(* Proofs about StormQueue.tla: type correctness, the inductive invariant  *)
(* IndInv, and from it that handler calls are bounded, that no handler     *)
(* starts early and that the table lives the life JobLifecycle promises.   *)
(***************************************************************************)
EXTENDS StormQueue, TLAPS, FiniteSetTheorems, SequenceTheorems

-----------------------------------------------------------------------------
(* The ids in a queue after a put, a get and a batch of puts.              *)

(* A put on dispatch_queue adds the id it puts and no other.               *)
LEMMA PutAddsOne ==
  ASSUME NEW S, NEW queue \in Seq(S), NEW x \in S
  PROVE  /\ Append(queue, x) \in Seq(S)
         /\ \A j : Holds(Append(queue, x), j) <=> Holds(queue, j) \/ j = x
<1>1. Append(queue, x) \in Seq(S)
  OBVIOUS
<1>2. /\ Len(Append(queue, x)) = Len(queue) + 1
      /\ Len(queue) \in Nat
      /\ \A i \in 1..Len(queue) : Append(queue, x)[i] = queue[i]
      /\ Append(queue, x)[Len(queue) + 1] = x
  OBVIOUS
<1>3. ASSUME NEW j
      PROVE  Holds(Append(queue, x), j) <=> Holds(queue, j) \/ j = x
  BY <1>2 DEF Holds
<1> QED
  BY <1>1, <1>3

(* A get takes an id that was there and brings none in.                    *)
LEMMA GetTakesOne ==
  ASSUME NEW S, NEW queue \in Seq(S), queue # <<>>
  PROVE  /\ Head(queue) \in S /\ Holds(queue, Head(queue))
         /\ Tail(queue) \in Seq(S)
         /\ \A j : Holds(Tail(queue), j) => Holds(queue, j)
<1>1. /\ Len(queue) \in Nat \ {0}
      /\ Head(queue) = queue[1] /\ Head(queue) \in S
      /\ Tail(queue) \in Seq(S)
      /\ Len(Tail(queue)) = Len(queue) - 1
      /\ \A i \in 1..Len(Tail(queue)) : Tail(queue)[i] = queue[i + 1]
  OBVIOUS
<1>2. Holds(queue, Head(queue))
  BY <1>1 DEF Holds
<1>3. ASSUME NEW j, Holds(Tail(queue), j)
      PROVE  Holds(queue, j)
  <2>1. PICK i \in 1..Len(Tail(queue)) : Tail(queue)[i] = j
    BY <1>3 DEF Holds
  <2>2. i + 1 \in 1..Len(queue) /\ queue[i + 1] = j
    BY <1>1, <2>1
  <2> QED
    BY <2>2 DEF Holds
<1> QED
  BY <1>1, <1>2, <1>3

(* The poller's puts add ids it has read and no other.                     *)
LEMMA PutsAddTheirs ==
  ASSUME NEW S, NEW queue \in Seq(S), NEW n \in Nat, NEW T \in SUBSET S,
         NEW ids \in [1..n -> T]
  PROVE  /\ queue \o ids \in Seq(S)
         /\ \A j : Holds(queue \o ids, j) => Holds(queue, j) \/ j \in T
<1>1. ids \in Seq(T) /\ ids \in Seq(S) /\ Len(ids) = n
  OBVIOUS
<1>2. queue \o ids \in Seq(S)
  BY <1>1
<1>3. /\ Len(queue \o ids) = Len(queue) + n
      /\ Len(queue) \in Nat
      /\ \A i \in 1..Len(queue) : (queue \o ids)[i] = queue[i]
      /\ \A i \in (Len(queue) + 1)..(Len(queue) + n) :
           (queue \o ids)[i] = ids[i - Len(queue)]
  BY <1>1
<1>4. ASSUME NEW j, Holds(queue \o ids, j)
      PROVE  Holds(queue, j) \/ j \in T
  <2>1. PICK i \in 1..(Len(queue) + n) : (queue \o ids)[i] = j
    BY <1>3, <1>4 DEF Holds
  <2>2. CASE i \in 1..Len(queue)
    BY <1>3, <2>1, <2>2 DEF Holds
  <2>3. CASE i \in (Len(queue) + 1)..(Len(queue) + n)
    <3>1. i - Len(queue) \in 1..n
      BY <1>3, <2>3
    <3>2. ids[i - Len(queue)] \in T
      BY <3>1
    <3> QED
      BY <1>3, <2>1, <2>3, <3>2
  <2> QED
    BY <1>3, <2>1, <2>2, <2>3
<1> QED
  BY <1>2, <1>4

-----------------------------------------------------------------------------
(* Moving the consumer keeps its type and its job; so do a count one       *)
(* higher and a row with a new status.                                     *)
LEMMA GotoType ==
  ASSUME consumer \in ConsumerState,
         NEW pc \in {"off", "wait", "loaded", "run", "putback"}
  PROVE  /\ Goto(pc) \in ConsumerState
         /\ Goto(pc).pc = pc
         /\ Goto(pc).job = consumer.job
         /\ Goto(pc).attempts = consumer.attempts
BY DEF Goto, ConsumerState

Counts == [retries : Nat, faults : Nat]

(* What the bounds count stays a number when one more is counted.          *)
LEMMA CountType ==
  ASSUME count \in Counts
  PROVE  /\ [count EXCEPT !.retries = @ + 1] \in Counts
         /\ [count EXCEPT !.faults = @ + 1] \in Counts
BY DEF Counts

JobStatus == {"absent", "queued", "running", "completed", "dead"}

(* A row that gets a new status, as _process writes it, is still a row.   *)
LEMMA MarkedRow ==
  ASSUME jobs \in [Jobs -> Row], NEW j \in Jobs, NEW status \in JobStatus
  PROVE  /\ [jobs EXCEPT ![j].status = status] \in [Jobs -> Row]
         /\ [jobs EXCEPT ![j].status = status]
              = [jobs EXCEPT ![j] = [status |-> status,
                                     attempts |-> jobs[j].attempts,
                                     run_at |-> jobs[j].run_at]]
<1>1. jobs[j] \in Row
  OBVIOUS
<1>2. [jobs[j] EXCEPT !.status = status]
        = [status |-> status, attempts |-> jobs[j].attempts,
           run_at |-> jobs[j].run_at]
  BY <1>1 DEF Row
<1>3. [jobs[j] EXCEPT !.status = status] \in Row
  BY <1>1 DEF Row, JobStatus
<1>4. [jobs EXCEPT ![j].status = status]
        = [jobs EXCEPT ![j] = [jobs[j] EXCEPT !.status = status]]
  OBVIOUS
<1> QED
  BY <1>2, <1>3, <1>4

(* The variables keep their types whatever step is taken.                  *)
LEMMA TypeStep == StormQueueAssumption /\ TypeOK /\ [Next]_vars => TypeOK'
<1> SUFFICES ASSUME StormQueueAssumption, TypeOK, [Next]_vars
             PROVE  TypeOK'
  OBVIOUS
<1> USE DEF TypeOK, Status
<1>a. count \in Counts
  BY DEF Counts
<1>b. consumer.job \in Jobs /\ consumer.attempts \in Nat
  BY DEF ConsumerState
<1>c. /\ jobs \in [Jobs -> Row] /\ runs \in [Jobs -> Nat]
      /\ now \in Nat /\ enqueuing \subseteq Jobs \X Nat
  OBVIOUS
<1>1. CASE Tick
  <2>1. now' \in Nat
    BY <1>1 DEF Tick
  <2> QED
    BY <1>1, <2>1 DEF Tick
<1>2. ASSUME NEW j \in Jobs, NEW delay \in Delays, Enqueue(j, delay)
      PROVE  TypeOK'
  <2>1. now + delay \in Nat
    BY DEF StormQueueAssumption
  <2>2. [status |-> "queued", attempts |-> 0, run_at |-> now + delay] \in Row
    BY <2>1 DEF Row
  <2>3. jobs' \in [Jobs -> Row]
    BY <1>2, <2>2, <1>c DEF Enqueue
  <2>4. enqueuing' \subseteq Jobs \X Nat
    <3> HIDE DEF TypeOK
    <3> QED
      BY <1>2, <2>1, <1>c DEF Enqueue
  <2> QED
    BY <1>2, <2>3, <2>4 DEF Enqueue
<1>3. ASSUME NEW p \in enqueuing, PutEnqueued(p[1], p[2])
      PROVE  TypeOK'
  <2>1. p[1] \in Jobs
    OBVIOUS
  <2>2. Append(dispatch, p[1]) \in Seq(Jobs)
    BY <2>1, PutAddsOne
  <2> QED
    BY <1>3, <2>2 DEF PutEnqueued, PutNow
<1>4. CASE GetDeadJobs
  BY <1>4 DEF GetDeadJobs
<1>5. ASSUME NEW j \in Jobs, RetryDeadJob(j)
      PROVE  TypeOK'
  <2>1. count' \in Counts
    BY <1>5, <1>a, CountType DEF RetryDeadJob
  <2>2. [status |-> "queued", attempts |-> 0, run_at |-> now] \in Row
    BY DEF Row
  <2>3. jobs' \in [Jobs -> Row]
    BY <1>5, <2>2 DEF RetryDeadJob
  <2> QED
    BY <1>5, <2>1, <2>3 DEF RetryDeadJob, Counts
<1>6. ASSUME NEW j \in Jobs, PutRetried(j)
      PROVE  TypeOK'
  <2>1. Append(dispatch, j) \in Seq(Jobs)
    BY PutAddsOne
  <2> QED
    BY <1>6, <2>1 DEF PutRetried
<1>7. CASE Poll
  BY <1>7 DEF Poll, Readable
<1>8. CASE PutPolled
  <2>1. IsFiniteSet(polled)
    BY FS_Subset DEF StormQueueAssumption
  <2>2. Cardinality(polled) \in Nat
    BY <2>1, FS_CardinalityType
  <2>3. PICK ids \in [1..Cardinality(polled) -> polled] : dispatch' = dispatch \o ids
    BY <1>8 DEF PutPolled
  <2>4. dispatch' \in Seq(Jobs)
    BY <2>2, <2>3, PutsAddTheirs
  <2> QED
    BY <1>8, <2>4 DEF PutPolled
<1>9. CASE Take
  <2>1. Head(dispatch) \in Jobs /\ Tail(dispatch) \in Seq(Jobs)
    BY <1>9, GetTakesOne DEF Take
  <2>2. consumer' \in ConsumerState
    BY <1>9, <2>1 DEF Take, Processable, ConsumerState, Row
  <2> QED
    BY <1>9, <2>1, <2>2 DEF Take
<1>10. CASE MarkRunning
  <2>1. jobs' \in [Jobs -> Row]
    BY <1>10, <1>b, MarkedRow DEF MarkRunning, JobStatus
  <2>2. runs' \in [Jobs -> Nat]
    <3> HIDE DEF TypeOK
    <3> QED
      BY <1>10, <1>b, <1>c DEF MarkRunning
  <2> QED
    BY <1>10, <2>1, <2>2, GotoType DEF MarkRunning
<1>11. CASE HandlerReturns
  <2>1. jobs' \in [Jobs -> Row]
    BY <1>11, <1>b, MarkedRow DEF HandlerReturns, JobStatus
  <2> QED
    BY <1>11, <2>1, GotoType DEF HandlerReturns
<1>12. CASE HandlerRaises
  <2>1. jobs' \in [Jobs -> Row]
    <3> DEFINE again == consumer.attempts + 1 < MaxAttempts
               row == [status |-> IF again THEN "queued" ELSE "dead",
                       attempts |-> consumer.attempts + 1,
                       run_at |-> IF again THEN now
                                           ELSE jobs[consumer.job].run_at]
    <3> HIDE DEF TypeOK
    <3>1. jobs[consumer.job].run_at \in Nat
      BY <1>b, <1>c DEF Row
    <3>2. row.status \in JobStatus /\ row.attempts \in Nat /\ row.run_at \in Nat
      BY <1>b, <1>c, <3>1 DEF JobStatus
    <3> HIDE DEF again
    <3>4. row \in Row
      BY <3>2 DEF Row, JobStatus
    <3> USE DEF again
    <3>3. jobs' = [jobs EXCEPT ![consumer.job] = row]
      BY <1>12 DEF HandlerRaises, Spent, StatusAfter
    <3> QED
      BY <1>b, <1>c, <3>3, <3>4
  <2>2. consumer' \in ConsumerState
    BY <1>12, GotoType DEF HandlerRaises, Spent, StatusAfter
  <2> QED
    BY <1>12, <2>1, <2>2 DEF HandlerRaises
<1>13. CASE PutBack
  <2>1. Append(dispatch, consumer.job) \in Seq(Jobs)
    BY <1>b, PutAddsOne
  <2> QED
    BY <1>13, <2>1, GotoType DEF PutBack
<1>14. CASE ReadFails
  <2>1. Tail(dispatch) \in Seq(Jobs)
    BY <1>14, GetTakesOne DEF ReadFails
  <2>2. count' \in Counts
    BY <1>14, <1>a, CountType DEF ReadFails
  <2> QED
    BY <1>14, <2>1, <2>2, GotoType DEF ReadFails, Counts
<1>15. CASE CommitFails
  <2>1. count' \in Counts
    BY <1>15, <1>a, CountType DEF CommitFails
  <2> QED
    BY <1>15, <2>1, GotoType DEF CommitFails, Counts
<1>16. CASE Stop
  <2>1. count' \in Counts
    BY <1>16, <1>a, CountType DEF Stop
  <2> QED
    BY <1>16, <2>1, GotoType DEF Stop, Counts
<1>17. ASSUME LoseMemory, count' \in Counts
       PROVE  TypeOK'
  <2>1. consumer' \in ConsumerState
    BY <1>17, GotoType DEF LoseMemory
  <2>2. /\ UNCHANGED <<jobs, now, listed, runs>>
        /\ process' = "down" /\ dispatch' = <<>>
        /\ enqueuing' = {} /\ retrying' = {} /\ polled' = {}
    BY <1>17 DEF LoseMemory
  <2>3. dispatch' \in Seq(Jobs)
    BY <2>2
  <2> QED
    BY <1>17, <2>1, <2>2, <2>3 DEF Counts
<1>17a. CASE Exit
  BY <1>17, <1>a, <1>17a DEF Exit
<1>18. CASE Crash
  <2>1. count' \in Counts
    BY <1>18, <1>a, CountType DEF Crash
  <2> QED
    BY <1>17, <1>18, <2>1 DEF Crash
<1>19. CASE Start
  BY <1>19, GotoType DEF Start
<1>20. CASE UNCHANGED vars
  BY <1>20 DEF vars
<1> QED
  BY <1>1, <1>2, <1>3, <1>4, <1>5, <1>6, <1>7, <1>8, <1>9, <1>10, <1>11, <1>12,
     <1>13, <1>14, <1>15, <1>16, <1>17a, <1>18, <1>19, <1>20
     DEF Next, ConsumerStep, CallerStep, FaultStep

-----------------------------------------------------------------------------
(* IndInv is inductive.                                                    *)

(* The steps that only move ids about or end the consumer: they write no   *)
(* row, and put in flight only ids that may be.                            *)
LEMMA QueueMove ==
  ASSUME IndInv, TypeOK', DownIsEmpty',
         UNCHANGED <<jobs, runs, now, listed>>,
         enqueuing' \subseteq enqueuing,
         \A j \in Jobs : InFlight(j)' =>
           \/ InFlight(j)
           \/ \E p \in enqueuing : p[1] = j /\ p[2] <= now
           \/ Status(j) = "queued" /\ Due(j),
         \/ consumer' = consumer
         \/ consumer.pc = "putback" /\ consumer'.pc = "wait"
         \/ consumer'.pc = "off"
  PROVE  IndInv'
<1> USE DEF IndInv
<1>1. RunsCounted'
  BY DEF RunsCounted, Status
<1>2. CopyIsFresh'
  BY DEF CopyIsFresh, Status, Due
<1>3. ListedAreDead'
  BY DEF ListedAreDead, Status
<1>4. InFlightIsDue'
  <2>1. ASSUME NEW j \in Jobs, InFlight(j)'
        PROVE  Status(j) # "absent" /\ Due(j)
    <3>1. ASSUME NEW p \in enqueuing, p[1] = j, p[2] <= now
          PROVE  Status(j) # "absent" /\ Due(j)
      <4>1. jobs[j].run_at \in Nat /\ now \in Nat /\ p[2] \in Nat
        BY DEF TypeOK, Row
      <4> QED
        BY <3>1, <4>1 DEF InFlightIsDue, Due
    <3> QED
      BY <2>1, <3>1 DEF InFlightIsDue
  <2>2. ASSUME NEW p \in enqueuing'
        PROVE  /\ Status(p[1]) # "absent"
               /\ Due(p[1]) \/ jobs[p[1]].run_at <= p[2]
    BY DEF InFlightIsDue
  <2> QED
    BY <2>1, <2>2 DEF InFlightIsDue, Status, Due
<1>5. StrandedIsForgotten'
  <2> SUFFICES ASSUME consumer'.pc # "off",
                      NEW j \in Jobs, Status(j) = "running"
               PROVE  \/ consumer'.pc = "run" /\ consumer'.job = j
                      \/ ~InFlight(j)' /\ \A p \in enqueuing' : p[1] # j
    BY DEF StrandedIsForgotten, Status
  <2>1. consumer.pc # "off"
    OBVIOUS
  <2>2. CASE consumer.pc = "run" /\ consumer.job = j
    BY <2>2
  <2>3. CASE ~InFlight(j) /\ \A p \in enqueuing : p[1] # j
    BY <2>3
  <2> QED
    BY <2>1, <2>2, <2>3 DEF StrandedIsForgotten
<1> QED
  BY <1>1, <1>2, <1>3, <1>4, <1>5

(* enqueue() writes the row of a new job; no id of it was in flight.       *)
LEMMA EnqueueStep ==
  ASSUME StormQueueAssumption, IndInv, TypeOK',
         NEW j \in Jobs, NEW delay \in Delays, Enqueue(j, delay)
  PROVE  IndInv'
<1> DEFINE row == [status |-> "queued", attempts |-> 0, run_at |-> now + delay]
<1> USE DEF IndInv
<1>a. /\ now \in Nat /\ delay \in Nat
      /\ jobs \in [Jobs -> Row] /\ listed \subseteq Jobs
  BY DEF StormQueueAssumption, TypeOK
<1>b. /\ Status(j) = "absent"
      /\ jobs' = [jobs EXCEPT ![j] = row]
      /\ enqueuing' = enqueuing \cup {<<j, now + delay>>}
      /\ process # "down"
      /\ UNCHANGED <<now, process, dispatch, retrying, consumer, polled, listed, runs>>
  BY DEF Enqueue
<1>c. /\ jobs'[j] = row
      /\ Status(j)' = "queued" /\ jobs'[j].run_at = now + delay
      /\ \A k \in Jobs \ {j} : jobs'[k] = jobs[k] /\ Status(k)' = Status(k)
  BY <1>a, <1>b DEF Status
<1>d. ~InFlight(j) /\ j \notin listed
  BY <1>b DEF InFlightIsDue, ListedAreDead
<1>e. \A k : InFlight(k)' <=> InFlight(k)
  BY <1>b DEF InFlight
<1>1. RunsCounted'
  BY <1>b, <1>c DEF RunsCounted, Status, StormQueueAssumption
<1>2. CopyIsFresh'
  <2>1. consumer.pc \in {"loaded", "run"} => consumer.job \in Jobs \ {j}
    BY <1>b DEF CopyIsFresh, ConsumerState, TypeOK
  <2> QED
    BY <1>b, <1>c, <2>1 DEF CopyIsFresh, Status, Due
<1>3. ListedAreDead'
  BY <1>a, <1>b, <1>c, <1>d DEF ListedAreDead
<1>4. InFlightIsDue'
  <2>1. ASSUME NEW k \in Jobs, InFlight(k)'
        PROVE  Status(k)' # "absent" /\ Due(k)'
    BY <1>b, <1>c, <1>d, <1>e, <2>1 DEF InFlightIsDue, Due
  <2>2. ASSUME NEW p \in enqueuing'
        PROVE  /\ Status(p[1])' # "absent"
               /\ Due(p[1])' \/ jobs'[p[1]].run_at <= p[2]
    <3>1. CASE p = <<j, now + delay>>
      BY <1>a, <1>c, <3>1
    <3>2. CASE p \in enqueuing
      <4>1. p[1] \in Jobs \ {j}
        BY <1>b, <3>2 DEF InFlightIsDue, TypeOK
      <4> QED
        BY <1>b, <1>c, <3>2, <4>1 DEF InFlightIsDue, Due
    <3> QED
      BY <1>b, <3>1, <3>2
  <2> QED
    BY <2>1, <2>2 DEF InFlightIsDue
<1>5. StrandedIsForgotten'
  <2> SUFFICES ASSUME consumer'.pc # "off",
                      NEW k \in Jobs, Status(k)' = "running"
               PROVE  \/ consumer'.pc = "run" /\ consumer'.job = k
                      \/ ~InFlight(k)' /\ \A p \in enqueuing' : p[1] # k
    BY DEF StrandedIsForgotten
  <2>1. k # j
    BY <1>c
  <2> QED
    BY <1>b, <1>c, <1>e, <2>1 DEF StrandedIsForgotten
<1>6. DownIsEmpty'
  BY <1>b DEF DownIsEmpty
<1> QED
  BY <1>1, <1>2, <1>3, <1>4, <1>5, <1>6

(* retry_dead_job writes the row of a job that is dead, whatever it does   *)
(* not check: that is all the operator's page lists.                       *)
LEMMA RetryStep ==
  ASSUME StormQueueAssumption, IndInv, TypeOK', NEW j \in Jobs, RetryDeadJob(j)
  PROVE  IndInv'
<1> DEFINE row == [status |-> "queued", attempts |-> 0, run_at |-> now]
<1> USE DEF IndInv
<1>a. /\ now \in Nat /\ jobs \in [Jobs -> Row] /\ listed \subseteq Jobs
      /\ runs \in [Jobs -> Nat] /\ consumer \in ConsumerState
      /\ enqueuing \subseteq Jobs \X Nat /\ MaxAttempts \in Nat \ {0}
  BY DEF StormQueueAssumption, TypeOK
<1>b. /\ Status(j) = "dead"
      /\ jobs' = [jobs EXCEPT ![j] = row]
      /\ retrying' = retrying \cup {j}
      /\ listed' = listed \ {j}
      /\ runs' = [runs EXCEPT ![j] = 0]
      /\ process # "down"
      /\ UNCHANGED <<now, process, dispatch, enqueuing, consumer, polled>>
  BY DEF RetryDeadJob, ListedAreDead
<1>c. /\ jobs'[j] = row
      /\ Status(j)' = "queued" /\ jobs'[j].run_at = now /\ jobs'[j].attempts = 0
      /\ \A k \in Jobs \ {j} : jobs'[k] = jobs[k] /\ Status(k)' = Status(k)
  BY <1>a, <1>b DEF Status
<1>e. \A k : InFlight(k)' <=> InFlight(k) \/ k = j
  BY <1>b DEF InFlight
<1>1. RunsCounted'
  <2> SUFFICES ASSUME NEW k \in Jobs
      PROVE
        /\ runs'[k] = jobs'[k].attempts +
             (IF Status(k)' \in {"running", "completed"} THEN 1 ELSE 0)
        /\ Status(k)' = "absent" => jobs'[k].attempts = 0
        /\ IF Status(k)' = "dead" THEN jobs'[k].attempts = MaxAttempts
                                  ELSE jobs'[k].attempts < MaxAttempts
    BY DEF RunsCounted
  <2>1. CASE k = j
    BY <1>a, <1>b, <1>c, <2>1
  <2>2. CASE k # j
    BY <1>a, <1>b, <1>c, <2>2 DEF RunsCounted
  <2> QED
    BY <2>1, <2>2
<1>2. CopyIsFresh'
  <2>1. consumer.pc \in {"loaded", "run"} => consumer.job \in Jobs \ {j}
    BY <1>a, <1>b DEF CopyIsFresh, ConsumerState
  <2> QED
    BY <1>b, <1>c, <2>1 DEF CopyIsFresh, Due
<1>3. ListedAreDead'
  BY <1>a, <1>b, <1>c DEF ListedAreDead
<1>4. InFlightIsDue'
  <2>1. Status(j)' # "absent" /\ Due(j)'
    BY <1>a, <1>b, <1>c DEF Due
  <2>2. ASSUME NEW k \in Jobs, InFlight(k)'
        PROVE  Status(k)' # "absent" /\ Due(k)'
    BY <1>b, <1>c, <1>e, <2>1, <2>2 DEF InFlightIsDue, Due
  <2>3. ASSUME NEW p \in enqueuing'
        PROVE  /\ Status(p[1])' # "absent"
               /\ Due(p[1])' \/ jobs'[p[1]].run_at <= p[2]
    BY <1>a, <1>b, <1>c, <2>1 DEF InFlightIsDue, Due
  <2> QED
    BY <2>2, <2>3 DEF InFlightIsDue
<1>5. StrandedIsForgotten'
  <2> SUFFICES ASSUME consumer'.pc # "off",
                      NEW k \in Jobs, Status(k)' = "running"
               PROVE  \/ consumer'.pc = "run" /\ consumer'.job = k
                      \/ ~InFlight(k)' /\ \A p \in enqueuing' : p[1] # k
    BY DEF StrandedIsForgotten
  <2>1. k # j
    BY <1>c
  <2> QED
    BY <1>b, <1>c, <1>e, <2>1 DEF StrandedIsForgotten
<1>6. DownIsEmpty'
  BY <1>b DEF DownIsEmpty
<1> QED
  BY <1>1, <1>2, <1>3, <1>4, <1>5, <1>6

(* The consumer's three writes, in common: the row of its job gets a new   *)
(* status, never "dead" without all attempts spent, and keeps or brings    *)
(* forward its run_at.                                                     *)
LEMMA ConsumerWrite ==
  ASSUME StormQueueAssumption, IndInv, TypeOK',
         consumer.pc \in {"loaded", "run"}, consumer'.job = consumer.job,
         UNCHANGED <<now, process, dispatch, enqueuing, retrying, polled, listed>>,
         \A k \in Jobs \ {consumer.job} :
           jobs'[k] = jobs[k] /\ runs'[k] = runs[k],
         LET j == consumer.job
         IN  /\ runs'[j] = jobs'[j].attempts +
                  (IF jobs'[j].status \in {"running", "completed"} THEN 1 ELSE 0)
             /\ IF jobs'[j].status = "dead" THEN jobs'[j].attempts = MaxAttempts
                                            ELSE jobs'[j].attempts < MaxAttempts
             /\ jobs'[j].run_at = jobs[j].run_at \/ jobs'[j].run_at = now
             /\ \/ /\ consumer'.pc = "run" /\ jobs'[j].status = "running"
                   /\ consumer'.attempts = jobs'[j].attempts
                \/ /\ consumer'.pc \in {"wait", "putback"}
                   /\ jobs'[j].status \in {"queued", "completed", "dead"}
  PROVE  IndInv'
<1> DEFINE j == consumer.job
<1> USE DEF IndInv
<1>a. /\ now \in Nat /\ jobs \in [Jobs -> Row] /\ listed \subseteq Jobs
      /\ consumer \in ConsumerState /\ consumer.job \in Jobs
      /\ enqueuing \subseteq Jobs \X Nat
  BY DEF TypeOK, ConsumerState
<1>b. /\ Status(j) \in {"queued", "running"} /\ Due(j)
      /\ process # "down"
  BY DEF CopyIsFresh, DownIsEmpty
<1>c. \A k \in Jobs \ {j} : Status(k)' = Status(k) /\ (Due(k)' <=> Due(k))
  BY DEF Status, Due
<1>d. Status(j)' \in {"queued", "running", "completed", "dead"} /\ Due(j)'
  BY <1>a, <1>b DEF Status, Due
<1>e. \A k \in Jobs \ {j} : InFlight(k)' => InFlight(k)
  BY DEF InFlight
<1>1. RunsCounted'
  <2> SUFFICES ASSUME NEW k \in Jobs
      PROVE
        /\ runs'[k] = jobs'[k].attempts +
             (IF Status(k)' \in {"running", "completed"} THEN 1 ELSE 0)
        /\ Status(k)' = "absent" => jobs'[k].attempts = 0
        /\ IF Status(k)' = "dead" THEN jobs'[k].attempts = MaxAttempts
                                  ELSE jobs'[k].attempts < MaxAttempts
    BY DEF RunsCounted
  <2>1. CASE k = j
    BY <1>d, <2>1 DEF Status
  <2>2. CASE k # j
    BY <1>c, <2>2 DEF RunsCounted
  <2> QED
    BY <2>1, <2>2
<1>2. CopyIsFresh'
  BY <1>d DEF CopyIsFresh, Status
<1>3. ListedAreDead'
  BY <1>a, <1>b, <1>c DEF ListedAreDead
<1>4. InFlightIsDue'
  <2>1. ASSUME NEW k \in Jobs, InFlight(k)'
        PROVE  Status(k)' # "absent" /\ Due(k)'
    BY <1>c, <1>d, <1>e, <2>1 DEF InFlightIsDue
  <2>2. ASSUME NEW p \in enqueuing'
        PROVE  /\ Status(p[1])' # "absent"
               /\ Due(p[1])' \/ jobs'[p[1]].run_at <= p[2]
    BY <1>a, <1>c, <1>d DEF InFlightIsDue
  <2> QED
    BY <2>1, <2>2 DEF InFlightIsDue
<1>5. StrandedIsForgotten'
  <2> SUFFICES ASSUME consumer'.pc # "off",
                      NEW k \in Jobs, Status(k)' = "running"
               PROVE  \/ consumer'.pc = "run" /\ consumer'.job = k
                      \/ ~InFlight(k)' /\ \A p \in enqueuing' : p[1] # k
    BY DEF StrandedIsForgotten
  <2>1. CASE k = j
    BY <2>1 DEF Status
  <2>2. CASE k # j
    BY <1>c, <1>e, <2>2 DEF StrandedIsForgotten
  <2> QED
    BY <2>1, <2>2
<1>6. DownIsEmpty'
  BY <1>b DEF DownIsEmpty
<1> QED
  BY <1>1, <1>2, <1>3, <1>4, <1>5, <1>6

(* A get moves an id from the queue to the consumer, or drops it.          *)
LEMMA TakeStep ==
  ASSUME StormQueueAssumption, IndInv, TypeOK', Take
  PROVE  IndInv'
<1> DEFINE j == Head(dispatch)
<1> USE DEF IndInv
<1>a. /\ dispatch \in Seq(Jobs) /\ dispatch # <<>> /\ consumer.pc = "wait"
      /\ dispatch' = Tail(dispatch)
      /\ UNCHANGED <<jobs, now, process, enqueuing, retrying, polled, listed, runs>>
      /\ jobs \in [Jobs -> Row]
  BY DEF Take, TypeOK
<1>b. /\ j \in Jobs /\ Holds(dispatch, j)
      /\ \A k : Holds(dispatch', k) => Holds(dispatch, k)
  BY <1>a, GetTakesOne
<1>c. InFlight(j) /\ Due(j) /\ process # "down"
  BY <1>a, <1>b DEF InFlight, InFlightIsDue, DownIsEmpty
<1>d. DownIsEmpty'
  BY <1>a, <1>c DEF DownIsEmpty
<1>1. CASE ~Processable(Status(j))
  <2>1. consumer' = consumer
    BY <1>1 DEF Take
  <2>2. \A k \in Jobs : InFlight(k)' => InFlight(k)
    BY <1>a, <1>b, <2>1 DEF InFlight
  <2> QED
    BY <1>a, <1>d, <2>1, <2>2, QueueMove
<1>2. CASE Processable(Status(j))
  <2>1. consumer' = [pc |-> "loaded", job |-> j, attempts |-> jobs[j].attempts]
    BY <1>2 DEF Take
  <2>2. /\ consumer'.pc = "loaded" /\ consumer'.job = j
        /\ consumer'.attempts = jobs[j].attempts
    BY <2>1
  <2>3. \A k \in Jobs : InFlight(k)' => InFlight(k)
    BY <1>a, <1>b, <2>2 DEF InFlight
  <2>4. Status(j) \in {"absent", "queued", "running", "completed", "dead"}
    BY <1>a, <1>b DEF Status, Row
  <2>5. Status(j) # "running"
    BY <1>a, <1>b, <1>c DEF StrandedIsForgotten
  <2>6. Status(j) = "queued"
    BY <1>2, <2>4, <2>5 DEF Processable
  <2>7. RunsCounted'
    BY <1>a DEF RunsCounted, Status
  <2>8. CopyIsFresh'
    BY <1>a, <1>c, <2>2, <2>6 DEF CopyIsFresh, Status, Due
  <2>9. ListedAreDead'
    BY <1>a DEF ListedAreDead, Status
  <2>10. InFlightIsDue'
    BY <1>a, <2>3 DEF InFlightIsDue, Status, Due
  <2>11. StrandedIsForgotten'
    BY <1>a, <2>3 DEF StrandedIsForgotten, Status
  <2> QED
    BY <1>d, <2>7, <2>8, <2>9, <2>10, <2>11
<1> QED
  BY <1>1, <1>2

(* IndInv survives every step.                                             *)
LEMMA IndStep == StormQueueAssumption /\ IndInv /\ [Next]_vars => IndInv'
<1> SUFFICES ASSUME StormQueueAssumption, IndInv, [Next]_vars
             PROVE  IndInv'
  OBVIOUS
<1>a. TypeOK /\ TypeOK'
  BY TypeStep DEF IndInv
<1>b. /\ jobs \in [Jobs -> Row] /\ consumer \in ConsumerState
      /\ dispatch \in Seq(Jobs) /\ now \in Nat /\ runs \in [Jobs -> Nat]
      /\ consumer.job \in Jobs /\ polled \subseteq Jobs
      /\ enqueuing \subseteq Jobs \X Nat
  BY <1>a DEF TypeOK, ConsumerState
<1>c. /\ RunsCounted /\ CopyIsFresh /\ ListedAreDead /\ InFlightIsDue
      /\ StrandedIsForgotten /\ DownIsEmpty
  BY DEF IndInv
<1>1. CASE Tick
  <2>1. /\ now' = now + 1
        /\ UNCHANGED <<jobs, process, dispatch, enqueuing, retrying, consumer,
                       polled, listed, runs>>
    BY <1>1 DEF Tick
  <2>2. \A j \in Jobs : (Status(j)' = Status(j)) /\ (Due(j) => Due(j)')
    BY <1>b, <2>1 DEF Status, Due, Row
  <2>3. \A j : InFlight(j)' <=> InFlight(j)
    BY <2>1 DEF InFlight
  <2>4. RunsCounted' /\ ListedAreDead' /\ DownIsEmpty'
    BY <1>c, <2>1 DEF RunsCounted, ListedAreDead, DownIsEmpty, Status
  <2>5. CopyIsFresh'
    BY <1>b, <1>c, <2>1, <2>2 DEF CopyIsFresh
  <2>6. InFlightIsDue'
    BY <1>b, <1>c, <2>1, <2>2, <2>3 DEF InFlightIsDue
  <2>7. StrandedIsForgotten'
    BY <1>c, <2>1, <2>2, <2>3 DEF StrandedIsForgotten
  <2> QED
    BY <1>a, <2>4, <2>5, <2>6, <2>7 DEF IndInv
<1>2. ASSUME NEW j \in Jobs, NEW delay \in Delays, Enqueue(j, delay)
      PROVE  IndInv'
  BY <1>a, <1>2, EnqueueStep
<1>3. ASSUME NEW p \in enqueuing, PutEnqueued(p[1], p[2])
      PROVE  IndInv'
  <2>1. /\ process # "down" /\ enqueuing' \subseteq enqueuing
        /\ dispatch' = IF p[2] <= now THEN Append(dispatch, p[1]) ELSE dispatch
        /\ UNCHANGED <<jobs, now, process, retrying, consumer, polled, listed, runs>>
    BY <1>3 DEF PutEnqueued, PutNow
  <2>2. \A j \in Jobs : Holds(dispatch', j) =>
          Holds(dispatch, j) \/ (p[1] = j /\ p[2] <= now)
    BY <1>b, <2>1, PutAddsOne
  <2>3. \A j \in Jobs : InFlight(j)' =>
          InFlight(j) \/ \E q \in enqueuing : q[1] = j /\ q[2] <= now
    BY <2>1, <2>2 DEF InFlight
  <2>4. DownIsEmpty'
    BY <2>1 DEF DownIsEmpty
  <2> QED
    BY <1>a, <2>1, <2>3, <2>4, QueueMove
<1>4. CASE GetDeadJobs
  <2>1. /\ listed' = {j \in Jobs : Status(j) = "dead"}
        /\ UNCHANGED <<jobs, now, process, dispatch, enqueuing, retrying,
                       consumer, polled, runs>>
    BY <1>4 DEF GetDeadJobs
  <2>2. RunsCounted' /\ CopyIsFresh' /\ ListedAreDead' /\ DownIsEmpty'
    BY <1>c, <2>1 DEF RunsCounted, CopyIsFresh, ListedAreDead, DownIsEmpty, Status, Due
  <2>3. InFlightIsDue' /\ StrandedIsForgotten'
    BY <1>c, <2>1 DEF InFlightIsDue, StrandedIsForgotten, InFlight, Status, Due
  <2> QED
    BY <1>a, <2>2, <2>3 DEF IndInv
<1>5. ASSUME NEW j \in Jobs, RetryDeadJob(j)
      PROVE  IndInv'
  BY <1>a, <1>5, RetryStep
<1>6. ASSUME NEW j \in Jobs, PutRetried(j)
      PROVE  IndInv'
  <2>1. /\ process # "down" /\ j \in retrying /\ retrying' = retrying \ {j}
        /\ dispatch' = Append(dispatch, j)
        /\ UNCHANGED <<jobs, now, process, enqueuing, consumer, polled, listed, runs>>
    BY <1>6 DEF PutRetried
  <2>2. \A k : Holds(dispatch', k) <=> Holds(dispatch, k) \/ k = j
    BY <1>b, <2>1, PutAddsOne
  <2>3. \A k \in Jobs : InFlight(k)' => InFlight(k)
    BY <2>1, <2>2 DEF InFlight
  <2>4. DownIsEmpty'
    BY <2>1 DEF DownIsEmpty
  <2> QED
    BY <1>a, <2>1, <2>3, <2>4, QueueMove
<1>7. CASE Poll
  <2>1. /\ process # "down" /\ polled' = {j \in Jobs : Status(j) = "queued" /\ Due(j)}
        /\ UNCHANGED <<jobs, now, process, dispatch, enqueuing, retrying,
                       consumer, listed, runs>>
    BY <1>7 DEF Poll, Readable
  <2>2. \A k \in Jobs : InFlight(k)' => InFlight(k) \/ (Status(k) = "queued" /\ Due(k))
    BY <2>1 DEF InFlight
  <2>3. DownIsEmpty'
    BY <2>1 DEF DownIsEmpty
  <2> QED
    BY <1>a, <2>1, <2>2, <2>3, QueueMove
<1>8. CASE PutPolled
  <2>1. /\ process # "down" /\ polled' = {}
        /\ UNCHANGED <<jobs, now, process, enqueuing, retrying, consumer,
                       listed, runs>>
    BY <1>8 DEF PutPolled
  <2>2. Cardinality(polled) \in Nat
    BY <1>b, FS_Subset, FS_CardinalityType DEF StormQueueAssumption
  <2>3. PICK ids \in [1..Cardinality(polled) -> polled] : dispatch' = dispatch \o ids
    BY <1>8 DEF PutPolled
  <2>4. \A k : Holds(dispatch', k) => Holds(dispatch, k) \/ k \in polled
    BY <1>b, <2>2, <2>3, PutsAddTheirs
  <2>5. \A k \in Jobs : InFlight(k)' => InFlight(k)
    BY <2>1, <2>4 DEF InFlight
  <2>6. DownIsEmpty'
    BY <2>1 DEF DownIsEmpty
  <2> QED
    BY <1>a, <2>1, <2>5, <2>6, QueueMove
<1>9. CASE Take
  BY <1>a, <1>9, TakeStep
<1>10. CASE MarkRunning
  <2> DEFINE j == consumer.job
  <2>1. /\ consumer.pc = "loaded"
        /\ jobs' = [jobs EXCEPT ![j] = [status |-> "running",
                      attempts |-> jobs[j].attempts, run_at |-> jobs[j].run_at]]
        /\ runs' = [runs EXCEPT ![j] = @ + 1]
        /\ UNCHANGED <<now, process, dispatch, enqueuing, retrying, polled, listed>>
        /\ consumer' = Goto("run")
    BY <1>10, <1>b, MarkedRow DEF MarkRunning, JobStatus
  <2>2. /\ consumer'.pc = "run" /\ consumer'.job = j
        /\ consumer'.attempts = consumer.attempts
    BY <1>b, <2>1, GotoType
  <2>3. /\ jobs'[j].status = "running" /\ jobs'[j].attempts = jobs[j].attempts
        /\ jobs'[j].run_at = jobs[j].run_at /\ runs'[j] = runs[j] + 1
        /\ \A k \in Jobs \ {j} : jobs'[k] = jobs[k] /\ runs'[k] = runs[k]
    BY <1>b, <2>1
  <2>4. /\ Status(j) = "queued" /\ consumer.attempts = jobs[j].attempts
        /\ runs[j] = jobs[j].attempts /\ jobs[j].attempts < MaxAttempts
        /\ jobs[j].attempts \in Nat
    <3>1. /\ Status(j) = "queued" /\ consumer.attempts = jobs[j].attempts
          /\ jobs[j].attempts \in Nat
      BY <1>b, <1>c, <2>1 DEF CopyIsFresh, Row
    <3>2. /\ runs[j] = jobs[j].attempts + 0
          /\ jobs[j].attempts < MaxAttempts
      BY <1>b, <1>c, <3>1 DEF RunsCounted
    <3> QED
      BY <3>1, <3>2
  <2> QED
    BY <1>a, <1>b, <2>1, <2>2, <2>3, <2>4, ConsumerWrite DEF StormQueueAssumption
<1>11. CASE HandlerReturns
  <2> DEFINE j == consumer.job
  <2>1. /\ consumer.pc = "run"
        /\ jobs' = [jobs EXCEPT ![j] = [status |-> "completed",
                      attempts |-> jobs[j].attempts, run_at |-> jobs[j].run_at]]
        /\ UNCHANGED <<now, process, dispatch, enqueuing, retrying, polled,
                       listed, runs>>
        /\ consumer' = Goto("wait")
    BY <1>11, <1>b, MarkedRow DEF HandlerReturns, JobStatus
  <2>2. consumer'.pc = "wait" /\ consumer'.job = j
    BY <1>b, <2>1, GotoType
  <2>3. /\ jobs'[j].status = "completed" /\ jobs'[j].attempts = jobs[j].attempts
        /\ jobs'[j].run_at = jobs[j].run_at
        /\ \A k \in Jobs \ {j} : jobs'[k] = jobs[k] /\ runs'[k] = runs[k]
    BY <1>b, <2>1
  <2>4. /\ Status(j) = "running" /\ runs'[j] = jobs[j].attempts + 1
        /\ jobs[j].attempts < MaxAttempts
    BY <1>b, <1>c, <2>1 DEF CopyIsFresh, RunsCounted
  <2> QED
    BY <1>a, <2>1, <2>2, <2>3, <2>4, ConsumerWrite
<1>12. CASE HandlerRaises
  <2> DEFINE j == consumer.job
             again == consumer.attempts + 1 < MaxAttempts
  <2>1. /\ consumer.pc = "run"
        /\ jobs' = [jobs EXCEPT ![j] =
                      [status |-> IF again THEN "queued" ELSE "dead",
                       attempts |-> consumer.attempts + 1,
                       run_at |-> IF again THEN now ELSE jobs[j].run_at]]
        /\ UNCHANGED <<now, process, dispatch, enqueuing, retrying, polled,
                       listed, runs>>
        /\ consumer' = Goto(IF again THEN "putback" ELSE "wait")
    BY <1>12 DEF HandlerRaises, Spent, StatusAfter
  <2>2. consumer'.pc \in {"wait", "putback"} /\ consumer'.job = j
    BY <1>b, <2>1, GotoType
  <2>3. /\ jobs'[j].status = IF again THEN "queued" ELSE "dead"
        /\ jobs'[j].attempts = consumer.attempts + 1
        /\ jobs'[j].run_at = IF again THEN now ELSE jobs[j].run_at
        /\ \A k \in Jobs \ {j} : jobs'[k] = jobs[k] /\ runs'[k] = runs[k]
    BY <1>b, <2>1
  <2>4. /\ Status(j) = "running" /\ consumer.attempts = jobs[j].attempts
        /\ runs'[j] = jobs[j].attempts + 1 /\ jobs[j].attempts < MaxAttempts
        /\ jobs[j].attempts \in Nat /\ MaxAttempts \in Nat
    BY <1>b, <1>c, <2>1 DEF CopyIsFresh, RunsCounted, Row, StormQueueAssumption
  <2>5. IF again THEN jobs'[j].attempts < MaxAttempts
                 ELSE jobs'[j].attempts = MaxAttempts
    BY <2>3, <2>4
  <2> QED
    BY <1>a, <2>1, <2>2, <2>3, <2>4, <2>5, ConsumerWrite
<1>13. CASE PutBack
  <2>1. /\ consumer.pc = "putback" /\ dispatch' = Append(dispatch, consumer.job)
        /\ UNCHANGED <<jobs, now, process, enqueuing, retrying, polled, listed, runs>>
        /\ consumer' = Goto("wait")
    BY <1>13 DEF PutBack
  <2>2. consumer'.pc = "wait"
    BY <1>b, <2>1, GotoType
  <2>3. \A k : Holds(dispatch', k) <=> Holds(dispatch, k) \/ k = consumer.job
    BY <1>b, <2>1, PutAddsOne
  <2>4. \A k \in Jobs : InFlight(k)' => InFlight(k)
    BY <2>1, <2>2, <2>3 DEF InFlight
  <2>5. DownIsEmpty'
    BY <1>c, <2>1 DEF DownIsEmpty
  <2> QED
    BY <1>a, <2>1, <2>2, <2>4, <2>5, QueueMove
<1>14. CASE ReadFails
  <2>1. /\ consumer.pc = "wait" /\ dispatch # <<>> /\ dispatch' = Tail(dispatch)
        /\ UNCHANGED <<jobs, now, process, enqueuing, retrying, polled, listed, runs>>
        /\ consumer' = Goto("off")
    BY <1>14 DEF ReadFails
  <2>2. consumer'.pc = "off"
    BY <1>b, <2>1, GotoType
  <2>3. \A k : Holds(dispatch', k) => Holds(dispatch, k)
    BY <1>b, <2>1, GetTakesOne
  <2>4. \A k \in Jobs : InFlight(k)' => InFlight(k)
    BY <2>1, <2>2, <2>3 DEF InFlight
  <2>5. DownIsEmpty'
    BY <1>c, <2>1 DEF DownIsEmpty
  <2> QED
    BY <1>a, <2>1, <2>2, <2>4, <2>5, QueueMove
<1>15. CASE CommitFails
  <2>1. /\ consumer.pc \in {"loaded", "run"}
        /\ UNCHANGED <<jobs, now, process, dispatch, enqueuing, retrying,
                       polled, listed, runs>>
        /\ consumer' = Goto("off")
    BY <1>15 DEF CommitFails
  <2>2. consumer'.pc = "off"
    BY <1>b, <2>1, GotoType
  <2>3. \A k \in Jobs : InFlight(k)' => InFlight(k)
    BY <2>1, <2>2 DEF InFlight
  <2>4. DownIsEmpty'
    BY <1>c, <2>1 DEF DownIsEmpty
  <2> QED
    BY <1>a, <2>1, <2>2, <2>3, <2>4, QueueMove
<1>16. CASE Stop
  <2>1. /\ process' = "stopping" /\ polled' = {}
        /\ UNCHANGED <<jobs, now, dispatch, enqueuing, retrying, listed, runs>>
        /\ consumer' = Goto("off")
    BY <1>16 DEF Stop
  <2>2. consumer'.pc = "off"
    BY <1>b, <2>1, GotoType
  <2>3. \A k \in Jobs : InFlight(k)' => InFlight(k)
    BY <2>1, <2>2 DEF InFlight
  <2>4. DownIsEmpty'
    BY <2>1 DEF DownIsEmpty
  <2> QED
    BY <1>a, <2>1, <2>2, <2>3, <2>4, QueueMove
<1>17. CASE LoseMemory
  <2>1. /\ dispatch' = <<>> /\ enqueuing' = {} /\ retrying' = {} /\ polled' = {}
        /\ UNCHANGED <<jobs, now, listed, runs>>
        /\ consumer' = Goto("off")
    BY <1>17 DEF LoseMemory
  <2>2. consumer'.pc = "off"
    BY <1>b, <2>1, GotoType
  <2>3. \A k \in Jobs : ~InFlight(k)'
    BY <2>1, <2>2 DEF InFlight, Holds
  <2>4. DownIsEmpty'
    BY <2>1, <2>2 DEF DownIsEmpty
  <2> QED
    BY <1>a, <2>1, <2>2, <2>3, <2>4, QueueMove
<1>18. CASE Start
  <2>1. /\ process = "down" /\ process' = "up"
        /\ UNCHANGED <<jobs, now, dispatch, enqueuing, retrying, polled, listed,
                       runs>>
        /\ consumer' = Goto("wait")
    BY <1>18 DEF Start
  <2>2. consumer'.pc = "wait"
    BY <1>b, <2>1, GotoType
  <2>3. /\ dispatch' = <<>> /\ polled' = {} /\ retrying' = {} /\ enqueuing' = {}
    BY <1>c, <2>1 DEF DownIsEmpty
  <2>4. \A k \in Jobs : ~InFlight(k)'
    BY <2>2, <2>3 DEF InFlight, Holds
  <2>5. RunsCounted' /\ CopyIsFresh' /\ ListedAreDead' /\ DownIsEmpty'
    BY <1>c, <2>1, <2>2
       DEF RunsCounted, CopyIsFresh, ListedAreDead, DownIsEmpty, Status, Due
  <2>6. InFlightIsDue' /\ StrandedIsForgotten'
    BY <2>3, <2>4 DEF InFlightIsDue, StrandedIsForgotten
  <2> QED
    BY <1>a, <2>5, <2>6 DEF IndInv
<1>19. CASE UNCHANGED vars
  <2>1. \A k \in Jobs : InFlight(k)' => InFlight(k)
    BY <1>19 DEF vars, InFlight
  <2>2. DownIsEmpty'
    BY <1>c, <1>19 DEF vars, DownIsEmpty
  <2> QED
    BY <1>a, <1>19, <2>1, <2>2, QueueMove DEF vars
<1> QED
  BY <1>1, <1>2, <1>3, <1>4, <1>5, <1>6, <1>7, <1>8, <1>9, <1>10, <1>11, <1>12,
     <1>13, <1>14, <1>15, <1>16, <1>17, <1>18, <1>19
     DEF Next, ConsumerStep, CallerStep, FaultStep, Exit, Crash

-----------------------------------------------------------------------------
(* The theorems.                                                           *)

(* A process that has just started, over an empty table, satisfies it.     *)
LEMMA IndInit == StormQueueAssumption /\ Init => IndInv
<1> SUFFICES ASSUME StormQueueAssumption, Init
             PROVE  IndInv
  OBVIOUS
<1>1. (CHOOSE j \in Jobs : TRUE) \in Jobs
  BY DEF StormQueueAssumption
<1>2. TypeOK
  BY <1>1 DEF Init, TypeOK, Row, ConsumerState
<1>3. RunsCounted /\ ListedAreDead /\ DownIsEmpty
  BY DEF Init, RunsCounted, ListedAreDead, DownIsEmpty, Status, StormQueueAssumption
<1>4. CopyIsFresh
  BY DEF Init, CopyIsFresh
<1>5. InFlightIsDue /\ StrandedIsForgotten
  BY DEF Init, InFlightIsDue, StrandedIsForgotten, InFlight, Holds, Status
<1> QED
  BY <1>2, <1>3, <1>4, <1>5 DEF IndInv

(* In every reachable state each variable has its type and the inductive   *)
(* invariant holds, for any set of jobs, delays and bounds, through any    *)
(* stops, crashes and database errors.                                     *)
THEOREM Invariance == Spec => []IndInv
<1>1. StormQueueAssumption
  BY StormQueueAssumption
<1> QED
  BY <1>1, IndInit, IndStep, PTL DEF Spec

(* Rows, queue, tasks and the consumer's copy keep their types, for any    *)
(* jobs, delays and bounds.                                                *)
THEOREM TypeCorrectness == Spec => []TypeOK
<1>1. IndInv => TypeOK
  BY DEF IndInv
<1> QED
  BY <1>1, Invariance, PTL

(* The consumer calls a job's handler at most max_attempts times, and a    *)
(* dead job has had exactly that many calls.                               *)
THEOREM HandlerCallsAreBounded == Spec => []HandlerRunsBounded
<1>1. IndInv => HandlerRunsBounded
  <2> SUFFICES ASSUME IndInv, NEW j \in Jobs
               PROVE  /\ runs[j] <= MaxAttempts
                      /\ Status(j) = "dead" => runs[j] = MaxAttempts
    BY DEF HandlerRunsBounded
  <2>1. /\ jobs[j].attempts \in Nat /\ MaxAttempts \in Nat
    BY StormQueueAssumption DEF StormQueueAssumption, IndInv, TypeOK, Row
  <2>2. /\ runs[j] = jobs[j].attempts +
                       (IF Status(j) \in {"running", "completed"} THEN 1 ELSE 0)
        /\ IF Status(j) = "dead" THEN jobs[j].attempts = MaxAttempts
                                 ELSE jobs[j].attempts < MaxAttempts
    BY DEF IndInv, RunsCounted
  <2> QED
    BY <2>1, <2>2
<1> QED
  BY <1>1, Invariance, PTL

(* What one step may do to the row of job j, the others left alone: the    *)
(* five steps of JobLifecycle, in terms of the row.                        *)
RowStep(j) ==
  /\ \A k \in Jobs \ {j} : jobs'[k] = jobs[k]
  /\ \/ /\ Status(j) = "absent" /\ Status(j)' = "queued"
        /\ jobs'[j].attempts = jobs[j].attempts
     \/ /\ Status(j) = "queued" /\ Status(j)' = "running"
        /\ jobs'[j].attempts = jobs[j].attempts
        /\ Due(j)
     \/ /\ Status(j) = "running" /\ Status(j)' = "completed"
        /\ jobs'[j].attempts = jobs[j].attempts
     \/ /\ Status(j) = "running" /\ jobs[j].attempts < MaxAttempts
        /\ jobs'[j].attempts = jobs[j].attempts + 1
        /\ Status(j)' = IF jobs[j].attempts + 1 < MaxAttempts
                        THEN "queued" ELSE "dead"
     \/ /\ Status(j) = "dead" /\ Status(j)' = "queued"
        /\ jobs'[j].attempts = 0

(* Each row either stays or takes one step of its life, whatever the step. *)
LEMMA RowSteps ==
  StormQueueAssumption /\ IndInv /\ [Next]_vars
    => UNCHANGED jobs \/ \E j \in Jobs : RowStep(j)
<1> SUFFICES ASSUME StormQueueAssumption, IndInv, [Next]_vars
             PROVE  UNCHANGED jobs \/ \E j \in Jobs : RowStep(j)
  OBVIOUS
<1>a. jobs \in [Jobs -> Row] /\ consumer.job \in Jobs
  BY DEF IndInv, TypeOK, ConsumerState
<1>1. ASSUME NEW j \in Jobs, NEW delay \in Delays, Enqueue(j, delay)
      PROVE  RowStep(j)
  <2>1. /\ Status(j) = "absent"
        /\ jobs' = [jobs EXCEPT ![j] =
                      [status |-> "queued", attempts |-> 0, run_at |-> now + delay]]
    BY <1>1 DEF Enqueue
  <2>2. jobs[j].attempts = 0
    BY <2>1 DEF IndInv, RunsCounted
  <2> QED
    BY <1>a, <2>1, <2>2 DEF RowStep, Status
<1>2. ASSUME NEW j \in Jobs, RetryDeadJob(j)
      PROVE  RowStep(j)
  <2>1. /\ Status(j) = "dead"
        /\ jobs' = [jobs EXCEPT ![j] =
                      [status |-> "queued", attempts |-> 0, run_at |-> now]]
    BY <1>2 DEF RetryDeadJob, IndInv, ListedAreDead
  <2> QED
    BY <1>a, <2>1 DEF RowStep, Status
<1>3. ASSUME NEW j \in Jobs, j = consumer.job, MarkRunning
      PROVE  RowStep(j)
  <2>1. /\ consumer.pc = "loaded"
        /\ jobs' = [jobs EXCEPT ![j] = [status |-> "running",
                      attempts |-> jobs[j].attempts,
                      run_at |-> jobs[j].run_at]]
    BY <1>3, <1>a, MarkedRow DEF MarkRunning, JobStatus
  <2>2. Status(j) = "queued" /\ Due(j)
    BY <1>3, <2>1 DEF IndInv, CopyIsFresh
  <2> QED
    BY <1>a, <2>1, <2>2 DEF RowStep, Status
<1>4. ASSUME NEW j \in Jobs, j = consumer.job, HandlerReturns
      PROVE  RowStep(j)
  <2>1. /\ consumer.pc = "run"
        /\ jobs' = [jobs EXCEPT ![j] = [status |-> "completed",
                      attempts |-> jobs[j].attempts,
                      run_at |-> jobs[j].run_at]]
    BY <1>4, <1>a, MarkedRow DEF HandlerReturns, JobStatus
  <2>2. Status(j) = "running"
    BY <1>4, <2>1 DEF IndInv, CopyIsFresh
  <2> QED
    BY <1>a, <2>1, <2>2 DEF RowStep, Status
<1>5. ASSUME NEW j \in Jobs, j = consumer.job, HandlerRaises
      PROVE  RowStep(j)
  <2> DEFINE again == consumer.attempts + 1 < MaxAttempts
  <2>1. /\ consumer.pc = "run"
        /\ jobs' = [jobs EXCEPT ![j] =
                      [status |-> IF again THEN "queued" ELSE "dead",
                       attempts |-> consumer.attempts + 1,
                       run_at |-> IF again THEN now ELSE jobs[j].run_at]]
    BY <1>5 DEF HandlerRaises, Spent, StatusAfter
  <2>2. /\ Status(j) = "running"
        /\ consumer.attempts = jobs[j].attempts
    BY <1>5, <2>1 DEF IndInv, CopyIsFresh
  <2>3. jobs[j].attempts < MaxAttempts
    BY <1>a, <2>2 DEF IndInv, RunsCounted
  <2> QED
    BY <1>a, <2>1, <2>2, <2>3 DEF RowStep, Status
<1>6. CASE \/ Tick \/ GetDeadJobs \/ Poll \/ PutPolled \/ Take \/ PutBack
           \/ ReadFails \/ CommitFails \/ Stop \/ Exit \/ Crash \/ Start
           \/ UNCHANGED vars
           \/ \E p \in enqueuing : PutEnqueued(p[1], p[2])
           \/ \E j \in Jobs : PutRetried(j)
  BY <1>6 DEF Tick, GetDeadJobs, Poll, PutPolled, Take, PutBack, ReadFails,
              CommitFails, Stop, Exit, Crash, LoseMemory, Start, vars,
              PutEnqueued, PutRetried
<1> QED
  BY <1>a, <1>1, <1>2, <1>3, <1>4, <1>5, <1>6
     DEF Next, ConsumerStep, CallerStep, FaultStep

(* No handler starts before its job's run_at, though _process never looks  *)
(* at run_at: only ids of due jobs are ever put in the queue.              *)
THEOREM HandlersStartOnTime == Spec => NeverEarly
<1>1. StormQueueAssumption
  BY StormQueueAssumption
<1>2. ASSUME StormQueueAssumption, IndInv, [Next]_vars, NEW j \in Jobs,
             Status(j) # "running", Status(j)' = "running"
      PROVE  Due(j)
  <2>1. PICK k \in Jobs : RowStep(k)
    BY <1>2, RowSteps DEF Status
  <2>2. j = k
    BY <1>2, <2>1 DEF RowStep, Status
  <2> QED
    BY <1>2, <2>1, <2>2 DEF RowStep
<1>3. StormQueueAssumption /\ IndInv /\ [Next]_vars
        => [\A j \in Jobs :
              Status(j) # "running" /\ Status(j)' = "running" => Due(j)]_vars
  BY <1>2
<1> QED
  BY <1>1, <1>3, Invariance, PTL DEF Spec, NeverEarly

(* StormQueue implements JobLifecycle: for every number of jobs and        *)
(* attempts and through every fault, the table only ever takes the steps   *)
(* of a job's life.                                                        *)
THEOREM StormQueueImplementsJobLifecycle == Spec => LifecycleSpec
<1> DEFINE life == [j \in Jobs |-> jobs[j].status]
           attempts == [j \in Jobs |-> jobs[j].attempts]
<1>1. StormQueueAssumption
  BY StormQueueAssumption
<1>2. Init => Lifecycle!Init
  BY DEF Init, Lifecycle!Init
<1>3. StormQueueAssumption /\ IndInv /\ [Next]_vars
        => [Lifecycle!Next]_(Lifecycle!vars)
  <2> SUFFICES ASSUME StormQueueAssumption, IndInv, [Next]_vars
               PROVE  [Lifecycle!Next]_(Lifecycle!vars)
    OBVIOUS
  <2>1. CASE UNCHANGED jobs
    BY <2>1 DEF Lifecycle!vars
  <2>2. ASSUME NEW j \in Jobs, RowStep(j)
        PROVE  Lifecycle!Next
    <3>1. /\ life[j] = Status(j) /\ attempts[j] = jobs[j].attempts
          /\ life' = [life EXCEPT ![j] = Status(j)']
          /\ attempts' = [attempts EXCEPT ![j] = jobs'[j].attempts]
      BY <2>2 DEF RowStep, Status
    <3>2. jobs'[j].attempts = jobs[j].attempts => attempts' = attempts
      BY <3>1
    <3>3. CASE Status(j) = "absent"
      BY <2>2, <3>1, <3>2, <3>3 DEF RowStep, Lifecycle!Next, Lifecycle!Create
    <3>4. CASE Status(j) = "queued"
      BY <2>2, <3>1, <3>2, <3>4 DEF RowStep, Lifecycle!Next, Lifecycle!Begin
    <3>5. CASE Status(j) = "running" /\ Status(j)' = "completed"
      BY <2>2, <3>1, <3>2, <3>5 DEF RowStep, Lifecycle!Next, Lifecycle!Succeed
    <3>6. CASE Status(j) = "running" /\ Status(j)' # "completed"
      BY <2>2, <3>1, <3>6 DEF RowStep, Lifecycle!Next, Lifecycle!Raise
    <3>7. CASE Status(j) = "dead"
      BY <2>2, <3>1, <3>7 DEF RowStep, Lifecycle!Next, Lifecycle!Revive
    <3> QED
      BY <2>2, <3>3, <3>4, <3>5, <3>6, <3>7 DEF RowStep
  <2> QED
    BY <2>1, <2>2, RowSteps
<1> QED
  BY <1>1, <1>2, <1>3, Invariance, PTL DEF Spec, LifecycleSpec, Lifecycle!Spec
=============================================================================
