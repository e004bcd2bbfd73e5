------------------------- MODULE PaymentCreationProofs -------------------------
(***************************************************************************)
(* Proofs about PaymentCreation.tla: the inductive invariant IndInv, and   *)
(* from it that a key has one payment, whatever requests, errors, crashes  *)
(* and expiries come, that an answer lasts, and that of the jobs of        *)
(* payments that wait only those taken too early complete, whatever errors *)
(* the worker meets.                                                       *)
(***************************************************************************)
EXTENDS PaymentCreation, TLAPS

-----------------------------------------------------------------------------
(* The inductive invariant, in parts.                                      *)

(* A request holds its row uncommitted from the insert to the commit.      *)
RowFollowsRequest ==
  \A r \in Requests :
    /\ payment[r] = "inserted" <=> request[r].pc \in {"inserted", "enqueued"}
    /\ request[r].pc \in {"new", "fresh", "stale"} => payment[r] = "none"

(* The unique key: no two rows of a key, committed or not.                 *)
OneRowPerKey ==
  \A q, r \in Requests :
    Key(q) = Key(r) /\ payment[q] # "none" /\ payment[r] # "none" => q = r

(* The row of key k that is there to stay.                                 *)
IsAnswerFor(a, k) == a \in Requests /\ payment[a] \in Committed /\ Key(a) = k

(* What is stored for a key, and answered, is the committed row of the key *)
RecordsAreCommitted ==
  \A k \in Keys : record[k] # NoRequest => IsAnswerFor(record[k], k)

AnswersAreCommitted ==
  \A r \in Requests :
    answer[r] \in Requests => Started(r) /\ IsAnswerFor(answer[r], Key(r))

(* The worker's job is running, and what the worker has seen is so.        *)
WorkerIsRight ==
  /\ InHandler => life[worker.job] = "running"
  /\ worker.pc = "found" => payment[worker.job] \in Committed
  /\ worker.pc = "skipped" => worker.job \in early

(* A row whose job is committed has a job that will find it, or one that   *)
(* is under way, was cut short or is dead, unless the job was early.       *)
JobFollowsRow ==
  \A r \in Requests \ early :
    request[r].pc = "enqueued" \/ payment[r] = "pending" =>
      life[r] \in {"queued", "running", "dead"}

IndInv ==
  /\ TypeOK
  /\ RowFollowsRequest
  /\ OneRowPerKey
  /\ RecordsAreCommitted
  /\ AnswersAreCommitted
  /\ WorkerIsRight
  /\ JobFollowsRow

-----------------------------------------------------------------------------
(* Types.                                                                  *)

(* What an assignment to one field does to its record.                     *)
LEMMA Updates ==
  ASSUME TypeOK
  PROVE  /\ \A r \in Requests : \A x :
              [request EXCEPT ![r].pc = x]
                = [request EXCEPT ![r] = [pc |-> x, key |-> Key(r)]]
         /\ \A x : [worker EXCEPT !.pc = x] = [pc |-> x, job |-> worker.job]
<1>1. ASSUME NEW r \in Requests, NEW x
      PROVE  [request EXCEPT ![r].pc = x]
               = [request EXCEPT ![r] = [request[r] EXCEPT !.pc = x]]
  BY DEF TypeOK
<1>2. ASSUME NEW r \in Requests, NEW x
      PROVE  [request[r] EXCEPT !.pc = x] = [pc |-> x, key |-> Key(r)]
  <2>1. request[r] \in [pc : {"new", "fresh", "stale", "inserted", "enqueued", "done"},
                        key : Keys]
    BY DEF TypeOK
  <2> QED
    BY <2>1 DEF Key
<1>3. ASSUME NEW x
      PROVE  [worker EXCEPT !.pc = x] = [pc |-> x, job |-> worker.job]
  BY DEF TypeOK
<1> QED
  BY <1>1, <1>2, <1>3

(* What a crash does to a request, to its row and to nothing else.         *)
LEMMA CrashEffect ==
  ASSUME TypeOK, Crash
  PROVE  /\ request' \in [Requests ->
              [pc : {"new", "fresh", "stale", "inserted", "enqueued", "done"},
               key : Keys]]
         /\ payment' \in [Requests -> {"none", "inserted"} \cup Committed]
         /\ \A r \in Requests :
              /\ request'[r].pc = IF InFlight(r) THEN "done" ELSE request[r].pc
              /\ request'[r].key = request[r].key
              /\ payment'[r] = RolledBack(r)
<1>1. ASSUME NEW r \in Requests
      PROVE  request'[r] = [pc |-> IF InFlight(r) THEN "done" ELSE request[r].pc,
                            key |-> request[r].key]
  <2> DEFINE x == IF InFlight(r) THEN "done" ELSE request[r].pc
  <2>1. request'[r] = [request[r] EXCEPT !.pc = x]
    BY DEF Crash
  <2>2. request[r] \in [pc : {"new", "fresh", "stale", "inserted", "enqueued", "done"},
                        key : Keys]
    BY DEF TypeOK
  <2> HIDE DEF x
  <2>3. request'[r] = [pc |-> x, key |-> request[r].key]
    BY <2>1, <2>2
  <2> QED
    BY <2>3 DEF x
<1>2. request' = [r \in Requests |->
        [pc |-> IF InFlight(r) THEN "done" ELSE request[r].pc, key |-> request[r].key]]
  BY <1>1 DEF Crash
<1> QED
  BY <1>1, <1>2 DEF Crash, TypeOK, RolledBack, InFlight, Committed

(* The types survive every step.                                           *)
LEMMA TypeStep ==
  PaymentCreationAssumption /\ TypeOK /\ [Next]_vars => TypeOK'
<1> SUFFICES ASSUME PaymentCreationAssumption, TypeOK, [Next]_vars
             PROVE  TypeOK'
  OBVIOUS
<1> USE DEF TypeOK, Committed, recordVars, requestVars, jobVars, faultVars
<1>a. worker.job \in Requests /\ \A r \in Requests : Key(r) \in Keys
  BY DEF Key
<1>b. MaxAttempts \in Nat /\ MaxCrashes \in Nat /\ MaxDbErrors \in Nat
  BY DEF PaymentCreationAssumption
<1>1. ASSUME NEW r \in Requests, NEW k \in Keys, CheckKey(r, k)
      PROVE  TypeOK'
  BY <1>1 DEF CheckKey
<1>2. ASSUME NEW r \in Requests, InsertPayment(r)
      PROVE  TypeOK'
  BY <1>2, <1>a, Updates DEF InsertPayment, Goto
<1>3. ASSUME NEW r \in Requests, InsertRefused(r)
      PROVE  TypeOK'
  BY <1>3, <1>a, Updates DEF InsertRefused, Answer, Goto, RecordAfterRefusal
<1>4. ASSUME NEW r \in Requests, EnqueueProcessJob(r)
      PROVE  TypeOK'
  BY <1>4, <1>a, Updates DEF EnqueueProcessJob, CreateJob, Queue!Create, Goto
<1>5. ASSUME NEW r \in Requests, CommitPayment(r)
      PROVE  TypeOK'
  BY <1>5, <1>a, Updates DEF CommitPayment, AtCommit, Answer, Goto
<1>6. ASSUME NEW k \in Keys, ExpireRecord(k)
      PROVE  TypeOK'
  BY <1>6 DEF ExpireRecord
<1>7. ASSUME NEW r \in Requests, StartJob(r)
      PROVE  TypeOK'
  BY <1>7 DEF StartJob, Queue!Begin
<1>8. CASE FinishJob
  BY <1>8, <1>a, Updates DEF FinishJob, Queue!Succeed, Processed
<1>12. CASE JobRaises
  <2>1. /\ worker' = [pc |-> "idle", job |-> worker.job]
        /\ attempts' \in [Requests -> 0..MaxAttempts]
        /\ life' \in [Requests -> {"absent", "queued", "running", "completed", "dead"}]
    BY <1>12, <1>a, <1>b, Updates DEF JobRaises, EndRaised, Queue!Raise
  <2>2. payment' \in [Requests -> {"none", "inserted"} \cup Committed]
    BY <1>12, <1>a DEF JobRaises, Processed
  <2>3. dbErrors' \in 0..MaxDbErrors
    BY <1>12, <1>b DEF JobRaises
  <2>4. UNCHANGED <<record, expired, request, answer, early, crashes>>
    BY <1>12 DEF JobRaises
  <2> QED
    BY <1>a, <2>1, <2>2, <2>3, <2>4
<1>13. CASE ConsumerEnds
  BY <1>13, <1>a, <1>b, Updates DEF ConsumerEnds, Processed
<1>9. ASSUME NEW r \in Requests, DbError(r)
      PROVE  TypeOK'
  BY <1>9, <1>a, <1>b, Updates DEF DbError, RolledBack, Answer, Goto
<1>10. CASE Crash
  <2>1. /\ worker' = [pc |-> "idle", job |-> worker.job]
        /\ crashes' \in 0..MaxCrashes
    BY <1>10, <1>b, Updates DEF Crash
  <2>2. /\ payment' \in [Requests -> {"none", "inserted"} \cup Committed]
        /\ request' \in [Requests ->
             [pc : {"new", "fresh", "stale", "inserted", "enqueued", "done"},
              key : Keys]]
    BY <1>10, CrashEffect
  <2>3. UNCHANGED <<record, expired, answer, life, attempts, early, dbErrors>>
    BY <1>10 DEF Crash
  <2> QED
    BY <1>a, <2>1, <2>2, <2>3
<1>11. CASE UNCHANGED vars
  BY <1>11 DEF vars
<1> QED
  BY <1>1, <1>2, <1>3, <1>4, <1>5, <1>6, <1>7, <1>8, <1>9, <1>10, <1>11, <1>12,
     <1>13
  DEF Next, RequestStep, WorkerStep, WorkerFault

-----------------------------------------------------------------------------
(* Every action preserves the other parts of IndInv.                       *)

Rest ==
  /\ RowFollowsRequest
  /\ OneRowPerKey
  /\ RecordsAreCommitted
  /\ AnswersAreCommitted
  /\ WorkerIsRight
  /\ JobFollowsRow

(* A new request has no row yet, so taking its key disturbs nobody.        *)
LEMMA CheckKeyStep ==
  ASSUME PaymentCreationAssumption, IndInv, NEW r \in Requests, NEW k \in Keys,
         CheckKey(r, k), TypeOK'
  PROVE  Rest'
<1>1. /\ request[r].pc = "new" /\ payment[r] = "none"
      /\ request'[r].key = k /\ request'[r].pc \in {"fresh", "stale", "done"}
      /\ \A q \in Requests \ {r} : request'[q] = request[q] /\ answer'[q] = answer[q]
      /\ answer'[r] = answer[r] \/ (answer'[r] = record[k] /\ record[k] # NoRequest)
      /\ UNCHANGED <<payment, record, worker, life, early>>
  BY DEF IndInv, TypeOK, RowFollowsRequest, CheckKey, recordVars, jobVars
<1>2. RowFollowsRequest'
  BY <1>1 DEF IndInv, RowFollowsRequest
<1>3. OneRowPerKey'
  BY <1>1 DEF IndInv, OneRowPerKey, Key
<1>4. \A a \in Requests, c \in Keys : IsAnswerFor(a, c) => a # r /\ IsAnswerFor(a, c)'
  BY <1>1 DEF IsAnswerFor, Committed, Key
<1>5. RecordsAreCommitted'
  BY <1>1, <1>4 DEF IndInv, RecordsAreCommitted, IsAnswerFor
<1>6. answer[r] \notin Requests
  BY <1>1 DEF IndInv, AnswersAreCommitted, Started
<1>7. AnswersAreCommitted'
  <2> SUFFICES ASSUME NEW q \in Requests, answer'[q] \in Requests
               PROVE  (Started(q) /\ IsAnswerFor(answer[q], Key(q)))'
    BY DEF AnswersAreCommitted
  <2>1. CASE q = r
    <3>1. IsAnswerFor(record[k], k)
      BY <1>1, <1>6, <2>1 DEF IndInv, RecordsAreCommitted
    <3> QED
      BY <1>1, <1>4, <1>6, <2>1, <3>1 DEF Started, IsAnswerFor, Key
  <2>2. CASE q # r
    <3>1. Started(q) /\ IsAnswerFor(answer[q], request[q].key)
      BY <1>1, <2>2 DEF IndInv, AnswersAreCommitted, Key
    <3>2. request[q].key \in Keys
      BY DEF IndInv, TypeOK
    <3> QED
      BY <1>1, <1>4, <2>2, <3>1, <3>2 DEF Started, IsAnswerFor, Key
  <2> QED
    BY <2>1, <2>2
<1>8. WorkerIsRight' /\ JobFollowsRow'
  BY <1>1 DEF IndInv, WorkerIsRight, InHandler, JobFollowsRow
<1> QED
  BY <1>2, <1>3, <1>5, <1>7, <1>8 DEF Rest

(* The unique key: the INSERT runs only if no row of the key is there.     *)
LEMMA InsertPaymentStep ==
  ASSUME PaymentCreationAssumption, IndInv, NEW r \in Requests,
         InsertPayment(r), TypeOK'
  PROVE  Rest'
<1>1. /\ request[r].pc \in {"fresh", "stale"} /\ payment[r] = "none"
      /\ payment' = [payment EXCEPT ![r] = "inserted"]
      /\ request' = [request EXCEPT ![r] = [pc |-> "inserted", key |-> Key(r)]]
      /\ UNCHANGED <<record, answer, worker, life, early>>
  BY Updates DEF IndInv, RowFollowsRequest, InsertPayment, InsertMayRun, Goto,
     recordVars, jobVars
<1>2. /\ request'[r].pc = "inserted" /\ payment'[r] = "inserted"
      /\ \A q \in Requests : request'[q].key = request[q].key
      /\ \A q \in Requests \ {r} : request'[q] = request[q] /\ payment'[q] = payment[q]
  BY <1>1 DEF IndInv, TypeOK, Key
<1>3. \A q \in Requests : Key(q) = Key(r) => payment[q] = "none"
  <2> SUFFICES ASSUME NEW q \in Requests, Key(q) = Key(r), payment[q] # "none"
               PROVE  FALSE
    OBVIOUS
  <2>1. q \in SameKey(Key(r))
    BY DEF IndInv, RowFollowsRequest, SameKey, Started
  <2>2. payment[q] # "inserted" /\ payment[q] \notin Committed
    BY <2>1 DEF InsertPayment, InsertMayRun, KeyTaken
  <2> QED
    BY <2>2 DEF IndInv, TypeOK
<1>4. RowFollowsRequest'
  BY <1>1, <1>2 DEF IndInv, RowFollowsRequest
<1>5. OneRowPerKey'
  BY <1>2, <1>3 DEF IndInv, OneRowPerKey, Key
<1>6. \A a, c : IsAnswerFor(a, c) => IsAnswerFor(a, c)'
  BY <1>1, <1>2 DEF IsAnswerFor, Committed, Key
<1>7. RecordsAreCommitted' /\ AnswersAreCommitted'
  BY <1>1, <1>2, <1>6
  DEF IndInv, RecordsAreCommitted, AnswersAreCommitted, IsAnswerFor, Started, Key
<1>8. WorkerIsRight' /\ JobFollowsRow'
  BY <1>1, <1>2 DEF IndInv, TypeOK, WorkerIsRight, InHandler, JobFollowsRow, Committed
<1> QED
  BY <1>4, <1>5, <1>7, <1>8 DEF Rest

(* What a request that ends with an error, its own row rolled back, leaves *)
LEMMA FailedRequest ==
  ASSUME PaymentCreationAssumption, IndInv, NEW r \in Requests,
         InFlight(r),
         payment' = [payment EXCEPT ![r] = RolledBack(r)],
         Answer(r, Failure),
         UNCHANGED <<record, jobVars>>
  PROVE  Rest'
<1>1. /\ request' = [request EXCEPT ![r] = [pc |-> "done", key |-> Key(r)]]
      /\ payment[r] \notin Committed
      /\ UNCHANGED <<record, worker, life, early>>
  BY Updates
  DEF IndInv, RowFollowsRequest, InFlight, Answer, Goto, jobVars, Committed
<1>2. /\ request'[r].pc = "done" /\ payment'[r] = "none" /\ answer'[r] = Failure
      /\ \A q \in Requests : request'[q].key = request[q].key
      /\ \A q \in Requests \ {r} :
           request'[q] = request[q] /\ payment'[q] = payment[q] /\ answer'[q] = answer[q]
  BY <1>1 DEF IndInv, TypeOK, Key, RolledBack, Answer
<1>3. RowFollowsRequest' /\ OneRowPerKey'
  BY <1>2 DEF IndInv, RowFollowsRequest, OneRowPerKey, Key
<1>4. \A a, c : IsAnswerFor(a, c) => IsAnswerFor(a, c)'
  BY <1>1, <1>2 DEF IsAnswerFor, Committed, Key
<1>5. Failure \notin Requests
  BY DEF PaymentCreationAssumption
<1>6. RecordsAreCommitted' /\ AnswersAreCommitted'
  BY <1>1, <1>2, <1>4, <1>5
  DEF IndInv, RecordsAreCommitted, AnswersAreCommitted, IsAnswerFor, Started, Key
<1>7. WorkerIsRight' /\ JobFollowsRow'
  BY <1>1, <1>2 DEF IndInv, TypeOK, WorkerIsRight, InHandler, JobFollowsRow, Committed
<1> QED
  BY <1>3, <1>6, <1>7 DEF Rest

LEMMA RefusalAndErrorStep ==
  ASSUME PaymentCreationAssumption, IndInv, NEW r \in Requests,
         InsertRefused(r) \/ DbError(r), TypeOK'
  PROVE  Rest'
<1>1. CASE InsertRefused(r)
  <2>1. InFlight(r) /\ payment[r] = "none"
    BY <1>1 DEF IndInv, RowFollowsRequest, InsertRefused, InsertMayRun, InFlight
  <2>2. payment' = [payment EXCEPT ![r] = RolledBack(r)]
    BY <1>1, <2>1 DEF InsertRefused, RolledBack, IndInv, TypeOK
  <2> QED
    BY <1>1, <2>1, <2>2, FailedRequest DEF InsertRefused, RecordAfterRefusal
<1>2. CASE DbError(r)
  BY <1>2, FailedRequest DEF DbError, recordVars
<1> QED
  BY <1>1, <1>2

(* From here on the row has a job: the one just committed.                 *)
LEMMA EnqueueStep ==
  ASSUME PaymentCreationAssumption, IndInv, NEW r \in Requests,
         EnqueueProcessJob(r), TypeOK'
  PROVE  Rest'
<1>1. /\ request[r].pc = "inserted" /\ life[r] = "absent"
      /\ request' = [request EXCEPT ![r] = [pc |-> "enqueued", key |-> Key(r)]]
      /\ life' = [life EXCEPT ![r] = "queued"]
      /\ UNCHANGED <<payment, record, answer, worker, early>>
  BY Updates DEF IndInv, EnqueueProcessJob, CreateJob, Queue!Create, Goto, recordVars
<1>2. /\ request'[r].pc = "enqueued" /\ life'[r] = "queued"
      /\ \A q \in Requests : request'[q].key = request[q].key
      /\ \A q \in Requests \ {r} : request'[q] = request[q] /\ life'[q] = life[q]
  BY <1>1 DEF IndInv, TypeOK, Key
<1>3. RowFollowsRequest' /\ OneRowPerKey'
  BY <1>1, <1>2 DEF IndInv, RowFollowsRequest, OneRowPerKey, Key
<1>4. \A a, c : IsAnswerFor(a, c) => IsAnswerFor(a, c)'
  BY <1>1, <1>2 DEF IsAnswerFor, Key
<1>5. RecordsAreCommitted' /\ AnswersAreCommitted'
  BY <1>1, <1>2, <1>4
  DEF IndInv, RecordsAreCommitted, AnswersAreCommitted, IsAnswerFor, Started, Key
<1>6. WorkerIsRight' /\ JobFollowsRow'
  BY <1>1, <1>2 DEF IndInv, TypeOK, WorkerIsRight, InHandler, JobFollowsRow
<1> QED
  BY <1>3, <1>5, <1>6 DEF Rest

(* The row becomes the key's answer, to this request and to later ones.    *)
LEMMA CommitStep ==
  ASSUME PaymentCreationAssumption, IndInv, NEW r \in Requests,
         CommitPayment(r), TypeOK'
  PROVE  Rest'
<1>1. /\ request[r].pc = "enqueued" /\ payment[r] = "inserted"
      /\ payment' = [payment EXCEPT ![r] = "pending"]
      /\ record' = [record EXCEPT ![Key(r)] = r]
      /\ request' = [request EXCEPT ![r] = [pc |-> "done", key |-> Key(r)]]
      /\ answer' = [answer EXCEPT ![r] = r]
      /\ UNCHANGED <<worker, life, early>>
  BY Updates
  DEF IndInv, RowFollowsRequest, CommitPayment, AtCommit, Answer, Goto, jobVars
<1>2. /\ request'[r].pc = "done" /\ payment'[r] = "pending" /\ answer'[r] = r
      /\ \A q \in Requests : request'[q].key = request[q].key
      /\ \A q \in Requests \ {r} :
           request'[q] = request[q] /\ payment'[q] = payment[q] /\ answer'[q] = answer[q]
      /\ \A k \in Keys : record'[k] = IF k = Key(r) THEN r ELSE record[k]
  BY <1>1 DEF IndInv, TypeOK, Key
<1>3. RowFollowsRequest' /\ OneRowPerKey'
  BY <1>1, <1>2 DEF IndInv, RowFollowsRequest, OneRowPerKey, Key
<1>4. /\ \A a, c : IsAnswerFor(a, c) => IsAnswerFor(a, c)'
      /\ \A c : c = Key(r) => IsAnswerFor(r, c)'
  BY <1>1, <1>2 DEF IsAnswerFor, Committed, Key
<1>5. RecordsAreCommitted'
  BY <1>2, <1>4 DEF IndInv, RecordsAreCommitted, IsAnswerFor
<1>6. AnswersAreCommitted'
  BY <1>1, <1>2, <1>4
  DEF IndInv, AnswersAreCommitted, IsAnswerFor, Started, Key
<1>7. WorkerIsRight' /\ JobFollowsRow'
  BY <1>1, <1>2 DEF IndInv, TypeOK, WorkerIsRight, InHandler, JobFollowsRow, Committed
<1> QED
  BY <1>3, <1>5, <1>6, <1>7 DEF Rest

(* Expiry is looked at by later requests alone.                            *)
LEMMA ExpireStep ==
  ASSUME IndInv, NEW k \in Keys, ExpireRecord(k)
  PROVE  Rest'
BY DEF IndInv, Rest, RowFollowsRequest, OneRowPerKey, RecordsAreCommitted,
   AnswersAreCommitted, WorkerIsRight, InHandler, JobFollowsRow, IsAnswerFor, Started, Key,
   ExpireRecord, requestVars, jobVars

(* A job that does not find its payment committed is noted as early.       *)
LEMMA StartJobStep ==
  ASSUME IndInv, NEW r \in Requests, StartJob(r), TypeOK'
  PROVE  Rest'
<1>1. /\ worker.pc = "idle" /\ life[r] = "queued"
      /\ life' = [life EXCEPT ![r] = "running"]
      /\ worker' = [pc |-> IF payment[r] \in Committed THEN "found" ELSE "skipped",
                    job |-> r]
      /\ early' = IF payment[r] \in Committed THEN early \ {r} ELSE early \cup {r}
      /\ UNCHANGED <<payment, record, expired, request, answer>>
  BY DEF StartJob, Queue!Begin, recordVars, requestVars
<1>2. life'[r] = "running" /\ \A q \in Requests \ {r} : life'[q] = life[q]
  BY <1>1 DEF IndInv, TypeOK
<1>3. RowFollowsRequest' /\ OneRowPerKey' /\ RecordsAreCommitted' /\ AnswersAreCommitted'
  BY <1>1 DEF IndInv, RowFollowsRequest, OneRowPerKey, RecordsAreCommitted,
     AnswersAreCommitted, IsAnswerFor, Started, Key
<1>4. WorkerIsRight' /\ JobFollowsRow'
  BY <1>1, <1>2 DEF IndInv, WorkerIsRight, InHandler, JobFollowsRow
<1> QED
  BY <1>3, <1>4 DEF Rest

(* What the end of a job, or of the consumer task, leaves: the job's       *)
(* payment processed or as it was; a job that completes has processed it   *)
(* or was early, another one is queued, dead or cut short.                 *)
LEMMA JobStops ==
  ASSUME IndInv,
         payment' \in {payment, Processed},
         worker'.pc \in {"idle", "ended"},
         \/ InHandler /\ payment' = Processed /\ life'[worker.job] = "completed"
         \/ UNCHANGED life
         \/ InHandler /\ life'[worker.job] \in {"queued", "dead"},
         \A q \in Requests \ {worker.job} : life'[q] = life[q],
         UNCHANGED <<record, request, answer, early>>
  PROVE  Rest'
<1> DEFINE r == worker.job
<1>1. /\ r \in Requests
      /\ \A q \in Requests \ {r} : payment'[q] = payment[q]
      /\ worker.pc = "found" => payment[r] \in Committed
      /\ \/ payment'[r] = payment[r]
         \/ payment[r] \in Committed /\ payment'[r] = "processed"
  BY DEF IndInv, TypeOK, WorkerIsRight, Processed
<1>2. life'[r] = "completed" /\ life' # life => r \in early \/ payment'[r] = "processed"
  BY DEF IndInv, TypeOK, WorkerIsRight, InHandler, Processed
<1>3. \/ life'[r] = "completed" /\ life' # life /\ InHandler
      \/ UNCHANGED life
      \/ life'[r] \in {"queued", "dead"}
  OBVIOUS
<1>4. \A q \in Requests \ {r} : life'[q] = life[q]
  OBVIOUS
<1> HIDE DEF r
<1>5. \A q \in Requests :
        payment'[q] = payment[q] \/ (payment[q] \in Committed /\ payment'[q] = "processed")
  BY <1>1
<1>6. RowFollowsRequest' /\ OneRowPerKey'
  BY <1>5 DEF IndInv, RowFollowsRequest, OneRowPerKey, Key, Committed
<1>7. \A a, c : IsAnswerFor(a, c) => IsAnswerFor(a, c)'
  BY <1>5 DEF IsAnswerFor, Committed, Key
<1>8. RecordsAreCommitted' /\ AnswersAreCommitted'
  BY <1>7
  DEF IndInv, RecordsAreCommitted, AnswersAreCommitted, IsAnswerFor, Started, Key
<1>9. WorkerIsRight'
  BY DEF WorkerIsRight, InHandler
<1>10. JobFollowsRow'
  <2> SUFFICES ASSUME NEW q \in Requests, q \notin early,
                      request[q].pc = "enqueued" \/ payment'[q] = "pending"
               PROVE  life'[q] \in {"queued", "running", "dead"}
    BY DEF JobFollowsRow
  <2>1. life[q] \in {"queued", "running", "dead"} /\ payment'[q] # "processed"
    BY <1>5 DEF IndInv, JobFollowsRow, RowFollowsRequest, Committed
  <2>2. CASE q = r
    BY <1>2, <1>3, <2>1, <2>2
  <2>3. CASE q # r
    BY <1>4, <2>1, <2>3
  <2> QED
    BY <2>2, <2>3
<1> QED
  BY <1>6, <1>8, <1>9, <1>10 DEF Rest

LEMMA JobEndStep ==
  ASSUME IndInv, FinishJob \/ JobRaises \/ ConsumerEnds, TypeOK'
  PROVE  Rest'
<1>1. TypeOK /\ worker.job \in Requests
  BY DEF IndInv, TypeOK
<1>2. CASE FinishJob
  <2>1. /\ life'[worker.job] = "completed"
        /\ \A q \in Requests \ {worker.job} : life'[q] = life[q]
    BY <1>1, <1>2 DEF FinishJob, Queue!Succeed, TypeOK
  <2>2. worker'.pc = "idle"
    BY <1>1, <1>2, Updates DEF FinishJob
  <2>3. UNCHANGED <<record, request, answer, early>> /\ InHandler /\ payment' = Processed
    BY <1>2 DEF FinishJob, recordVars, requestVars
  <2> QED
    BY <2>1, <2>2, <2>3, JobStops
<1>3. CASE JobRaises
  <2>1. /\ life'[worker.job] \in {"queued", "dead"}
        /\ \A q \in Requests \ {worker.job} : life'[q] = life[q]
    BY <1>1, <1>3 DEF JobRaises, EndRaised, Queue!Raise, TypeOK
  <2>2. worker'.pc = "idle"
    BY <1>1, <1>3, Updates DEF JobRaises
  <2>3. /\ UNCHANGED <<record, request, answer, early>>
        /\ InHandler /\ payment' \in {payment, Processed}
    BY <1>3 DEF JobRaises, recordVars, requestVars
  <2> QED
    BY <2>1, <2>2, <2>3, JobStops
<1>4. CASE ConsumerEnds
  <2>1. worker'.pc = "ended"
    BY <1>1, <1>4, Updates DEF ConsumerEnds
  <2>2. /\ UNCHANGED <<record, request, answer, early, life>>
        /\ payment' \in {payment, Processed}
    BY <1>4 DEF ConsumerEnds, recordVars, requestVars
  <2> QED
    BY <2>1, <2>2, JobStops
<1> QED
  BY <1>2, <1>3, <1>4

(* A crash rolls back the rows of the requests it ends, no others.         *)
LEMMA CrashStep ==
  ASSUME IndInv, Crash, TypeOK'
  PROVE  Rest'
<1>1. /\ \A q \in Requests :
           /\ request'[q].pc = IF InFlight(q) THEN "done" ELSE request[q].pc
           /\ request'[q].key = request[q].key
           /\ payment'[q] = IF payment[q] = "inserted" THEN "none" ELSE payment[q]
      /\ worker' = [pc |-> "idle", job |-> worker.job]
      /\ UNCHANGED <<record, answer, life, early>>
  <2>1. TypeOK
    BY DEF IndInv
  <2>2. worker' = [pc |-> "idle", job |-> worker.job]
    BY <2>1, Updates DEF Crash
  <2>3. UNCHANGED <<record, answer, life, early>>
    BY DEF Crash, recordVars
  <2> QED
    BY <2>1, <2>2, <2>3, CrashEffect DEF RolledBack
<1>2. RowFollowsRequest' /\ OneRowPerKey'
  BY <1>1 DEF IndInv, RowFollowsRequest, OneRowPerKey, Key, InFlight
<1>3. \A a, c : IsAnswerFor(a, c) => IsAnswerFor(a, c)'
  BY <1>1 DEF IsAnswerFor, Committed, Key
<1>4. RecordsAreCommitted' /\ AnswersAreCommitted'
  BY <1>1, <1>3
  DEF IndInv, RecordsAreCommitted, AnswersAreCommitted, IsAnswerFor, Started, Key
<1>5. WorkerIsRight' /\ JobFollowsRow'
  BY <1>1 DEF IndInv, WorkerIsRight, InHandler, JobFollowsRow, InFlight
<1> QED
  BY <1>2, <1>4, <1>5 DEF Rest

-----------------------------------------------------------------------------
(* The invariant.                                                          *)

LEMMA IndInit == PaymentCreationAssumption /\ Init => IndInv
<1> SUFFICES ASSUME PaymentCreationAssumption, Init
             PROVE  IndInv
  OBVIOUS
<1>1. /\ (CHOOSE r \in Requests : TRUE) \in Requests
      /\ (CHOOSE k \in Keys : TRUE) \in Keys
  BY DEF PaymentCreationAssumption
<1>2. /\ MaxAttempts \in Nat /\ MaxCrashes \in Nat /\ MaxDbErrors \in Nat
      /\ NoRequest \notin Requests
  BY DEF PaymentCreationAssumption
<1>3. TypeOK
  BY <1>1, <1>2 DEF Init, TypeOK
<1>4. /\ RowFollowsRequest /\ OneRowPerKey /\ RecordsAreCommitted
      /\ AnswersAreCommitted /\ WorkerIsRight /\ JobFollowsRow
  BY <1>2 DEF Init, RowFollowsRequest, OneRowPerKey, RecordsAreCommitted,
     AnswersAreCommitted, WorkerIsRight, InHandler, JobFollowsRow
<1> QED
  BY <1>3, <1>4 DEF IndInv

LEMMA IndStep == PaymentCreationAssumption /\ IndInv /\ [Next]_vars => IndInv'
<1> SUFFICES ASSUME PaymentCreationAssumption, IndInv, [Next]_vars
             PROVE  IndInv'
  OBVIOUS
<1>1. TypeOK'
  BY TypeStep DEF IndInv
<1>2. Rest'
  <2>1. CASE Next
    BY <1>1, <2>1, CheckKeyStep, InsertPaymentStep, RefusalAndErrorStep, EnqueueStep,
       CommitStep, ExpireStep, StartJobStep, JobEndStep, CrashStep
    DEF Next, RequestStep, WorkerStep, WorkerFault
  <2>2. CASE UNCHANGED vars
    BY <2>2 DEF IndInv, Rest, RowFollowsRequest, OneRowPerKey, RecordsAreCommitted,
       AnswersAreCommitted, WorkerIsRight, InHandler, JobFollowsRow, IsAnswerFor, Started, Key,
       vars, recordVars, requestVars, jobVars, faultVars
  <2> QED
    BY <2>1, <2>2
<1> QED
  BY <1>1, <1>2 DEF IndInv, Rest

(* IndInv holds of every behaviour: a key has one row, and every record    *)
(* and every answer is the committed row of its key.                       *)
THEOREM Invariance == Spec => []IndInv
<1>1. Init => IndInv
  BY PaymentCreationAssumption, IndInit
<1>2. IndInv /\ [Next]_vars => IndInv'
  BY PaymentCreationAssumption, IndStep
<1> QED
  BY <1>1, <1>2, PTL DEF Spec

-----------------------------------------------------------------------------
(* What create_payment and its job promise.                                *)

(* Rows, records, requests and jobs keep their types.                      *)
THEOREM TypeCorrectness == Spec => []TypeOK
<1>1. IndInv => TypeOK
  BY DEF IndInv
<1> QED
  BY <1>1, Invariance, PTL

(* Whatever requests of a key run at a time, before and after the expiry   *)
(* of its record, through errors and crashes, they get one answer: the     *)
(* committed row of the key, of which there is one.                        *)
THEOREM OneAnswerPerKey == Spec => []SameKeySameAnswer
<1>1. IndInv => SameKeySameAnswer
  BY DEF IndInv, SameKeySameAnswer, OneRowPerKey, AnswersAreCommitted, IsAnswerFor,
     Committed
<1> QED
  BY <1>1, Invariance, PTL

(* No request is answered with a payment that is rolled back.              *)
THEOREM AnswersLast == Spec => []AnswerIsCommitted
<1>1. IndInv => AnswerIsCommitted
  BY DEF IndInv, AnswerIsCommitted, AnswersAreCommitted, IsAnswerFor
<1> QED
  BY <1>1, Invariance, PTL

(* Through raising handlers, ended consumers, errors of requests and       *)
(* crashes, a payment that waits has a job that is queued, was under way   *)
(* or is listed as dead, unless its job was last taken before the          *)
(* payment's commit.                                                       *)
THEOREM OnlyEarlyJobsDrop == Spec => []DroppedOnlyIfEarly
<1>1. IndInv => DroppedOnlyIfEarly
  BY DEF IndInv, DroppedOnlyIfEarly, JobFollowsRow
<1> QED
  BY <1>1, Invariance, PTL

=============================================================================
