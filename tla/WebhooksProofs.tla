---------------------------- MODULE WebhooksProofs ----------------------------
(***************************************************************************)
(* Proofs about Webhooks.tla: the inductive invariant IndInv, and from it  *)
(* that a job finds its event, that posts are bounded, that an event is    *)
(* neither dropped nor ended for a false reason, that it keeps its end,    *)
(* and that a deactivated endpoint gets one late delivery at most.         *)
(***************************************************************************)
EXTENDS Webhooks, TLAPS, FiniteSetTheorems

-----------------------------------------------------------------------------
(* The inductive invariant, in parts.                                      *)

(* The handler has its event in hand, its attempt not yet accounted for.   *)
Open == {"found", "posting", "succeeded", "exhausted", "retrying"}

(* The event has been posted, and the attempt is not counted yet.          *)
Uncounted == {"succeeded", "exhausted", "retrying", "rescheduled"}

At(v, pcs) == worker.pc \in pcs /\ Delivered = v

(* The jobs of an event that are still to post it.                         *)
Live(v) == {j \in JobsOf(v) : \/ life[j] = "queued"
                              \/ worker.job = j /\ worker.pc \in Open}

One(condition) == IF condition THEN 1 ELSE 0

(* The types, without the bound of attempt_count: that is LiveBounded's.   *)
Types ==
  /\ endpoint \in [Endpoints -> {"unregistered", "active", "inactive"}]
  /\ event \in [Events ->
       [status : {"none", "queued", "failed", "delivered", "dead"},
        attempt_count : Nat]]
  /\ dispatch \in [Dispatches ->
       [pc : {"new", "sending", "done"}, to : SUBSET Endpoints,
        left : SUBSET Endpoints]]
  /\ worker \in [pc : Open \cup {"idle", "rescheduled", "return", "ended"}, job : Jobs]
  /\ life \in [Jobs -> {"absent", "queued", "running", "completed", "dead"}]
  /\ attempts \in [Jobs -> 0..MaxAttempts]
  /\ posts \in [Events -> Nat]
  /\ received \subseteq Events
  /\ late \in [Endpoints -> Nat]
  /\ skipped \subseteq Events
  /\ dbErrors \in Nat /\ crashes \in Nat /\ dbErrors + crashes <= MaxFaults

(* There is one worker: at most one handler runs, dispatch or deliver.     *)
OneHandler ==
  /\ worker.pc \notin {"idle", "ended"} => life[worker.job] = "running"
  /\ \A d \in Dispatches : dispatch[d].pc = "sending" =>
       /\ worker.pc = "idle"
       /\ \A c \in Dispatches : dispatch[c].pc = "sending" => c = d

(* Events and their jobs stem from a dispatch: the jobs while it sends, to *)
(* endpoints it has found active, the events from its end on.              *)
StemFromDispatch ==
  \A v \in Events :
    /\ JobsOf(v) # {} =>
         /\ dispatch[v[1]].pc # "new"
         /\ v[2] \in dispatch[v[1]].to \ dispatch[v[1]].left
    /\ Exists(v) => JobsOf(v) # {} /\ dispatch[v[1]].pc = "done"
    /\ v \in skipped => dispatch[v[1]].pc = "done" /\ ~Exists(v)
    /\ At(v, Open \cup {"rescheduled"}) => Exists(v)
    /\ ~Exists(v) => event[v].attempt_count = 0

(* While a dispatch sends, the job of each event it has flushed is queued. *)
SendingQueues ==
  \A d \in Dispatches : dispatch[d].pc = "sending" =>
    \A e \in dispatch[d].to \ dispatch[d].left : life[<<<<d, e>>, 1>>] = "queued"

(* dispatch sends to endpoints that are, or were, active.                  *)
Registered ==
  \A d \in Dispatches :
    /\ dispatch[d].left \subseteq dispatch[d].to
    /\ \A e \in dispatch[d].to : endpoint[e] # "unregistered"

(* A job is numbered by the attempts and faults before it.                 *)
JobsCounted ==
  \A v \in Events :
    Cardinality(JobsOf(v)) <= 1 + event[v].attempt_count + dbErrors + crashes
                                + One(At(v, {"rescheduled"}))

(* An event has one job to post it, none once it is settled, and one more  *)
(* for each database error; past its last attempt it is not posted more    *)
(* often than that.                                                        *)
LiveBounded ==
  \A v \in Events :
    /\ Cardinality(Live(v)) <= dbErrors + One(event[v].status \notin Settled)
    /\ event[v].attempt_count >= MaxDeliveries =>
         event[v].attempt_count + Cardinality(Live(v)) <= MaxDeliveries + dbErrors

(* Every post is counted, is being counted, or was cut short by a fault.   *)
PostsCounted ==
  \A v \in Events :
    posts[v] <= event[v].attempt_count + dbErrors + crashes + One(At(v, Uncounted))

(* An open event has a job other than the one that is about to end.  Once  *)
(* its retry is enqueued, that is a job in the queue.                      *)
Unended(v) ==
  \E j \in JobsOf(v) :
    /\ life[j] \in {"queued", "running", "dead"}
    /\ ~(worker.job = j /\ worker.pc \in {"rescheduled", "return"})

OpenHasJob ==
  \A v \in Events :
    /\ event[v].status \in {"queued", "failed"} => Unended(v)
    /\ At(v, {"rescheduled"}) => \E j \in JobsOf(v) : life[j] = "queued"

(* What the handler is about to commit is true.                            *)
AnswerIsTrue ==
  /\ worker.pc = "succeeded" => Delivered \in received
  /\ worker.pc = "exhausted" => LastAttempt(Delivered)
  /\ worker.pc \in {"retrying", "rescheduled"} => ~LastAttempt(Delivered)

(* The late delivery is the one that was under way.                        *)
LateWasUnderWay ==
  \A e \in Endpoints :
    /\ endpoint[e] # "inactive" => late[e] = 0
    /\ worker.pc = "posting" /\ Delivered[2] = e => late[e] = 0

IndInv ==
  /\ Types
  /\ OneHandler
  /\ StemFromDispatch
  /\ SendingQueues
  /\ Registered
  /\ JobsCounted
  /\ LiveBounded
  /\ PostsCounted
  /\ OpenHasJob
  /\ AnswerIsTrue
  /\ LateWasUnderWay
  /\ EndIsHonest
  /\ AtMostOneLate

-----------------------------------------------------------------------------
(* Events, jobs and their number.                                          *)

(* An event is a pair of a dispatch and an endpoint, a job has an event.   *)
LEMMA Pairs ==
  /\ \A v \in Events : /\ v[1] \in Dispatches /\ v[2] \in Endpoints
                       /\ v = <<v[1], v[2]>>
  /\ \A d \in Dispatches, e \in Endpoints :
       <<d, e>> \in Events /\ <<d, e>>[1] = d /\ <<d, e>>[2] = e
  /\ \A j \in Jobs : j[1] \in Events /\ j[2] \in 1..MaxDeliveries + MaxFaults
  /\ \A v \in Events, n \in 1..MaxDeliveries + MaxFaults :
       <<v, n>> \in Jobs /\ <<v, n>>[1] = v
BY DEF Events, Jobs

(* Sets of jobs, such as the jobs of an event, are finite: so one job more *)
(* or less is one more or less in number.                                  *)
LEMMA CountJobs ==
  ASSUME WebhooksAssumption, NEW S \in SUBSET Jobs, NEW T \in SUBSET Jobs
  PROVE  /\ Cardinality(S) \in Nat
         /\ S \subseteq T => Cardinality(S) <= Cardinality(T)
         /\ \A j \in Jobs : T \subseteq S \cup {j} => Cardinality(T) <= Cardinality(S) + 1
         /\ \A j \in S : T \subseteq S \ {j} => Cardinality(T) <= Cardinality(S) - 1
<1>1. IsFiniteSet(Jobs)
  <2>1. IsFiniteSet(Events)
    BY FS_Product DEF WebhooksAssumption, Events
  <2>2. MaxDeliveries + MaxFaults \in Int
    BY DEF WebhooksAssumption
  <2>3. IsFiniteSet(1..MaxDeliveries + MaxFaults)
    BY <2>2, FS_Interval
  <2> QED
    BY <2>1, <2>3, FS_Product DEF Jobs
<1>2. /\ IsFiniteSet(S) /\ Cardinality(S) \in Nat
      /\ IsFiniteSet(T) /\ Cardinality(T) \in Nat
  BY <1>1, FS_Subset, FS_CardinalityType
<1>3. S \subseteq T => Cardinality(S) <= Cardinality(T)
  BY <1>2, FS_Subset
<1>4. ASSUME NEW j \in Jobs, T \subseteq S \cup {j}
      PROVE  Cardinality(T) <= Cardinality(S) + 1
  <2>1. /\ IsFiniteSet(S \cup {j})
        /\ Cardinality(S \cup {j}) = Cardinality(S)
             \/ Cardinality(S \cup {j}) = Cardinality(S) + 1
    BY <1>2, FS_AddElement
  <2>2. Cardinality(T) <= Cardinality(S \cup {j})
    BY <1>4, <2>1, FS_Subset
  <2> QED
    BY <1>2, <2>1, <2>2
<1>5. ASSUME NEW j \in S, T \subseteq S \ {j}
      PROVE  Cardinality(T) <= Cardinality(S) - 1
  <2>1. /\ IsFiniteSet(S \ {j})
        /\ Cardinality(S \ {j}) = Cardinality(S) - 1
    BY <1>2, FS_RemoveElement
  <2> QED
    BY <1>5, <2>1, FS_Subset
<1> QED
  BY <1>2, <1>3, <1>4, <1>5

-----------------------------------------------------------------------------
(* Types.                                                                  *)

(* What an assignment to one column or field does to its record.           *)
LEMMA Updates ==
  ASSUME Types
  PROVE  /\ \A d \in Dispatches : \A x :
              /\ [dispatch EXCEPT ![d].pc = x]
                   = [dispatch EXCEPT ![d] =
                        [pc |-> x, to |-> dispatch[d].to, left |-> dispatch[d].left]]
              /\ [dispatch EXCEPT ![d].left = x]
                   = [dispatch EXCEPT ![d] =
                        [pc |-> dispatch[d].pc, to |-> dispatch[d].to, left |-> x]]
         /\ \A v \in Events : \A x :
              [event EXCEPT ![v].status = x]
                = [event EXCEPT ![v] =
                     [status |-> x, attempt_count |-> event[v].attempt_count]]
         /\ \A x : [worker EXCEPT !.pc = x] = [pc |-> x, job |-> worker.job]
<1>1. ASSUME NEW d \in Dispatches, NEW x
      PROVE  /\ [dispatch EXCEPT ![d].pc = x]
                  = [dispatch EXCEPT ![d] = [dispatch[d] EXCEPT !.pc = x]]
             /\ [dispatch EXCEPT ![d].left = x]
                  = [dispatch EXCEPT ![d] = [dispatch[d] EXCEPT !.left = x]]
  BY DEF Types
<1>2. ASSUME NEW d \in Dispatches, NEW x
      PROVE  /\ [dispatch[d] EXCEPT !.pc = x]
                  = [pc |-> x, to |-> dispatch[d].to, left |-> dispatch[d].left]
             /\ [dispatch[d] EXCEPT !.left = x]
                  = [pc |-> dispatch[d].pc, to |-> dispatch[d].to, left |-> x]
  <2>1. dispatch[d] \in [pc : {"new", "sending", "done"}, to : SUBSET Endpoints,
                         left : SUBSET Endpoints]
    BY DEF Types
  <2> QED
    BY <2>1
<1>3. ASSUME NEW v \in Events, NEW x
      PROVE  [event EXCEPT ![v].status = x]
               = [event EXCEPT ![v] = [event[v] EXCEPT !.status = x]]
  BY DEF Types
<1>4. ASSUME NEW v \in Events, NEW x
      PROVE  [event[v] EXCEPT !.status = x]
               = [status |-> x, attempt_count |-> event[v].attempt_count]
  <2>1. event[v] \in [status : {"none", "queued", "failed", "delivered", "dead"},
                      attempt_count : Nat]
    BY DEF Types
  <2> QED
    BY <2>1
<1>5. ASSUME NEW x
      PROVE  [worker EXCEPT !.pc = x] = [pc |-> x, job |-> worker.job]
  BY DEF Types
<1> QED
  BY <1>1, <1>2, <1>3, <1>4, <1>5

(* The types survive every step.                                           *)
LEMMA TypesStep ==
  WebhooksAssumption /\ Types /\ [Next]_vars => Types'
<1> SUFFICES ASSUME WebhooksAssumption, Types, [Next]_vars
             PROVE  Types'
  OBVIOUS
<1> USE DEF Types, Open, jobVars, postVars, faultVars
<1>a. Delivered \in Events /\ Delivered[2] \in Endpoints /\ worker.job \in Jobs
  BY Pairs DEF Delivered
<1>b. MaxAttempts \in Nat /\ MaxFaults \in Nat /\ MaxDeliveries \in Nat
  BY DEF WebhooksAssumption
<1>1. ASSUME NEW e \in Endpoints, RegisterEndpoint(e) \/ DeactivateEndpoint(e)
      PROVE  Types'
  BY <1>1 DEF RegisterEndpoint, DeactivateEndpoint
<1>2. ASSUME NEW d \in Dispatches, StartDispatch(d)
      PROVE  Types'
  BY <1>2 DEF StartDispatch
<1>3. ASSUME NEW d \in Dispatches, NEW e \in Endpoints, EnqueueDelivery(d, e)
      PROVE  Types'
  <2>1. dispatch' = [dispatch EXCEPT ![d] =
          [pc |-> dispatch[d].pc, to |-> dispatch[d].to,
           left |-> dispatch[d].left \ {e}]]
    BY <1>3, Updates DEF EnqueueDelivery
  <2>2. dispatch' \in [Dispatches ->
          [pc : {"new", "sending", "done"}, to : SUBSET Endpoints,
           left : SUBSET Endpoints]]
    BY <2>1
  <2>3. life' \in [Jobs -> {"absent", "queued", "running", "completed", "dead"}]
    BY <1>3 DEF EnqueueDelivery, Queue!Create
  <2> QED
    BY <1>3, <2>2, <2>3 DEF EnqueueDelivery, Queue!Create
<1>4. ASSUME NEW d \in Dispatches, CommitDispatch(d)
      PROVE  Types'
  <2>1. dispatch' = [dispatch EXCEPT ![d] =
          [pc |-> "done", to |-> dispatch[d].to, left |-> dispatch[d].left]]
    BY <1>4, Updates DEF CommitDispatch
  <2> QED
    BY <1>4, <2>1 DEF CommitDispatch
<1>5. ASSUME NEW j \in Jobs, StartDelivery(j)
      PROVE  Types'
  BY <1>5, Pairs DEF StartDelivery, Queue!Begin
<1>6. CASE CheckEndpoint
  <2>1. CASE MayPost(Delivered[2])
    BY <1>6, <2>1 DEF CheckEndpoint, Goto
  <2>2. CASE ~MayPost(Delivered[2])
    <3>1. event' = [event EXCEPT ![Delivered] =
            [status |-> "dead", attempt_count |-> event[Delivered].attempt_count]]
      BY <1>6, <1>a, <2>2, Updates DEF CheckEndpoint
    <3> QED
      BY <1>6, <1>a, <2>2, <3>1 DEF CheckEndpoint, Goto
  <2> QED
    BY <2>1, <2>2
<1>7. CASE Post
  BY <1>7, <1>a DEF Post, Goto, Outcome
<1>8. CASE CommitDelivered
  BY <1>8, <1>a DEF CommitDelivered, Goto, Settle, AfterEnd
<1>9. CASE CommitDead
  BY <1>9, <1>a DEF CommitDead, Goto, Settle, AfterEnd
<1>10. CASE EnqueueRetry
  BY <1>10, <1>a DEF EnqueueRetry, NextJob, Queue!Create, Goto
<1>11. CASE CommitFailed
  BY <1>11, <1>a DEF CommitFailed, Goto, Settle
<1>12. CASE FinishJob
  BY <1>12, <1>a DEF FinishJob, Goto, Queue!Succeed
<1>13. CASE DeliveryDbError
  BY <1>13, <1>a, <1>b DEF DeliveryDbError, Busy, MayFail, Queue!Raise, Goto
<1>14. ASSUME NEW d \in Dispatches, DispatchDbError(d)
      PROVE  Types'
  <2>1. dispatch' = [dispatch EXCEPT ![d] =
          [pc |-> "done", to |-> dispatch[d].to, left |-> dispatch[d].left]]
    BY <1>14, Updates DEF DispatchDbError
  <2> QED
    BY <1>14, <1>b, <2>1 DEF DispatchDbError, MayFail
<1>15. CASE Crash \/ ConsumerEnds
  <2>0. PICK pc \in {"idle", "ended"} : CutShort(pc)
    BY <1>15 DEF Crash, ConsumerEnds
  <2>1. \A d \in Dispatches :
          dispatch'[d] = [pc |-> IF dispatch[d].pc = "sending" THEN "done"
                                 ELSE dispatch[d].pc,
                          to |-> dispatch[d].to, left |-> dispatch[d].left]
    <3> SUFFICES ASSUME NEW d \in Dispatches
                 PROVE  dispatch'[d] = [pc |-> IF dispatch[d].pc = "sending"
                                               THEN "done" ELSE dispatch[d].pc,
                                        to |-> dispatch[d].to,
                                        left |-> dispatch[d].left]
      OBVIOUS
    <3> DEFINE x == IF dispatch[d].pc = "sending" THEN "done" ELSE dispatch[d].pc
    <3>1. dispatch'[d] = [dispatch[d] EXCEPT !.pc = x]
      BY <2>0 DEF CutShort
    <3>2. dispatch[d] \in [pc : {"new", "sending", "done"},
                           to : SUBSET Endpoints, left : SUBSET Endpoints]
      OBVIOUS
    <3> HIDE DEF x
    <3>3. [dispatch[d] EXCEPT !.pc = x]
            = [pc |-> x, to |-> dispatch[d].to, left |-> dispatch[d].left]
      BY <3>2
    <3> QED
      BY <3>1, <3>3 DEF x
  <2>2. dispatch' = [d \in Dispatches |-> dispatch'[d]]
    BY <2>0 DEF CutShort
  <2>3. dispatch' \in [Dispatches ->
          [pc : {"new", "sending", "done"}, to : SUBSET Endpoints,
           left : SUBSET Endpoints]]
    BY <2>1, <2>2
  <2>4. worker' = [pc |-> pc, job |-> worker.job]
    BY <2>0, Updates DEF CutShort, Goto
  <2>5. UNCHANGED <<endpoint, event, life, attempts, posts, received, late,
                    skipped>>
        /\ dbErrors + crashes < MaxFaults
        /\ \/ crashes' = crashes + 1 /\ dbErrors' = dbErrors
           \/ dbErrors' = dbErrors + 1 /\ crashes' = crashes
    BY <1>15 DEF Crash, ConsumerEnds, MayFail
  <2> QED
    BY <1>b, <2>3, <2>4, <2>5
<1>16. CASE UNCHANGED vars
  BY <1>16 DEF vars
<1> QED
  BY <1>1, <1>2, <1>3, <1>4, <1>5, <1>6, <1>7, <1>8, <1>9, <1>10, <1>11, <1>12,
     <1>13, <1>14, <1>15, <1>16 DEF Next, WorkerStep, DeliveryStep, DispatchStep

-----------------------------------------------------------------------------
(* The steps, one lemma for each group that disturbs the same parts.       *)

(* A request registers or deactivates an endpoint.                         *)
LEMMA EndpointStep ==
  ASSUME WebhooksAssumption, IndInv, Types', NEW e \in Endpoints,
         RegisterEndpoint(e) \/ DeactivateEndpoint(e)
  PROVE  IndInv'
<1> USE DEF IndInv, jobVars, postVars, faultVars
<1>1. /\ UNCHANGED <<event, dispatch, worker, life, attempts, posts, received,
                     late, skipped, dbErrors, crashes>>
      /\ \A c \in Endpoints : \/ endpoint'[c] = endpoint[c]
                              \/ endpoint[c] = "unregistered" /\ endpoint'[c] = "active"
                              \/ endpoint[c] = "active" /\ endpoint'[c] = "inactive"
  BY DEF RegisterEndpoint, DeactivateEndpoint, Types
<1>2. OneHandler' /\ SendingQueues'
  BY <1>1 DEF OneHandler, SendingQueues
<1>3. StemFromDispatch'
  BY <1>1 DEF StemFromDispatch, JobsOf, Exists, At, Delivered
<1>4. Registered'
  BY <1>1 DEF Registered, Types
<1>5. JobsCounted'
  BY <1>1 DEF JobsCounted, JobsOf, At, Delivered
<1>6. LiveBounded'
  BY <1>1 DEF LiveBounded, Live, JobsOf
<1>7. PostsCounted'
  BY <1>1 DEF PostsCounted, At, Delivered
<1>8. OpenHasJob'
  BY <1>1 DEF OpenHasJob, Unended, JobsOf, At, Delivered
<1>9. AnswerIsTrue'
  BY <1>1 DEF AnswerIsTrue, LastAttempt, Delivered
<1>10. LateWasUnderWay' /\ AtMostOneLate'
  BY <1>1 DEF LateWasUnderWay, AtMostOneLate, Delivered
<1>11. EndIsHonest'
  BY <1>1, Pairs DEF EndIsHonest
<1> QED
  BY <1>2, <1>3, <1>4, <1>5, <1>6, <1>7, <1>8, <1>9, <1>10, <1>11

(* dispatch reads the active endpoints.                                    *)
LEMMA StartDispatchStep ==
  ASSUME WebhooksAssumption, IndInv, Types', NEW d \in Dispatches, StartDispatch(d)
  PROVE  IndInv'
<1> USE DEF IndInv, jobVars, postVars, faultVars
<1>1. /\ UNCHANGED <<endpoint, event, worker, life, attempts, posts, received,
                     late, skipped, dbErrors, crashes>>
      /\ worker.pc = "idle" /\ dispatch[d].pc = "new"
      /\ \A c \in Dispatches : dispatch[c].pc # "sending"
      /\ dispatch'[d].pc = "sending" /\ dispatch'[d].left = dispatch'[d].to
      /\ \A e \in dispatch'[d].to : endpoint[e] = "active"
      /\ \A c \in Dispatches \ {d} : dispatch'[c] = dispatch[c]
  BY DEF StartDispatch, WorkerFree, Types
<1>2. OneHandler'
  BY <1>1 DEF OneHandler
<1>3. \A v \in Events : v[1] = d => JobsOf(v) = {} /\ ~Exists(v) /\ v \notin skipped
  BY <1>1 DEF StemFromDispatch
<1>4. StemFromDispatch'
  BY <1>1, <1>3, Pairs DEF StemFromDispatch, JobsOf, Exists, At, Delivered
<1>5. SendingQueues'
  BY <1>1 DEF SendingQueues
<1>6. Registered'
  BY <1>1 DEF Registered
<1>7. JobsCounted' /\ PostsCounted'
  BY <1>1 DEF JobsCounted, PostsCounted, JobsOf, At, Delivered
<1>8. LiveBounded'
  BY <1>1 DEF LiveBounded, Live, JobsOf
<1>9. OpenHasJob'
  BY <1>1 DEF OpenHasJob, Unended, JobsOf, At, Delivered
<1>10. AnswerIsTrue' /\ LateWasUnderWay' /\ AtMostOneLate' /\ EndIsHonest'
  BY <1>1 DEF AnswerIsTrue, LastAttempt, Delivered, LateWasUnderWay, AtMostOneLate,
              EndIsHonest
<1> QED
  BY <1>2, <1>4, <1>5, <1>6, <1>7, <1>8, <1>9, <1>10

(* dispatch flushes an event, whose first job is committed.                *)
LEMMA EnqueueDeliveryStep ==
  ASSUME WebhooksAssumption, IndInv, Types', NEW d \in Dispatches,
         NEW e \in Endpoints, EnqueueDelivery(d, e)
  PROVE  IndInv'
<1> DEFINE w == <<d, e>>
           new == <<<<d, e>>, 1>>
<1> USE DEF IndInv, jobVars, postVars, faultVars
<1>a. w \in Events /\ w[1] = d /\ w[2] = e /\ new \in Jobs /\ new[1] = w
  <2>1. 1 \in 1..MaxDeliveries + MaxFaults
    BY DEF WebhooksAssumption
  <2> QED
    BY <2>1, Pairs
<1>1. /\ UNCHANGED <<endpoint, event, worker, attempts, posts, received,
                     late, skipped, dbErrors, crashes>>
      /\ dispatch[d].pc = "sending" /\ e \in dispatch[d].left
      /\ life[new] = "absent"
      /\ life' = [life EXCEPT ![new] = "queued"]
  BY DEF EnqueueDelivery, Queue!Create
<1>2. dispatch' = [dispatch EXCEPT ![d] =
        [pc |-> dispatch[d].pc, to |-> dispatch[d].to,
         left |-> dispatch[d].left \ {e}]]
  BY Updates DEF EnqueueDelivery
<1>3. /\ dispatch'[d].pc = "sending" /\ dispatch'[d].to = dispatch[d].to
      /\ dispatch'[d].left = dispatch[d].left \ {e}
      /\ \A c \in Dispatches \ {d} : dispatch'[c] = dispatch[c]
      /\ life'[new] = "queued"
      /\ \A j \in Jobs \ {new} : life'[j] = life[j]
  BY <1>1, <1>2, <1>a DEF Types
<1>4. worker.pc = "idle" /\ \A c \in Dispatches : dispatch[c].pc = "sending" => c = d
  BY <1>1 DEF OneHandler
<1>5. JobsOf(w) = {} /\ ~Exists(w) /\ event[w].status = "none"
  BY <1>1, <1>a DEF StemFromDispatch, Exists
<1>6. /\ JobsOf(w)' = {new} /\ Live(w)' = {new}
      /\ \A v \in Events \ {w} : JobsOf(v)' = JobsOf(v) /\ Live(v)' = Live(v)
  BY <1>1, <1>3, <1>5, <1>a DEF JobsOf, Live
<1>7. Cardinality({new}) = 1
  BY FS_Singleton
<1>8. OneHandler'
  BY <1>1, <1>3, <1>4 DEF OneHandler
<1>9. StemFromDispatch'
  <2>1. e \in dispatch'[d].to \ dispatch'[d].left
    BY <1>1, <1>3 DEF Registered
  <2>2. ASSUME NEW v \in Events, v # w, v[1] = d
        PROVE  v[2] # e
    BY <2>2, Pairs
  <2>3. \A v \in Events : Exists(v)' <=> Exists(v)
    BY <1>1 DEF Exists
  <2>4. \A v \in Events : ~At(v, Open \cup {"rescheduled"})'
    BY <1>1, <1>4 DEF At, Open
  <2>5. ASSUME NEW v \in Events, JobsOf(v)' # {}
        PROVE  /\ dispatch'[v[1]].pc # "new"
               /\ v[2] \in dispatch'[v[1]].to \ dispatch'[v[1]].left
    <3>1. CASE v = w
      BY <1>3, <1>a, <2>1, <3>1
    <3>2. CASE v # w
      <4>1. /\ dispatch[v[1]].pc # "new"
            /\ v[2] \in dispatch[v[1]].to \ dispatch[v[1]].left
        BY <1>6, <2>5, <3>2 DEF StemFromDispatch
      <4> QED
        BY <1>1, <1>3, <4>1, Pairs
    <3> QED
      BY <3>1, <3>2
  <2>6. ASSUME NEW v \in Events
        PROVE  /\ Exists(v)' => JobsOf(v)' # {} /\ dispatch'[v[1]].pc = "done"
               /\ v \in skipped' => dispatch'[v[1]].pc = "done" /\ ~Exists(v)'
    <3>1. dispatch[v[1]].pc = "done" => v[1] # d
      BY <1>1
    <3>2. Exists(v) => v # w
      BY <1>5
    <3> QED
      BY <1>1, <1>3, <1>6, <2>3, <3>1, <3>2, Pairs DEF StemFromDispatch
  <2> QED
    BY <1>1, <2>3, <2>4, <2>5, <2>6 DEF StemFromDispatch
<1>10. SendingQueues'
  <2> SUFFICES ASSUME NEW c \in Dispatches, dispatch'[c].pc = "sending",
                      NEW x \in dispatch'[c].to \ dispatch'[c].left
               PROVE  life'[<<<<c, x>>, 1>>] = "queued"
    BY DEF SendingQueues
  <2>1. c = d
    BY <1>3, <1>4
  <2>2. CASE x = e
    BY <1>3, <2>1, <2>2
  <2>3. CASE x # e
    <3>1. x \in dispatch[d].to \ dispatch[d].left
      BY <1>3, <2>1, <2>3
    <3>2. x \in Endpoints
      BY <3>1 DEF Types
    <3>3. <<<<d, x>>, 1>> \in Jobs /\ <<<<d, x>>, 1>> # new
      <4>1. 1 \in 1..MaxDeliveries + MaxFaults
        BY DEF WebhooksAssumption
      <4> QED
        BY <2>3, <3>2, <4>1, Pairs
    <3> QED
      BY <1>1, <1>3, <2>1, <3>1, <3>3 DEF SendingQueues
  <2> QED
    BY <2>2, <2>3
<1>11. Registered'
  BY <1>1, <1>3 DEF Registered
<1>12. JobsCounted'
  <2> SUFFICES ASSUME NEW v \in Events
               PROVE  (Cardinality(JobsOf(v)) <= 1 + event[v].attempt_count + dbErrors
                         + crashes + One(At(v, {"rescheduled"})))'
    BY DEF JobsCounted
  <2>1. ~At(v, {"rescheduled"}) /\ ~At(v, {"rescheduled"})'
    BY <1>1, <1>4 DEF At
  <2>2. event'[v] = event[v] /\ event[v].attempt_count \in Nat
    BY <1>1 DEF Types
  <2>3. CASE v = w
    <3>1. Cardinality(JobsOf(v)') = 1
      BY <1>6, <1>7, <2>3
    <3>2. dbErrors' \in Nat /\ crashes' \in Nat
      BY DEF Types
    <3> QED
      BY <2>1, <2>2, <3>1, <3>2 DEF One
  <2>4. CASE v # w
    BY <1>1, <1>6, <2>1, <2>2, <2>4 DEF JobsCounted, One
  <2> QED
    BY <2>3, <2>4
<1>13. LiveBounded'
  <2>1. event[w].attempt_count = 0 /\ ~(0 >= MaxDeliveries)
    BY <1>5, <1>a DEF StemFromDispatch, WebhooksAssumption
  <2> SUFFICES ASSUME NEW v \in Events
               PROVE  /\ (Cardinality(Live(v)) <= dbErrors
                            + One(event[v].status \notin Settled))'
                      /\ (event[v].attempt_count >= MaxDeliveries =>
                            event[v].attempt_count + Cardinality(Live(v))
                              <= MaxDeliveries + dbErrors)'
    BY DEF LiveBounded
  <2>2. event'[v] = event[v] /\ dbErrors' = dbErrors /\ dbErrors \in Nat
    BY <1>1 DEF Types
  <2>3. CASE v = w
    BY <1>5, <1>6, <1>7, <2>1, <2>2, <2>3 DEF One, Settled
  <2>4. CASE v # w
    BY <1>6, <2>2, <2>4 DEF LiveBounded
  <2> QED
    BY <2>3, <2>4
<1>14. PostsCounted'
  BY <1>1 DEF PostsCounted, At, Delivered
<1>15. OpenHasJob'
  <2>1. ASSUME NEW v \in Events, v # w, Unended(v)
        PROVE  Unended(v)'
    <3>1. PICK j \in JobsOf(v) : /\ life[j] \in {"queued", "running", "dead"}
                                 /\ ~(worker.job = j /\ worker.pc \in {"rescheduled", "return"})
      BY <2>1 DEF Unended
    <3>2. j \in Jobs /\ j # new /\ j \in JobsOf(v)'
      BY <1>6, <1>a, <2>1, <3>1 DEF JobsOf
    <3> QED
      BY <1>1, <1>3, <3>1, <3>2 DEF Unended
  <2> QED
    BY <1>1, <1>4, <1>5, <2>1 DEF OpenHasJob, At
<1>16. AnswerIsTrue' /\ LateWasUnderWay' /\ AtMostOneLate' /\ EndIsHonest'
  BY <1>1 DEF AnswerIsTrue, LastAttempt, Delivered, LateWasUnderWay, AtMostOneLate,
              EndIsHonest
<1> QED
  BY <1>8, <1>9, <1>10, <1>11, <1>12, <1>13, <1>14, <1>15, <1>16

(* dispatch ends: its events are committed, or rolled back by an error.    *)
LEMMA EndDispatchStep ==
  ASSUME WebhooksAssumption, IndInv, Types', NEW d \in Dispatches,
         CommitDispatch(d) \/ DispatchDbError(d)
  PROVE  IndInv'
<1> USE DEF IndInv, jobVars, postVars, faultVars
<1>1. /\ UNCHANGED <<endpoint, worker, life, attempts, posts, received, late,
                     skipped, crashes>>
      /\ dispatch[d].pc = "sending"
  BY DEF CommitDispatch, DispatchDbError
<1>2. dispatch' = [dispatch EXCEPT ![d] =
        [pc |-> "done", to |-> dispatch[d].to, left |-> dispatch[d].left]]
  BY Updates DEF CommitDispatch, DispatchDbError
<1>3. /\ dispatch'[d].pc = "done" /\ dispatch'[d].to = dispatch[d].to
      /\ dispatch'[d].left = dispatch[d].left
      /\ \A c \in Dispatches \ {d} : dispatch'[c] = dispatch[c]
  BY <1>2 DEF Types
<1>4. worker.pc = "idle" /\ \A c \in Dispatches : dispatch[c].pc = "sending" => c = d
  BY <1>1 DEF OneHandler
<1>5. \A v \in Events : \A pcs : "idle" \notin pcs => ~At(v, pcs) /\ ~At(v, pcs)'
  BY <1>1, <1>4 DEF At
<1>6. /\ \A v \in Events : JobsOf(v)' = JobsOf(v) /\ Live(v)' = Live(v)
      /\ \A v \in Events : Unended(v) => Unended(v)'
  BY <1>1 DEF JobsOf, Live, Unended
<1>7. dbErrors \in Nat /\ dbErrors' \in Nat /\ dbErrors <= dbErrors'
  <2>1. dbErrors' = dbErrors \/ dbErrors' = dbErrors + 1
    BY DEF CommitDispatch, DispatchDbError
  <2> QED
    BY <2>1 DEF Types
(* An event stays what it was, or is new and has a job.                    *)
<1>8. ASSUME NEW v \in Events
      PROVE  \/ event'[v] = event[v]
             \/ /\ v[1] = d /\ ~Exists(v) /\ event[v].attempt_count = 0
                /\ event'[v].status = "queued" /\ event'[v].attempt_count = 0
                /\ <<v, 1>> \in JobsOf(v) /\ life[<<v, 1>>] = "queued"
  <2>1. CASE CommitDispatch(d) /\ v[1] = d /\ v[2] \in dispatch[d].to
    <3>1. event'[v] = [status |-> "queued", attempt_count |-> 0]
      BY <2>1 DEF CommitDispatch
    <3>2. ~Exists(v) /\ event[v].attempt_count = 0
      BY <1>1, <2>1 DEF StemFromDispatch
    <3>3. life[<<<<d, v[2]>>, 1>>] = "queued"
      BY <1>1, <2>1 DEF SendingQueues, CommitDispatch
    <3>4. <<v, 1>> \in Jobs /\ <<v, 1>>[1] = v
      <4>1. 1 \in 1..MaxDeliveries + MaxFaults
        BY DEF WebhooksAssumption
      <4> QED
        BY <4>1, Pairs
    <3>5. <<v, 1>> = <<<<d, v[2]>>, 1>>
      BY <2>1, Pairs
    <3> QED
      BY <2>1, <3>1, <3>2, <3>3, <3>4, <3>5 DEF JobsOf
  <2>2. CASE ~(CommitDispatch(d) /\ v[1] = d /\ v[2] \in dispatch[d].to)
    BY <2>2 DEF CommitDispatch, DispatchDbError
  <2> QED
    BY <2>1, <2>2
<1>9. \A v \in Events : event'[v].attempt_count = event[v].attempt_count
  BY <1>8
<1>10. OneHandler'
  BY <1>1, <1>3, <1>4 DEF OneHandler
<1>11. StemFromDispatch'
  <2> SUFFICES ASSUME NEW v \in Events
               PROVE  /\ JobsOf(v)' # {} =>
                           /\ dispatch'[v[1]].pc # "new"
                           /\ v[2] \in dispatch'[v[1]].to \ dispatch'[v[1]].left
                      /\ Exists(v)' => JobsOf(v)' # {} /\ dispatch'[v[1]].pc = "done"
                      /\ v \in skipped' => dispatch'[v[1]].pc = "done" /\ ~Exists(v)'
                      /\ ~Exists(v)' => event'[v].attempt_count = 0
    BY <1>5 DEF StemFromDispatch, Open
  <2>1. v[1] = d => v \notin skipped
    BY <1>1 DEF StemFromDispatch
  <2>2. v[1] # d => dispatch'[v[1]] = dispatch[v[1]]
    BY <1>3, Pairs
  <2>3. Exists(v)' => Exists(v) \/ (v[1] = d /\ JobsOf(v) # {})
    BY <1>8 DEF Exists
  <2>4. v[1] # d => (Exists(v)' <=> Exists(v))
    BY <1>8 DEF Exists
  <2>5. ~Exists(v)' => ~Exists(v)
    BY <1>8 DEF Exists
  <2> QED
    BY <1>1, <1>3, <1>6, <1>9, <2>1, <2>2, <2>3, <2>4, <2>5 DEF StemFromDispatch
<1>12. SendingQueues'
  BY <1>1, <1>3, <1>4 DEF SendingQueues
<1>13. Registered'
  BY <1>1, <1>3 DEF Registered
<1>14. JobsCounted' /\ PostsCounted'
  <2> SUFFICES ASSUME NEW v \in Events
               PROVE  /\ (Cardinality(JobsOf(v)) <= 1 + event[v].attempt_count
                            + dbErrors + crashes + One(At(v, {"rescheduled"})))'
                      /\ (posts[v] <= event[v].attempt_count + dbErrors + crashes
                            + One(At(v, Uncounted)))'
    BY DEF JobsCounted, PostsCounted
  <2>1. /\ ~At(v, {"rescheduled"}) /\ ~At(v, {"rescheduled"})'
        /\ ~At(v, Uncounted) /\ ~At(v, Uncounted)'
    BY <1>5 DEF Uncounted
  <2>2. /\ event[v].attempt_count \in Nat /\ crashes \in Nat /\ posts[v] \in Nat
        /\ Cardinality(JobsOf(v)) \in Nat
    BY CountJobs DEF Types, JobsOf
  <2>3. /\ Cardinality(JobsOf(v)) <= 1 + event[v].attempt_count + dbErrors + crashes
        /\ posts[v] <= event[v].attempt_count + dbErrors + crashes
    BY <1>7, <2>1, <2>2 DEF JobsCounted, PostsCounted, One
  <2> QED
    BY <1>1, <1>6, <1>7, <1>9, <2>1, <2>2, <2>3 DEF One
<1>15. LiveBounded'
  <2> SUFFICES ASSUME NEW v \in Events
               PROVE  /\ (Cardinality(Live(v)) <= dbErrors
                            + One(event[v].status \notin Settled))'
                      /\ (event[v].attempt_count >= MaxDeliveries =>
                            event[v].attempt_count + Cardinality(Live(v))
                              <= MaxDeliveries + dbErrors)'
    BY DEF LiveBounded
  <2>1. event'[v].status \in Settled => event[v].status \in Settled
    BY <1>8 DEF Settled
  <2>2. /\ event[v].attempt_count \in Nat /\ MaxDeliveries \in Nat
        /\ Cardinality(Live(v)) \in Nat
    BY CountJobs DEF Types, Live, JobsOf, WebhooksAssumption
  <2> QED
    BY <1>6, <1>7, <1>9, <2>1, <2>2 DEF LiveBounded, One
<1>16. OpenHasJob'
  <2> SUFFICES ASSUME NEW v \in Events, event'[v].status \in {"queued", "failed"}
               PROVE  Unended(v)'
    BY <1>5 DEF OpenHasJob
  <2>1. CASE event'[v] = event[v]
    BY <1>6, <2>1 DEF OpenHasJob
  <2>2. CASE <<v, 1>> \in JobsOf(v) /\ life[<<v, 1>>] = "queued"
    BY <1>1, <1>4, <1>6, <2>2 DEF Unended
  <2> QED
    BY <1>8, <2>1, <2>2
<1>17. AnswerIsTrue' /\ LateWasUnderWay' /\ AtMostOneLate'
  BY <1>1, <1>4 DEF AnswerIsTrue, LateWasUnderWay, AtMostOneLate, Delivered
<1>18. EndIsHonest'
  BY <1>1, <1>8 DEF EndIsHonest
<1> QED
  BY <1>10, <1>11, <1>12, <1>13, <1>14, <1>15, <1>16, <1>17, <1>18

(* A delivery starts, or ends at once without its event.                   *)
LEMMA StartDeliveryStep ==
  ASSUME WebhooksAssumption, IndInv, Types', NEW j \in Jobs, StartDelivery(j)
  PROVE  IndInv'
<1> USE DEF IndInv, jobVars, postVars, faultVars
<1>1. /\ UNCHANGED <<endpoint, event, dispatch, attempts, posts, received, late,
                     dbErrors, crashes>>
      /\ worker.pc = "idle" /\ \A d \in Dispatches : dispatch[d].pc # "sending"
      /\ life[j] = "queued" /\ life' = [life EXCEPT ![j] = "running"]
      /\ worker'.pc = IF Exists(j[1]) THEN "found" ELSE "return"
      /\ worker'.job = j
  BY DEF StartDelivery, WorkerFree, Queue!Begin
<1>2. /\ life'[j] = "running" /\ \A k \in Jobs \ {j} : life'[k] = life[k]
      /\ j[1] \in Events
  BY <1>1, Pairs DEF Types
<1>3. \A v \in Events : JobsOf(v)' = JobsOf(v)
  BY <1>1, <1>2 DEF JobsOf
<1>4. j \in JobsOf(j[1]) /\ dispatch[j[1][1]].pc = "done"
  <2>1. j \in JobsOf(j[1])
    BY <1>1, <1>2 DEF JobsOf
  <2>2. dispatch[j[1][1]].pc \in {"new", "sending", "done"}
    BY <1>2, Pairs DEF Types
  <2> QED
    BY <1>1, <1>2, <2>1, <2>2, Pairs DEF StemFromDispatch
<1>5. \A v \in Events : /\ ~At(v, {"rescheduled"}) /\ ~At(v, {"rescheduled"})'
                        /\ ~At(v, Uncounted) /\ ~At(v, Uncounted)'
                        /\ At(v, Open \cup {"rescheduled"})' => Exists(v)
  BY <1>1 DEF At, Uncounted, Delivered, Open
<1>6. OneHandler'
  BY <1>1, <1>2 DEF OneHandler
<1>7. StemFromDispatch'
  <2>1. \A v \in skipped' : v \in skipped \/ (v = j[1] /\ ~Exists(j[1]))
    BY <1>2 DEF StartDelivery
  <2>2. \A v \in Events : Exists(v)' <=> Exists(v)
    BY <1>1 DEF Exists
  <2> QED
    BY <1>1, <1>3, <1>4, <1>5, <2>1, <2>2 DEF StemFromDispatch
<1>8. SendingQueues' /\ Registered'
  BY <1>1 DEF SendingQueues, Registered
<1>9. JobsCounted' /\ PostsCounted'
  BY <1>1, <1>3, <1>5 DEF JobsCounted, PostsCounted, One
<1>10. LiveBounded'
  <2> SUFFICES ASSUME NEW v \in Events
               PROVE  Cardinality(Live(v)') <= Cardinality(Live(v))
                        /\ Cardinality(Live(v)) \in Nat /\ Cardinality(Live(v)') \in Nat
    BY <1>1 DEF LiveBounded, Types, One, WebhooksAssumption
  <2>1. Live(v)' \subseteq Live(v)
    BY <1>1, <1>2 DEF Live, JobsOf
  <2> QED
    BY <2>1, CountJobs DEF Live, JobsOf
<1>11. OpenHasJob'
  <2> SUFFICES ASSUME NEW v \in Events, Unended(v), Exists(v)
               PROVE  Unended(v)'
    BY <1>1, <1>5 DEF OpenHasJob, Exists
  <2>1. PICK k \in JobsOf(v) : life[k] \in {"queued", "running", "dead"}
    BY DEF Unended
  <2>2. k \in Jobs /\ k[1] = v /\ k \in JobsOf(v)'
    BY <1>3, <2>1 DEF JobsOf
  <2>3. life'[k] \in {"queued", "running", "dead"}
    BY <1>2, <2>1, <2>2
  <2>4. ~(worker'.job = k /\ worker'.pc \in {"rescheduled", "return"})
    BY <1>1, <2>2
  <2> QED
    BY <2>2, <2>3, <2>4 DEF Unended
<1>12. AnswerIsTrue' /\ LateWasUnderWay'
  BY <1>1 DEF AnswerIsTrue, LateWasUnderWay
<1>13. AtMostOneLate' /\ EndIsHonest'
  BY <1>1 DEF AtMostOneLate, EndIsHonest
<1> QED
  BY <1>6, <1>7, <1>8, <1>9, <1>10, <1>11, <1>12, <1>13

(* A handler goes on within its attempt: the event, jobs and faults stay.  *)
(* It may leave the attempt for the return.                                *)
LEMMA HandlerMove ==
  ASSUME WebhooksAssumption, IndInv, Types',
         UNCHANGED <<endpoint, dispatch, life, attempts, skipped, dbErrors, crashes>>,
         worker.pc \in Open \cup {"rescheduled"}, worker'.job = worker.job,
         worker'.pc \in Open \cup {"return"},
         worker'.pc \in Open => worker.pc \in Open,
         event'[Delivered].status # "none",
         \A v \in Events \ {Delivered} : event'[v] = event[v]
  PROVE  /\ OneHandler' /\ StemFromDispatch' /\ SendingQueues' /\ Registered'
         /\ \A v \in Events : Live(v)' \subseteq Live(v)
         /\ \A v \in Events :
              worker.pc \in Open /\ v = Delivered =>
                /\ worker.job \in Live(v)
                /\ worker'.pc = "return" => Live(v)' = Live(v) \ {worker.job}
         /\ \A v \in Events : v # Delivered /\ Unended(v) => Unended(v)'
         /\ \A v \in Events :
              event[v].status \in {"queued", "failed"} /\ v # Delivered => Unended(v)'
<1> USE DEF IndInv
<1>1. /\ worker.job \in Jobs /\ worker.job[1] \in Events /\ Delivered' = Delivered
      /\ Delivered \in Events /\ worker.job[1] = Delivered
  BY Pairs DEF Types, Delivered
<1>2. life[worker.job] = "running" /\ worker.pc \notin {"idle", "ended"}
  BY DEF OneHandler, Open
<1>3. \A v \in Events : JobsOf(v)' = JobsOf(v)
  BY DEF JobsOf
<1>4. worker.job \in JobsOf(Delivered)
  BY <1>1, <1>2 DEF JobsOf
<1>5. OneHandler'
  BY <1>2 DEF OneHandler
<1>6. StemFromDispatch'
  <2>1. Exists(Delivered)
    BY <1>1 DEF StemFromDispatch, At
  <2>2. \A v \in Events : Exists(v)' <=> Exists(v)
    BY <2>1 DEF Exists
  <2>3. \A v \in Events : At(v, Open \cup {"rescheduled"})' => v = Delivered
    BY <1>1 DEF At
  <2> QED
    BY <1>1, <1>3, <2>1, <2>2, <2>3, ZenonT(60) DEF StemFromDispatch
<1>7. SendingQueues' /\ Registered'
  BY DEF SendingQueues, Registered
<1>8. \A v \in Events : Live(v)' \subseteq Live(v)
  BY <1>3 DEF Live
<1>9. \A v \in Events : worker.pc \in Open /\ v = Delivered => worker.job \in Live(v)
  BY <1>4 DEF Live
<1>10. ASSUME NEW v \in Events, v = Delivered, worker'.pc = "return", worker.pc \in Open
       PROVE  Live(v)' = Live(v) \ {worker.job}
  <2>1. "return" \notin Open
    BY DEF Open
  <2> QED
    BY <1>2, <1>3, <1>10, <2>1 DEF Live
<1>11. \A v \in Events : v # Delivered /\ Unended(v) => Unended(v)'
  <2> SUFFICES ASSUME NEW v \in Events, v # Delivered, Unended(v)
               PROVE  Unended(v)'
    OBVIOUS
  <2>1. PICK k \in JobsOf(v) : life[k] \in {"queued", "running", "dead"}
    BY DEF Unended
  <2>2. k # worker.job /\ k \in JobsOf(v)'
    BY <1>1, <1>3, <2>1 DEF JobsOf
  <2> QED
    BY <2>1, <2>2 DEF Unended
<1> QED
  BY <1>5, <1>6, <1>7, <1>8, <1>9, <1>10, <1>11 DEF OpenHasJob

(* The parts that bound numbers, of one event.                             *)
LEMMA Numbers ==
  ASSUME WebhooksAssumption, IndInv, NEW v \in Events
  PROVE  /\ event[v].attempt_count \in Nat /\ posts[v] \in Nat
         /\ dbErrors \in Nat /\ crashes \in Nat
         /\ MaxDeliveries \in Nat /\ MaxFaults \in Nat
         /\ Cardinality(Live(v)) \in Nat /\ Cardinality(JobsOf(v)) \in Nat
         /\ Live(v) \in SUBSET Jobs /\ JobsOf(v) \in SUBSET Jobs
         /\ Cardinality(JobsOf(v)) <= 1 + event[v].attempt_count + dbErrors + crashes
                                        + One(At(v, {"rescheduled"}))
         /\ Cardinality(Live(v)) <= dbErrors + One(event[v].status \notin Settled)
         /\ event[v].attempt_count >= MaxDeliveries =>
              event[v].attempt_count + Cardinality(Live(v)) <= MaxDeliveries + dbErrors
         /\ posts[v] <= event[v].attempt_count + dbErrors + crashes
                          + One(At(v, Uncounted))
<1>1. Live(v) \in SUBSET Jobs /\ JobsOf(v) \in SUBSET Jobs
  BY DEF Live, JobsOf
<1> QED
  BY <1>1, CountJobs
     DEF IndInv, Types, WebhooksAssumption, JobsCounted, LiveBounded, PostsCounted

(* deliver finds the endpoint active, or gives the event up.               *)
LEMMA CheckEndpointStep ==
  ASSUME WebhooksAssumption, IndInv, Types', CheckEndpoint
  PROVE  IndInv'
<1> USE DEF IndInv, jobVars, postVars, faultVars
<1>1. /\ UNCHANGED <<endpoint, dispatch, life, attempts, posts, received, late,
                     skipped, dbErrors, crashes>>
      /\ worker.pc = "found" /\ worker'.job = worker.job
      /\ worker'.pc = IF endpoint[Delivered[2]] = "active" THEN "posting" ELSE "return"
  BY DEF CheckEndpoint, Goto, MayPost, Types
<1>2. /\ Delivered \in Events /\ Delivered[2] \in Endpoints
      /\ worker.job[1] = Delivered /\ Delivered' = Delivered
  BY <1>1, Pairs DEF Types, Delivered
<1>3. /\ endpoint[Delivered[2]] = "active" => event' = event
      /\ endpoint[Delivered[2]] # "active" =>
           event' = [event EXCEPT ![Delivered] =
             [status |-> "dead", attempt_count |-> event[Delivered].attempt_count]]
  BY <1>2, Updates DEF CheckEndpoint, MayPost
<1>4. /\ \A v \in Events : event'[v].attempt_count = event[v].attempt_count
      /\ \A v \in Events \ {Delivered} : event'[v] = event[v]
      /\ endpoint[Delivered[2]] # "active" => event'[Delivered].status = "dead"
  <2>1. event = [v \in Events |-> event[v]]
    BY DEF Types
  <2>2. CASE endpoint[Delivered[2]] = "active"
    BY <1>3, <2>2
  <2>3. CASE endpoint[Delivered[2]] # "active"
    <3>1. event'[Delivered] = [status |-> "dead",
                               attempt_count |-> event[Delivered].attempt_count]
      BY <1>2, <1>3, <2>1, <2>3
    <3>2. \A v \in Events \ {Delivered} : event'[v] = event[v]
      BY <1>3, <2>1, <2>3
    <3> QED
      BY <3>1, <3>2, <2>3
  <2> QED
    BY <2>2, <2>3
<1>5. Exists(Delivered) /\ event'[Delivered].status # "none"
  BY <1>1, <1>2, <1>3, <1>4 DEF StemFromDispatch, At, Open, Exists
<1>6. /\ OneHandler' /\ StemFromDispatch' /\ SendingQueues' /\ Registered'
      /\ \A v \in Events : Live(v)' \subseteq Live(v)
      /\ \A v \in Events : v = Delivered =>
           /\ worker.job \in Live(v)
           /\ worker'.pc = "return" => Live(v)' = Live(v) \ {worker.job}
      /\ \A v \in Events :
           event[v].status \in {"queued", "failed"} /\ v # Delivered => Unended(v)'
  BY <1>1, <1>2, <1>4, <1>5, HandlerMove DEF Open
<1>7. \A v \in Events : /\ ~At(v, {"rescheduled"}) /\ ~At(v, {"rescheduled"})'
                        /\ ~At(v, Uncounted) /\ ~At(v, Uncounted)'
  BY <1>1 DEF At, Uncounted
<1>8. JobsCounted' /\ PostsCounted'
  BY <1>1, <1>4, <1>7 DEF JobsCounted, PostsCounted, JobsOf, One
<1>9. LiveBounded'
  <2> SUFFICES ASSUME NEW v \in Events
               PROVE  /\ (Cardinality(Live(v)) <= dbErrors
                            + One(event[v].status \notin Settled))'
                      /\ (event[v].attempt_count >= MaxDeliveries =>
                            event[v].attempt_count + Cardinality(Live(v))
                              <= MaxDeliveries + dbErrors)'
    BY DEF LiveBounded
  <2>1. /\ Cardinality(Live(v)') \in Nat
        /\ Cardinality(Live(v)') <= Cardinality(Live(v))
    BY <1>6, Numbers, CountJobs
  <2>2. CASE event'[v] = event[v]
    BY <1>1, <2>1, <2>2, Numbers DEF One
  <2>3. CASE event'[v] # event[v]
    <3>1. v = Delivered /\ endpoint[Delivered[2]] # "active"
      BY <1>3, <1>4, <2>3
    <3>2. /\ Live(v)' \in SUBSET Jobs /\ Live(v) \in SUBSET Jobs
          /\ worker.job \in Live(v) /\ Live(v)' \subseteq Live(v) \ {worker.job}
      <4>1. Live(v)' = Live(v) \ {worker.job} /\ worker.job \in Live(v)
        BY <1>1, <1>6, <3>1
      <4> QED
        BY <4>1 DEF Live, JobsOf
    <3>3. Cardinality(Live(v)') <= Cardinality(Live(v)) - 1
      BY <3>2, CountJobs
    <3> QED
      BY <1>1, <1>4, <2>1, <3>1, <3>3, Numbers DEF One, Settled
  <2> QED
    BY <2>2, <2>3
<1>10. OpenHasJob'
  <2> SUFFICES ASSUME NEW v \in Events, event'[v].status \in {"queued", "failed"}
               PROVE  Unended(v)'
    BY <1>7 DEF OpenHasJob
  <2>1. CASE v # Delivered
    BY <1>4, <1>6, <2>1
  <2>2. CASE v = Delivered
    <3>1. endpoint[Delivered[2]] = "active" /\ event'[v] = event[v]
      BY <1>3, <1>4, <2>2
    <3> QED
      BY <1>1, <2>2, <3>1 DEF OpenHasJob, Unended, JobsOf
  <2> QED
    BY <2>1, <2>2
<1>11. AnswerIsTrue'
  BY <1>1 DEF AnswerIsTrue
<1>12. LateWasUnderWay' /\ AtMostOneLate'
  BY <1>1, <1>2 DEF LateWasUnderWay, AtMostOneLate
<1>13. EndIsHonest'
  <2>1. endpoint[Delivered[2]] # "active" => endpoint[Delivered[2]] = "inactive"
    <3>1. Delivered[2] \in dispatch[Delivered[1]].to
      BY <1>2, <1>5 DEF StemFromDispatch
    <3> QED
      BY <1>2, <3>1, Pairs DEF Registered, Types
  <2> QED
    BY <1>1, <1>2, <1>3, <1>4, <2>1 DEF EndIsHonest
<1> QED
  BY <1>6, <1>8, <1>9, <1>10, <1>11, <1>12, <1>13

(* The event is posted.                                                    *)
LEMMA PostStep ==
  ASSUME WebhooksAssumption, IndInv, Types', Post
  PROVE  IndInv'
<1> USE DEF IndInv, jobVars, postVars, faultVars
<1>1. /\ UNCHANGED <<endpoint, event, dispatch, life, attempts, skipped,
                     dbErrors, crashes>>
      /\ worker.pc = "posting"
      /\ posts' = [posts EXCEPT ![Delivered] = @ + 1]
      /\ late' = [late EXCEPT ![Delivered[2]] =
                    IF endpoint[Delivered[2]] = "inactive" THEN @ + 1 ELSE @]
  BY DEF Post
<1>2. PICK arrives, succeeds \in BOOLEAN :
        /\ received' = received \cup {v \in {Delivered} : arrives}
        /\ Goto(Outcome(arrives, succeeds))
  BY DEF Post
<1>3. /\ worker'.job = worker.job
      /\ \/ worker'.pc = "succeeded" /\ arrives
         \/ worker'.pc = "exhausted" /\ LastAttempt(Delivered)
         \/ worker'.pc = "retrying" /\ ~LastAttempt(Delivered)
  BY <1>2 DEF Goto, Outcome, Types
<1>4. /\ Delivered \in Events /\ Delivered[2] \in Endpoints
      /\ worker.job[1] = Delivered /\ Delivered' = Delivered
  BY <1>1, <1>3, Pairs DEF Types, Delivered
<1>5. Exists(Delivered)
  BY <1>1, <1>4 DEF StemFromDispatch, At, Open
<1>6. /\ OneHandler' /\ StemFromDispatch' /\ SendingQueues' /\ Registered'
      /\ \A v \in Events : Live(v)' \subseteq Live(v)
  BY <1>1, <1>3, <1>5, HandlerMove DEF Open, Exists
<1>7. \A v \in Events : ~At(v, {"rescheduled"}) /\ ~At(v, {"rescheduled"})'
  BY <1>1, <1>3 DEF At
<1>8. JobsCounted'
  BY <1>1, <1>7 DEF JobsCounted, JobsOf, One
<1>9. LiveBounded'
  <2> SUFFICES ASSUME NEW v \in Events
               PROVE  /\ (Cardinality(Live(v)) <= dbErrors
                            + One(event[v].status \notin Settled))'
                      /\ (event[v].attempt_count >= MaxDeliveries =>
                            event[v].attempt_count + Cardinality(Live(v))
                              <= MaxDeliveries + dbErrors)'
    BY DEF LiveBounded
  <2>1. /\ Cardinality(Live(v)') \in Nat
        /\ Cardinality(Live(v)') <= Cardinality(Live(v))
    BY <1>6, Numbers, CountJobs
  <2> QED
    BY <1>1, <2>1, Numbers DEF One
<1>10. PostsCounted'
  <2> SUFFICES ASSUME NEW v \in Events
               PROVE  (posts[v] <= event[v].attempt_count + dbErrors + crashes
                         + One(At(v, Uncounted)))'
    BY DEF PostsCounted
  <2>1. ~At(v, Uncounted) /\ (v = Delivered => At(v, Uncounted)')
    BY <1>1, <1>3, <1>4 DEF At, Uncounted
  <2>2. posts'[v] = IF v = Delivered THEN posts[v] + 1 ELSE posts[v]
    BY <1>1, <1>4 DEF Types
  <2> QED
    BY <1>1, <2>1, <2>2, Numbers DEF One
<1>11. OpenHasJob'
  <2>1. \A v \in Events : Unended(v) => Unended(v)'
    BY <1>1, <1>3 DEF Unended, JobsOf
  <2> QED
    BY <1>1, <1>7, <2>1 DEF OpenHasJob
<1>12. AnswerIsTrue'
  <2>1. worker'.pc = "succeeded" => Delivered \in received'
    BY <1>2, <1>3
  <2>2. LastAttempt(Delivered)' <=> LastAttempt(Delivered)
    BY <1>1, <1>4 DEF LastAttempt
  <2> QED
    BY <1>3, <1>4, <2>1, <2>2 DEF AnswerIsTrue
<1>13. LateWasUnderWay' /\ AtMostOneLate'
  <2>1. \A e \in Endpoints :
          late'[e] = IF e = Delivered[2] /\ endpoint[e] = "inactive"
                     THEN late[e] + 1 ELSE late[e]
    BY <1>1, <1>4 DEF Types
  <2>2. late[Delivered[2]] = 0
    BY <1>1, <1>4 DEF LateWasUnderWay
  <2> QED
    BY <1>1, <1>3, <2>1, <2>2 DEF LateWasUnderWay, AtMostOneLate
<1>14. EndIsHonest'
  BY <1>1, <1>2 DEF EndIsHonest
<1> QED
  BY <1>6, <1>8, <1>9, <1>10, <1>11, <1>12, <1>13, <1>14

(* The attempt is counted with the commit of its outcome.                  *)
LEMMA CommitStep ==
  ASSUME WebhooksAssumption, IndInv, Types',
         CommitDelivered \/ CommitDead \/ CommitFailed
  PROVE  IndInv'
<1> USE DEF IndInv, jobVars, postVars, faultVars
<1>1. /\ UNCHANGED <<endpoint, dispatch, life, attempts, posts, received, late,
                     skipped, dbErrors, crashes>>
      /\ worker.pc \in {"succeeded", "exhausted", "rescheduled"}
      /\ worker'.pc = "return" /\ worker'.job = worker.job
  BY DEF CommitDelivered, CommitDead, CommitFailed, Goto, AfterEnd, Types
<1>2. /\ Delivered \in Events /\ Delivered[2] \in Endpoints
      /\ worker.job[1] = Delivered /\ Delivered' = Delivered
  BY <1>1, Pairs DEF Types, Delivered
<1>3. /\ event'[Delivered].attempt_count = event[Delivered].attempt_count + 1
      /\ event'[Delivered].status = CASE worker.pc = "succeeded" -> "delivered"
                                      [] worker.pc = "exhausted" -> "dead"
                                      [] worker.pc = "rescheduled" -> "failed"
      /\ \A v \in Events \ {Delivered} : event'[v] = event[v]
  BY <1>1, <1>2 DEF CommitDelivered, CommitDead, CommitFailed, Settle, Types
<1>4. event'[Delivered].status \in {"delivered", "dead", "failed"}
  BY <1>1, <1>3
<1>5. /\ OneHandler' /\ StemFromDispatch' /\ SendingQueues' /\ Registered'
      /\ \A v \in Events : Live(v)' \subseteq Live(v)
      /\ \A v \in Events : worker.pc # "rescheduled" /\ v = Delivered =>
           worker.job \in Live(v) /\ Live(v)' = Live(v) \ {worker.job}
      /\ \A v \in Events :
           event[v].status \in {"queued", "failed"} /\ v # Delivered => Unended(v)'
  BY <1>1, <1>3, <1>4, HandlerMove DEF Open
<1>6. \A v \in Events : /\ ~At(v, {"rescheduled"})' /\ ~At(v, Uncounted)'
                        /\ v # Delivered => ~At(v, {"rescheduled"}) /\ ~At(v, Uncounted)
  BY <1>1, <1>2 DEF At, Uncounted
<1>7. JobsCounted' /\ PostsCounted'
  <2> SUFFICES ASSUME NEW v \in Events
               PROVE  /\ (Cardinality(JobsOf(v)) <= 1 + event[v].attempt_count
                            + dbErrors + crashes + One(At(v, {"rescheduled"})))'
                      /\ (posts[v] <= event[v].attempt_count + dbErrors + crashes
                            + One(At(v, Uncounted)))'
    BY DEF JobsCounted, PostsCounted
  <2>1. JobsOf(v)' = JobsOf(v)
    BY <1>1 DEF JobsOf
  <2>2. CASE v = Delivered
    BY <1>1, <1>3, <1>6, <2>1, <2>2, Numbers DEF One
  <2>3. CASE v # Delivered
    BY <1>1, <1>3, <1>6, <2>1, <2>3, Numbers DEF One
  <2> QED
    BY <2>2, <2>3
<1>8. LiveBounded'
  <2> SUFFICES ASSUME NEW v \in Events
               PROVE  /\ (Cardinality(Live(v)) <= dbErrors
                            + One(event[v].status \notin Settled))'
                      /\ (event[v].attempt_count >= MaxDeliveries =>
                            event[v].attempt_count + Cardinality(Live(v))
                              <= MaxDeliveries + dbErrors)'
    BY DEF LiveBounded
  <2>1. /\ Live(v) \in SUBSET Jobs /\ Live(v)' \in SUBSET Jobs
        /\ Cardinality(Live(v)') \in Nat
        /\ Cardinality(Live(v)') <= Cardinality(Live(v))
    BY <1>5, Numbers, CountJobs
  <2>2. CASE v # Delivered
    BY <1>1, <1>3, <2>1, <2>2, Numbers DEF One
  <2>3. CASE v = Delivered /\ worker.pc # "rescheduled"
    <3>1. Cardinality(Live(v)') <= Cardinality(Live(v)) - 1
      BY <1>5, <2>1, <2>3, CountJobs
    <3>2. event'[v].status \in Settled
      BY <1>1, <1>3, <2>3 DEF Settled
    <3>3. Cardinality(Live(v)) <= dbErrors + 1
      BY Numbers DEF One
    <3> QED
      BY <1>1, <1>3, <2>1, <2>3, <3>1, <3>2, <3>3, Numbers DEF One
  <2>4. CASE v = Delivered /\ worker.pc = "rescheduled"
    <3>1. event[v].attempt_count + 1 < MaxDeliveries
      BY <2>4, Numbers DEF AnswerIsTrue, LastAttempt
    <3>2. event'[v].status \notin Settled
      BY <1>3, <2>4 DEF Settled
    <3> QED
      BY <1>1, <1>3, <2>1, <2>4, <3>1, <3>2, Numbers DEF One
  <2> QED
    BY <2>2, <2>3, <2>4
<1>9. OpenHasJob'
  <2> SUFFICES ASSUME NEW v \in Events, event'[v].status \in {"queued", "failed"}
               PROVE  Unended(v)'
    BY <1>6 DEF OpenHasJob
  <2>1. CASE v # Delivered
    BY <1>3, <1>5, <2>1
  <2>2. CASE v = Delivered
    <3>1. worker.pc = "rescheduled" /\ At(v, {"rescheduled"})
      BY <1>1, <1>3, <2>2 DEF At
    <3>2. life[worker.job] = "running"
      BY <3>1 DEF OneHandler
    <3> QED
      BY <1>1, <3>1, <3>2 DEF OpenHasJob, Unended, JobsOf
  <2> QED
    BY <2>1, <2>2
<1>10. AnswerIsTrue' /\ LateWasUnderWay' /\ AtMostOneLate'
  BY <1>1 DEF AnswerIsTrue, LateWasUnderWay, AtMostOneLate
<1>11. EndIsHonest'
  <2>1. worker.pc = "exhausted" => event'[Delivered].attempt_count >= MaxDeliveries
    BY <1>2, <1>3, Numbers DEF AnswerIsTrue, LastAttempt
  <2>2. worker.pc = "succeeded" => Delivered \in received
    BY DEF AnswerIsTrue
  <2> QED
    BY <1>1, <1>2, <1>3, <2>1, <2>2 DEF EndIsHonest
<1> QED
  BY <1>5, <1>7, <1>8, <1>9, <1>10, <1>11

(* The job of the next attempt is committed.                               *)
LEMMA EnqueueRetryStep ==
  ASSUME WebhooksAssumption, IndInv, Types', EnqueueRetry
  PROVE  IndInv'
<1> DEFINE new == <<Delivered, Cardinality(JobsOf(Delivered)) + 1>>
<1> USE DEF IndInv, jobVars, postVars, faultVars
<1>1. /\ UNCHANGED <<endpoint, event, dispatch, attempts, posts, received, late,
                     skipped, dbErrors, crashes>>
      /\ worker.pc = "retrying"
      /\ worker'.pc = "rescheduled" /\ worker'.job = worker.job
      /\ life[new] = "absent" /\ life' = [life EXCEPT ![new] = "queued"]
  BY DEF EnqueueRetry, NextJob, Queue!Create, Goto, Types
<1>2. /\ Delivered \in Events /\ worker.job \in Jobs
      /\ worker.job[1] = Delivered /\ Delivered' = Delivered
  BY <1>1, Pairs DEF Types, Delivered
<1>3. new \in Jobs /\ new[1] = Delivered
  <2>1. ~At(Delivered, {"rescheduled"})
    BY <1>1 DEF At
  <2>2. event[Delivered].attempt_count + 1 < MaxDeliveries
    BY <1>1, <1>2, Numbers DEF AnswerIsTrue, LastAttempt
  <2>3. dbErrors + crashes <= MaxFaults
    BY DEF Types
  <2>4. Cardinality(JobsOf(Delivered)) + 1 \in 1..MaxDeliveries + MaxFaults
    BY <1>2, <2>1, <2>2, <2>3, Numbers DEF One
  <2> QED
    BY <1>2, <2>4, Pairs
<1>4. life[worker.job] = "running" /\ worker.job # new
      /\ \A d \in Dispatches : dispatch[d].pc # "sending"
  BY <1>1 DEF OneHandler
<1>5. life'[new] = "queued" /\ \A j \in Jobs \ {new} : life'[j] = life[j]
  BY <1>1, <1>3 DEF Types
<1>6. /\ \A v \in Events : v = Delivered => /\ JobsOf(v)' = JobsOf(v) \cup {new}
                                            /\ worker.job \in Live(v)
                                            /\ Live(v)' = (Live(v) \ {worker.job}) \cup {new}
      /\ \A v \in Events \ {Delivered} : JobsOf(v)' = JobsOf(v) /\ Live(v)' = Live(v)
  <2>1. ASSUME NEW v \in Events
        PROVE  JobsOf(v)' = IF v = Delivered THEN JobsOf(v) \cup {new} ELSE JobsOf(v)
    BY <1>1, <1>3, <1>5 DEF JobsOf
  <2>2. "retrying" \in Open /\ "rescheduled" \notin Open
    BY DEF Open
  <2>3. ASSUME NEW v \in Events, v = Delivered
        PROVE  /\ worker.job \in Live(v)
               /\ Live(v)' = (Live(v) \ {worker.job}) \cup {new}
    <3>1. worker.job \in JobsOf(v)
      BY <1>2, <1>4, <2>3 DEF JobsOf
    <3>2. JobsOf(v) \subseteq Jobs /\ new \notin JobsOf(v)
      BY <1>1 DEF JobsOf
    <3>3. \A j \in JobsOf(v) \cup {new} :
            (life'[j] = "queued" \/ (worker'.job = j /\ worker'.pc \in Open))
              <=> j \in (Live(v) \ {worker.job}) \cup {new}
      BY <1>1, <1>4, <1>5, <2>2, <3>2 DEF Live
    <3>4. Live(v) \subseteq JobsOf(v)
      BY DEF Live
    <3> QED
      BY <1>1, <2>1, <2>2, <2>3, <3>1, <3>3, <3>4 DEF Live
  <2>4. ASSUME NEW v \in Events, v # Delivered
        PROVE  Live(v)' = Live(v)
    BY <1>1, <1>2, <1>3, <1>5, <2>1, <2>4 DEF Live, JobsOf
  <2> QED
    BY <2>1, <2>3, <2>4
<1>7. OneHandler'
  BY <1>1, <1>2, <1>4, <1>5 DEF OneHandler
<1>8. StemFromDispatch'
  <2>1. \A v \in Events : Exists(v)' <=> Exists(v)
    BY <1>1 DEF Exists
  <2>2. Exists(Delivered)
    BY <1>1, <1>2 DEF StemFromDispatch, At, Open
  <2>3. \A v \in Events : At(v, Open \cup {"rescheduled"})' => v = Delivered
    BY <1>1, <1>2 DEF At
  <2>4. \A v \in Events : JobsOf(v)' # {} <=> JobsOf(v) # {}
    BY <1>2, <1>6, <2>2 DEF StemFromDispatch
  <2> QED
    BY <1>1, <2>1, <2>2, <2>3, <2>4 DEF StemFromDispatch
<1>9. SendingQueues' /\ Registered'
  BY <1>1, <1>4 DEF SendingQueues, Registered
<1>10. JobsCounted'
  <2> SUFFICES ASSUME NEW v \in Events
               PROVE  (Cardinality(JobsOf(v)) <= 1 + event[v].attempt_count + dbErrors
                         + crashes + One(At(v, {"rescheduled"})))'
    BY DEF JobsCounted
  <2>1. ~At(v, {"rescheduled"}) /\ (v = Delivered => At(v, {"rescheduled"})')
    BY <1>1, <1>2 DEF At
  <2>2. CASE v = Delivered
    <3>1. JobsOf(v)' = JobsOf(v) \cup {new} /\ JobsOf(v)' \in SUBSET Jobs
      BY <1>6, <2>2 DEF JobsOf
    <3>2. /\ Cardinality(JobsOf(v)') \in Nat
          /\ Cardinality(JobsOf(v)') <= Cardinality(JobsOf(v)) + 1
      BY <1>3, <3>1, Numbers, CountJobs
    <3> QED
      BY <1>1, <2>1, <2>2, <3>2, Numbers DEF One
  <2>3. CASE v # Delivered
    <3>1. JobsOf(v)' = JobsOf(v) /\ ~At(v, {"rescheduled"})'
      BY <1>1, <1>2, <1>6, <2>3 DEF At
    <3> QED
      BY <1>1, <2>1, <3>1, Numbers DEF One
  <2> QED
    BY <2>2, <2>3
<1>11. LiveBounded'
  <2> SUFFICES ASSUME NEW v \in Events
               PROVE  Cardinality(Live(v)') \in Nat
                        /\ Cardinality(Live(v)') <= Cardinality(Live(v))
    BY <1>1, Numbers DEF LiveBounded, One
  <2>1. CASE v = Delivered
    <3> DEFINE rest == Live(v) \ {worker.job}
    <3>1. /\ worker.job \in Live(v) /\ Live(v)' = rest \cup {new}
          /\ rest \in SUBSET Jobs /\ Live(v)' \in SUBSET Jobs
      BY <1>3, <1>6, <2>1 DEF Live, JobsOf
    <3> HIDE DEF rest
    <3>2. Cardinality(rest) <= Cardinality(Live(v)) - 1 /\ Cardinality(rest) \in Nat
      BY <3>1, Numbers, CountJobs DEF rest
    <3>3. Cardinality(Live(v)') <= Cardinality(rest) + 1 /\ Cardinality(Live(v)') \in Nat
      BY <1>3, <3>1, CountJobs
    <3> QED
      BY <3>2, <3>3, Numbers
  <2>2. CASE v # Delivered
    BY <1>6, <2>2, Numbers
  <2> QED
    BY <2>1, <2>2
<1>12. PostsCounted'
  <2>1. \A v \in Events : At(v, Uncounted)' <=> At(v, Uncounted)
    BY <1>1, <1>2 DEF At, Uncounted
  <2> QED
    BY <1>1, <2>1 DEF PostsCounted, One
<1>13. OpenHasJob'
  <2> SUFFICES ASSUME NEW v \in Events
               PROVE  IF v = Delivered
                      THEN Unended(v)' /\ \E j \in JobsOf(v)' : life'[j] = "queued"
                      ELSE Unended(v) => Unended(v)'
    BY <1>1, <1>2 DEF OpenHasJob, At
  <2>1. CASE v = Delivered
    <3>1. new \in JobsOf(v)' /\ life'[new] = "queued" /\ worker'.job # new
      BY <1>1, <1>4, <1>5, <1>6, <2>1
    <3> QED
      BY <2>1, <3>1 DEF Unended
  <2>2. CASE v # Delivered
    <3> SUFFICES ASSUME Unended(v)
                 PROVE  Unended(v)'
      BY <2>2
    <3>1. PICK j \in JobsOf(v) : life[j] \in {"queued", "running", "dead"}
      BY DEF Unended
    <3>2. j \in Jobs /\ j[1] = v /\ j # new /\ j # worker.job /\ j \in JobsOf(v)'
      BY <1>2, <1>3, <1>6, <2>2, <3>1 DEF JobsOf
    <3> QED
      BY <1>1, <1>5, <3>1, <3>2 DEF Unended
  <2> QED
    BY <2>1, <2>2
<1>14. AnswerIsTrue'
  BY <1>1, <1>2 DEF AnswerIsTrue, LastAttempt
<1>15. LateWasUnderWay' /\ AtMostOneLate' /\ EndIsHonest'
  BY <1>1 DEF LateWasUnderWay, AtMostOneLate, EndIsHonest
<1> QED
  BY <1>7, <1>8, <1>9, <1>10, <1>11, <1>12, <1>13, <1>14, <1>15

(* The job of the handler ends; or the handler, or the process, is cut     *)
(* short, which leaves its job to be run again, dead, or running for ever. *)
LEMMA EndHandlerStep ==
  ASSUME WebhooksAssumption, IndInv, Types', FinishJob \/ DeliveryDbError \/ Crash \/ ConsumerEnds
  PROVE  IndInv'
<1> DEFINE job == worker.job
<1> USE DEF IndInv, jobVars, postVars, faultVars
<1>1. /\ UNCHANGED <<endpoint, event, posts, received, late, skipped>>
      /\ worker'.pc = IF ConsumerEnds THEN "ended" ELSE "idle"
      /\ \/ FinishJob /\ worker.pc = "return" /\ life' = [life EXCEPT ![job] = "completed"]
              /\ UNCHANGED <<dispatch, dbErrors, crashes>>
         \/ /\ DeliveryDbError /\ worker.pc \in Open \cup {"rescheduled"}
            /\ \E status \in {"queued", "dead"} : life' = [life EXCEPT ![job] = status]
            /\ UNCHANGED <<dispatch, crashes>> /\ dbErrors' = dbErrors + 1
         \/ /\ Crash \/ ConsumerEnds
            /\ UNCHANGED life
            /\ \/ crashes' = crashes + 1 /\ dbErrors' = dbErrors
               \/ dbErrors' = dbErrors + 1 /\ crashes' = crashes
  <2>1. /\ worker \in [pc : Open \cup {"idle", "rescheduled", "return", "ended"}, job : Jobs]
        /\ "idle" \notin Open /\ "ended" \notin Open /\ "return" \notin Open
    BY DEF Types, Open
  <2>2. CASE ConsumerEnds
    <3>1. worker'.pc = "ended"
      BY <2>2, <2>1, Updates DEF ConsumerEnds, CutShort, Goto
    <3> QED
      BY <2>2, <3>1 DEF ConsumerEnds
  <2>3. CASE ~ConsumerEnds /\ Crash
    <3>1. worker'.pc = "idle"
      BY <2>3, <2>1, Updates DEF Crash, CutShort, Goto
    <3> QED
      BY <2>3, <3>1 DEF Crash
  <2>4. CASE ~ConsumerEnds /\ (FinishJob \/ DeliveryDbError)
    <3>1. worker'.pc = "idle"
      BY <2>4, <2>1, Updates DEF FinishJob, DeliveryDbError, Goto
    <3> QED
      BY <2>4, <2>1, <3>1
      DEF FinishJob, DeliveryDbError, Busy, Queue!Succeed, Queue!Raise
  <2> QED
    BY <2>2, <2>3, <2>4
<1>2. job \in Jobs /\ job[1] = Delivered /\ Delivered \in Events
  BY Pairs DEF Types, Delivered
<1>3. worker.pc \notin {"idle", "ended"} => life[job] = "running"
  BY DEF OneHandler
<1>4. /\ \A j \in Jobs \ {job} : life'[j] = life[j]
      /\ FinishJob => life'[job] = "completed"
      /\ DeliveryDbError => life'[job] \in {"queued", "dead"}
      /\ Crash \/ ConsumerEnds => life' = life
  BY <1>1, <1>2 DEF Types, Crash, ConsumerEnds, FinishJob, DeliveryDbError, Queue!Succeed, Queue!Raise
<1>5. \A v \in Events : JobsOf(v)' = JobsOf(v)
  BY <1>1, <1>3, <1>4 DEF JobsOf, Open
<1>6. \A d \in Dispatches :
        /\ dispatch'[d].to = dispatch[d].to /\ dispatch'[d].left = dispatch[d].left
        /\ dispatch'[d].pc = dispatch[d].pc
             \/ (dispatch[d].pc = "sending" /\ dispatch'[d].pc = "done")
        /\ ConsumerEnds => dispatch'[d].pc # "sending"
  <2>1. CASE UNCHANGED dispatch /\ ~ConsumerEnds
    BY <2>1
  <2>2. CASE Crash \/ ConsumerEnds
    <3> SUFFICES ASSUME NEW d \in Dispatches
                 PROVE  /\ dispatch'[d].to = dispatch[d].to
                        /\ dispatch'[d].left = dispatch[d].left
                        /\ dispatch'[d].pc = IF dispatch[d].pc = "sending"
                                             THEN "done" ELSE dispatch[d].pc
      OBVIOUS
    <3> DEFINE x == IF dispatch[d].pc = "sending" THEN "done" ELSE dispatch[d].pc
    <3>1. dispatch'[d] = [dispatch[d] EXCEPT !.pc = x]
      BY <2>2 DEF Crash, ConsumerEnds, CutShort
    <3>2. dispatch[d] \in [pc : {"new", "sending", "done"},
                           to : SUBSET Endpoints, left : SUBSET Endpoints]
      BY DEF Types
    <3> HIDE DEF x
    <3>3. /\ [dispatch[d] EXCEPT !.pc = x].pc = x
          /\ [dispatch[d] EXCEPT !.pc = x].to = dispatch[d].to
          /\ [dispatch[d] EXCEPT !.pc = x].left = dispatch[d].left
      BY <3>2
    <3> QED
      BY <3>1, <3>3 DEF x
  <2> QED
    BY <1>1, <2>1, <2>2
<1>7. \A v \in Events : \A pcs :
        "idle" \notin pcs /\ "ended" \notin pcs => ~At(v, pcs)'
  BY <1>1 DEF At
<1>8. \A v \in Events : Unended(v) => Unended(v)'
  <2> SUFFICES ASSUME NEW v \in Events, Unended(v)
               PROVE  Unended(v)'
    OBVIOUS
  <2>1. PICK j \in JobsOf(v) : /\ life[j] \in {"queued", "running", "dead"}
                               /\ ~(job = j /\ worker.pc \in {"rescheduled", "return"})
    BY DEF Unended
  <2>2. j \in Jobs /\ life'[j] \in {"queued", "running", "dead"}
    BY <1>1, <1>4, <2>1 DEF JobsOf
  <2> QED
    BY <1>1, <1>5, <2>1, <2>2 DEF Unended
(* A fault outweighs what it leaves behind.                                *)
<1>9. ASSUME NEW v \in Events
      PROVE  /\ dbErrors' \in Nat /\ crashes' \in Nat
             /\ dbErrors + crashes + One(At(v, {"rescheduled"})) <= dbErrors' + crashes'
             /\ dbErrors + crashes + One(At(v, Uncounted)) <= dbErrors' + crashes'
             /\ Cardinality(Live(v)') \in Nat
             /\ Cardinality(Live(v)') - Cardinality(Live(v)) <= dbErrors' - dbErrors
  <2>1. /\ Live(v) \in SUBSET Jobs /\ Live(v)' \in SUBSET Jobs
        /\ Cardinality(Live(v)') \in Nat
    <3>1. Live(v)' \in SUBSET Jobs
      BY DEF Live, JobsOf
    <3> QED
      BY <3>1, Numbers, CountJobs
  <2>2. "idle" \notin Open /\ "ended" \notin Open /\ "return" \notin Uncounted
    BY DEF Open, Uncounted
  <2>3. CASE FinishJob
    <3>1. ~At(v, {"rescheduled"}) /\ ~At(v, Uncounted)
      BY <2>2, <2>3 DEF FinishJob, At
    <3>2. Live(v)' \subseteq Live(v)
      BY <1>1, <1>4, <1>5, <2>2, <2>3 DEF Live, JobsOf
    <3> QED
      BY <1>1, <2>1, <2>3, <3>1, <3>2, Numbers, CountJobs
         DEF One, FinishJob, DeliveryDbError, Crash
  <2>4. CASE DeliveryDbError
    <3>1. Live(v)' \subseteq Live(v) \cup {job}
      BY <1>1, <1>4, <1>5, <2>2, <2>4 DEF Live, JobsOf
    <3>2. dbErrors' = dbErrors + 1 /\ crashes' = crashes
      BY <2>4 DEF DeliveryDbError
    <3> QED
      BY <1>2, <2>1, <3>1, <3>2, Numbers, CountJobs DEF One
  <2>5. CASE Crash \/ ConsumerEnds
    <3>1. Live(v)' \subseteq Live(v)
      BY <1>1, <1>4, <1>5, <2>2, <2>5 DEF Live, JobsOf
    <3>2. \/ crashes' = crashes + 1 /\ dbErrors' = dbErrors
          \/ dbErrors' = dbErrors + 1 /\ crashes' = crashes
      BY <2>5 DEF Crash, ConsumerEnds
    <3> QED
      BY <2>1, <3>1, <3>2, Numbers, CountJobs DEF One
  <2> QED
    BY <2>3, <2>4, <2>5
<1>10. OneHandler'
  BY <1>1, <1>6 DEF OneHandler
<1>11. StemFromDispatch'
  <2>1. \A v \in Events : Exists(v)' <=> Exists(v)
    BY <1>1 DEF Exists
  <2> QED
    BY <1>1, <1>5, <1>6, <1>7, <2>1, Pairs DEF StemFromDispatch, Open
<1>12. SendingQueues'
  <2> SUFFICES ASSUME NEW d \in Dispatches, dispatch'[d].pc = "sending"
               PROVE  life' = life /\ dispatch[d].pc = "sending"
    BY <1>6 DEF SendingQueues
  <2>1. worker.pc = "idle" /\ dispatch[d].pc = "sending"
    BY <1>6 DEF OneHandler
  <2> QED
    BY <1>1, <2>1 DEF Open
<1>13. Registered'
  BY <1>1, <1>6 DEF Registered
<1>14. JobsCounted' /\ PostsCounted'
  BY <1>1, <1>5, <1>7, <1>9, Numbers DEF JobsCounted, PostsCounted, One, Uncounted
<1>15. LiveBounded'
  BY <1>1, <1>9, Numbers DEF LiveBounded, One
<1>16. OpenHasJob'
  BY <1>1, <1>7, <1>8 DEF OpenHasJob
<1>17. AnswerIsTrue' /\ LateWasUnderWay' /\ AtMostOneLate' /\ EndIsHonest'
  BY <1>1 DEF AnswerIsTrue, LateWasUnderWay, AtMostOneLate, EndIsHonest
<1> QED
  BY <1>10, <1>11, <1>12, <1>13, <1>14, <1>15, <1>16, <1>17

(* IndInv survives every step.                                             *)
LEMMA IndStep == WebhooksAssumption /\ IndInv /\ [Next]_vars => IndInv'
<1> SUFFICES ASSUME WebhooksAssumption, IndInv, [Next]_vars
             PROVE  IndInv'
  OBVIOUS
<1>a. Types'
  BY TypesStep DEF IndInv
<1>1. ASSUME NEW e \in Endpoints, RegisterEndpoint(e) \/ DeactivateEndpoint(e)
      PROVE  IndInv'
  BY <1>a, <1>1, EndpointStep
<1>2. ASSUME NEW d \in Dispatches, StartDispatch(d)
      PROVE  IndInv'
  BY <1>a, <1>2, StartDispatchStep
<1>3. ASSUME NEW d \in Dispatches, NEW e \in Endpoints, EnqueueDelivery(d, e)
      PROVE  IndInv'
  BY <1>a, <1>3, EnqueueDeliveryStep
<1>4. ASSUME NEW d \in Dispatches, CommitDispatch(d) \/ DispatchDbError(d)
      PROVE  IndInv'
  BY <1>a, <1>4, EndDispatchStep
<1>5. ASSUME NEW j \in Jobs, StartDelivery(j)
      PROVE  IndInv'
  BY <1>a, <1>5, StartDeliveryStep
<1>6. CASE CheckEndpoint
  BY <1>a, <1>6, CheckEndpointStep
<1>7. CASE Post
  BY <1>a, <1>7, PostStep
<1>8. CASE CommitDelivered \/ CommitDead \/ CommitFailed
  BY <1>a, <1>8, CommitStep
<1>9. CASE EnqueueRetry
  BY <1>a, <1>9, EnqueueRetryStep
<1>10. CASE FinishJob \/ DeliveryDbError \/ Crash \/ ConsumerEnds
  BY <1>a, <1>10, EndHandlerStep
<1>11. CASE UNCHANGED vars
  <2> USE <1>11 DEF vars, jobVars, postVars, faultVars, IndInv
  <2>1. OneHandler' /\ SendingQueues' /\ Registered'
    BY DEF OneHandler, SendingQueues, Registered
  <2>2. StemFromDispatch' /\ JobsCounted' /\ PostsCounted'
    BY DEF StemFromDispatch, JobsCounted, PostsCounted, JobsOf, Exists, At, Delivered
  <2>3. LiveBounded' /\ OpenHasJob'
    BY DEF LiveBounded, OpenHasJob, Live, Unended, JobsOf, At, Delivered
  <2>4. AnswerIsTrue' /\ LateWasUnderWay' /\ AtMostOneLate' /\ EndIsHonest'
    BY DEF AnswerIsTrue, LastAttempt, Delivered, LateWasUnderWay, AtMostOneLate,
           EndIsHonest
  <2> QED
    BY <1>a, <2>1, <2>2, <2>3, <2>4
<1> QED
  BY <1>1, <1>2, <1>3, <1>4, <1>5, <1>6, <1>7, <1>8, <1>9, <1>10, <1>11
     DEF Next, WorkerStep, DeliveryStep, DispatchStep

LEMMA IndInit == WebhooksAssumption /\ Init => IndInv
<1> SUFFICES ASSUME WebhooksAssumption, Init
             PROVE  IndInv
  OBVIOUS
<1>a. (CHOOSE j \in Jobs : TRUE) \in Jobs
  <2>1. PICK d \in Dispatches : TRUE
    BY DEF WebhooksAssumption
  <2>2. PICK e \in Endpoints : TRUE
    BY DEF WebhooksAssumption
  <2>3. 1 \in 1..MaxDeliveries + MaxFaults
    BY DEF WebhooksAssumption
  <2>4. <<<<d, e>>, 1>> \in Jobs
    BY <2>1, <2>2, <2>3, Pairs
  <2> QED
    BY <2>4
<1> USE DEF Init, Queue!Init
<1>1. Types
  <2>1. 0 \in 0..MaxAttempts /\ 0 <= MaxFaults
    BY DEF WebhooksAssumption
  <2> QED
    BY <1>a, <2>1 DEF Types
<1>2. \A v \in Events : JobsOf(v) = {} /\ Live(v) = {} /\ ~Exists(v)
  BY DEF JobsOf, Live, Exists
<1>3. Cardinality({}) = 0
  BY FS_EmptySet
<1>4. OneHandler /\ SendingQueues /\ Registered
  BY DEF OneHandler, SendingQueues, Registered
<1>5. StemFromDispatch
  BY <1>2 DEF StemFromDispatch, At, Open
<1>6. JobsCounted /\ LiveBounded /\ PostsCounted
  <2>1. \A v \in Events : /\ Cardinality(JobsOf(v)) = 0 /\ Cardinality(Live(v)) = 0
                          /\ event[v].attempt_count = 0 /\ posts[v] = 0
                          /\ event[v].status \notin Settled
    BY <1>2, <1>3 DEF Settled
  <2>2. MaxDeliveries \in Nat \ {0} /\ dbErrors = 0 /\ crashes = 0
    BY DEF WebhooksAssumption
  <2> QED
    BY <2>1, <2>2 DEF JobsCounted, LiveBounded, PostsCounted, One
<1>7. OpenHasJob /\ AnswerIsTrue /\ LateWasUnderWay /\ AtMostOneLate /\ EndIsHonest
  BY DEF OpenHasJob, AnswerIsTrue, LateWasUnderWay, AtMostOneLate, EndIsHonest, At
<1> QED
  BY <1>1, <1>4, <1>5, <1>6, <1>7 DEF IndInv

(* What the invariant says of the properties.                              *)
LEMMA IndInvImplies ==
  WebhooksAssumption /\ IndInv => TypeOK /\ EventIsFound /\ PostsBounded /\ NeverDropped
<1> SUFFICES ASSUME WebhooksAssumption, IndInv
             PROVE  TypeOK /\ EventIsFound /\ PostsBounded /\ NeverDropped
  OBVIOUS
<1> USE DEF IndInv
<1>a. ASSUME NEW v \in Events
      PROVE  /\ event[v].attempt_count + One(At(v, Uncounted)) <= MaxDeliveries + dbErrors
             /\ event[v].attempt_count <= MaxDeliveries + dbErrors
  <2>1. CASE event[v].attempt_count + 1 <= MaxDeliveries
    BY <2>1, Numbers DEF One
  <2>2. CASE ~(event[v].attempt_count + 1 <= MaxDeliveries)
    <3>1. event[v].attempt_count + Cardinality(Live(v)) <= MaxDeliveries + dbErrors
      BY <2>2, Numbers
    <3>2. CASE At(v, Uncounted)
      <4>1. worker.pc # "rescheduled"
        BY <2>2, <3>2, Numbers DEF AnswerIsTrue, LastAttempt, At
      <4>2. /\ worker.pc \in Open /\ worker.pc \notin {"idle", "ended"}
            /\ worker.job \in Jobs
        BY <3>2, <4>1 DEF At, Uncounted, Open, Types
      <4>3. worker.job \in Live(v)
        BY <3>2, <4>2 DEF Live, JobsOf, OneHandler, At, Delivered
      <4>4. Cardinality({}) <= Cardinality(Live(v)) - 1
        BY <4>3, Numbers, CountJobs
      <4> QED
        BY <3>1, <4>4, FS_EmptySet, Numbers DEF One
    <3> QED
      BY <3>1, <3>2, Numbers DEF One
  <2> QED
    BY <2>1, <2>2
<1>1. TypeOK
  <2>1. ASSUME NEW v \in Events
        PROVE  event[v] \in [status : {"none", "queued", "failed", "delivered", "dead"},
                             attempt_count : 0..MaxDeliveries + MaxFaults]
    <3>1. event[v].attempt_count \in 0..MaxDeliveries + MaxFaults
      BY <1>a, Numbers DEF Types
    <3> QED
      BY <3>1 DEF Types
  <2> QED
    BY <2>1 DEF Types, TypeOK, Open
<1>2. EventIsFound
  BY DEF EventIsFound, StemFromDispatch
<1>3. PostsBounded
  <2> SUFFICES ASSUME NEW v \in Events
               PROVE  posts[v] <= MaxDeliveries + crashes + 2 * dbErrors
    BY DEF PostsBounded
  <2> QED
    BY <1>a, Numbers DEF One
<1>4. NeverDropped
  BY DEF NeverDropped, OpenHasJob, Unended
<1> QED
  BY <1>1, <1>2, <1>3, <1>4

(* A settled event is not written again while no database error has come.  *)
LEMMA EndStep ==
  WebhooksAssumption /\ IndInv /\ [Next]_vars =>
    \A v \in Events :
      event[v].status \in Settled /\ dbErrors = 0 => event'[v] = event[v]
<1> SUFFICES ASSUME WebhooksAssumption, IndInv, [Next]_vars, NEW v \in Events,
                    event[v].status \in Settled, dbErrors = 0
             PROVE  event'[v] = event[v]
  OBVIOUS
<1> USE DEF IndInv
<1>1. Live(v) = {}
  <2>1. Cardinality(Live(v)) = 0
    BY Numbers DEF One
  <2>2. ASSUME NEW j \in Live(v)
        PROVE  FALSE
    <3>1. Cardinality({}) <= Cardinality(Live(v)) - 1
      BY Numbers, CountJobs
    <3> QED
      BY <2>1, <3>1, FS_EmptySet
  <2> QED
    BY <2>2
<1>2. worker.pc \in Open \cup {"rescheduled"} => Delivered # v
  <2>1. /\ worker.job \in Jobs
        /\ (worker.pc \notin {"idle", "ended"} => life[worker.job] = "running")
    BY DEF Types, OneHandler
  <2>2. CASE worker.pc \in Open /\ Delivered = v
    <3>1. worker.job \in Live(v)
      BY <2>1, <2>2 DEF Live, JobsOf, Delivered, Open
    <3> QED
      BY <1>1, <3>1
  <2>3. CASE worker.pc = "rescheduled" /\ Delivered = v
    <3>1. PICK j \in JobsOf(v) : life[j] = "queued"
      BY <2>3 DEF OpenHasJob, At
    <3>2. j \in Live(v)
      BY <3>1 DEF Live
    <3> QED
      BY <1>1, <3>2
  <2> QED
    BY <2>2, <2>3
<1>3. Exists(v) /\ dispatch[v[1]].pc = "done" /\ Delivered \in Events
  BY Pairs DEF Exists, Settled, StemFromDispatch, Types, Delivered
<1>4. CASE CheckEndpoint
  <2>1. Delivered # v
    BY <1>2, <1>4 DEF CheckEndpoint, Open
  <2>2. event' = event
          \/ event' = [event EXCEPT ![Delivered] =
               [status |-> "dead", attempt_count |-> event[Delivered].attempt_count]]
    BY <1>3, <1>4, Updates DEF CheckEndpoint
  <2>3. event = [u \in Events |-> event[u]]
    BY DEF Types
  <2> QED
    BY <1>3, <2>1, <2>2, <2>3
<1>5. CASE CommitDelivered \/ CommitDead \/ CommitFailed
  <2>1. Delivered # v
    BY <1>2, <1>5 DEF CommitDelivered, CommitDead, CommitFailed, Open
  <2> QED
    BY <1>3, <1>5, <2>1 DEF CommitDelivered, CommitDead, CommitFailed, Settle, Types
<1>6. ASSUME NEW d \in Dispatches, CommitDispatch(d)
      PROVE  event'[v] = event[v]
  BY <1>3, <1>6 DEF CommitDispatch
<1>7. CASE UNCHANGED event
  BY <1>7
<1> QED
  BY <1>4, <1>5, <1>6, <1>7
     DEF Next, WorkerStep, DeliveryStep, DispatchStep, vars, RegisterEndpoint,
         DeactivateEndpoint, StartDispatch, EnqueueDelivery, StartDelivery, Post,
         EnqueueRetry, FinishJob, DeliveryDbError, DispatchDbError, ConsumerEnds,
         Crash

-----------------------------------------------------------------------------
(* The theorems.                                                           *)

(* IndInv holds throughout every behaviour of dispatch and deliver.        *)
THEOREM Invariance == Spec => []IndInv
<1>1. WebhooksAssumption
  BY WebhooksAssumption
<1> QED
  BY <1>1, IndInit, IndStep, PTL DEF Spec

(* The variables keep their types, attempt_count its bound among them.     *)
THEOREM TypeCorrectness == Spec => []TypeOK
<1>1. IndInv => TypeOK
  BY WebhooksAssumption, IndInvImplies
<1> QED
  BY <1>1, Invariance, PTL

(* A deliver_webhook job finds its event, though dispatch commits the job  *)
(* before the event.                                                       *)
THEOREM EventsAreFound == Spec => []EventIsFound
<1>1. IndInv => EventIsFound
  BY WebhooksAssumption, IndInvImplies
<1> QED
  BY <1>1, Invariance, PTL

(* deliver posts an event MaxDeliveries times at most, and once more for a *)
(* crash, twice for a database error.                                      *)
THEOREM PostsAreBounded == Spec => []PostsBounded
<1>1. IndInv => PostsBounded
  BY WebhooksAssumption, IndInvImplies
<1> QED
  BY <1>1, Invariance, PTL

(* An event without an end has a job, whatever of deliver is cut short.    *)
THEOREM NoEventIsDropped == Spec => []NeverDropped
<1>1. IndInv => NeverDropped
  BY WebhooksAssumption, IndInvImplies
<1> QED
  BY <1>1, Invariance, PTL

(* delivered and dead are committed for a true reason.                     *)
THEOREM EndsAreHonest == Spec => []EndIsHonest
<1>1. IndInv => EndIsHonest
  BY DEF IndInv
<1> QED
  BY <1>1, Invariance, PTL

(* An endpoint gets one delivery after its deactivation at most.           *)
THEOREM OneLateDelivery == Spec => []AtMostOneLate
<1>1. IndInv => AtMostOneLate
  BY DEF IndInv
<1> QED
  BY <1>1, Invariance, PTL

(* Until a database error leaves two jobs for an event, deliver does not   *)
(* write an event that is settled.                                         *)
THEOREM EndsAreFinal == Spec => EndIsFinal
<1> DEFINE Keeps == \A v \in Events :
             event[v].status \in Settled /\ dbErrors = 0 => event'[v] = event[v]
<1>1. IndInv /\ [Next]_vars => [Keeps]_vars
  BY WebhooksAssumption, EndStep
<1>2. [][Next]_vars /\ []IndInv => [][Keeps]_vars
  BY <1>1, PTL
<1>3. Spec => [][Keeps]_vars
  BY <1>2, Invariance DEF Spec
<1> QED
  BY <1>3 DEF EndIsFinal

=============================================================================
