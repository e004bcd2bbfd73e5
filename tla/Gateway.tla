------------------------------- MODULE Gateway -------------------------------
(***************************************************************************)
(* The way of requests through RateLimitMiddleware to the connection pool  *)
(* of core/database.py, and the job worker's two tasks, the consumer and   *)
(* the poller of delayed jobs, that use the same pool.                     *)
(*                                                                         *)
(* A client sends one request at a time.  A path lists how many            *)
(* connections its user holds, from one checkout or return to the next: a  *)
(* session takes a connection for its first statement, returns it at the   *)
(* commit and takes one again for the refresh; enqueue_job has a session   *)
(* of its own.  The last entry is followed by none.                        *)
(***************************************************************************)
EXTENDS RateLimit, Sequences, FiniteSets

CONSTANTS
  Clients,      \* senders of requests
  Consumer,     \* the worker's consumer task
  Poller,       \* the worker's _poll_delayed_jobs_loop
  PoolSize      \* DB_POOL_SIZE + DB_MAX_OVERFLOW

ASSUME GatewayAssumption ==
  /\ {Consumer, Poller} \cap Clients = {} /\ Consumer # Poller
  /\ PoolSize \in Nat \ {0}

Users == Clients \cup {Consumer, Poller}

(* POST of a payment or refund: its statements, enqueue_job, the rest.     *)
(* GET of the metrics.  The poller's SELECT.  A job: its row is read and   *)
(* marked running, process_refund does as the POST does, the end is        *)
(* recorded.  The refresh after each commit takes a connection as the      *)
(* statements before it did, one taking stands for both.                   *)
Paths == [create  |-> <<0, 1, 2, 1>>,
          metrics |-> <<0, 1>>,
          poll    |-> <<0, 1>>,
          job     |-> <<0, 1, 0, 1, 2, 1, 0, 1>>]

(* Where in a job the handler runs, and where its end is to be recorded.   *)
InHandler == 3..6
Recording == 7

VARIABLES
  use,          \* each user's path and its place there, 0 after its end
  consumer      \* whether the consumer task goes on

poolVars == <<use, consumer>>
vars == <<limitVars, poolVars>>

Holds(u) == IF use[u].at = 0 THEN 0 ELSE Paths[use[u].path][use[u].at]

(* The connections checked out: each user has a first, or two, or none.    *)
CheckedOut == {c \in Users \X (1..2) : c[2] <= Holds(c[1])}
InUse == Cardinality(CheckedOut)

TypeOK ==
  /\ LimitTypeOK
  /\ use \in [Users -> [path : DOMAIN Paths, at : 0..8]]
  /\ \A u \in Users : use[u].at <= Len(Paths[use[u].path])
  /\ InUse <= PoolSize
  /\ consumer \in {"running", "ended"}

Idle == [path |-> "create", at |-> 0]

Init ==
  /\ LimitInit
  /\ use = [u \in Users |-> Idle]
  /\ consumer = "running"

-----------------------------------------------------------------------------
Enter(u, path) == use' = [use EXCEPT ![u] = [path |-> path, at |-> 1]]
MoveTo(u, i) == use' = [use EXCEPT ![u].at = i]
Leave(u) == use' = [use EXCEPT ![u] = Idle]

(* Metrics are exempt from the limit.                                      *)
SendExempt(c) ==
  /\ use[c].at = 0
  /\ Enter(c, "metrics")
  /\ UNCHANGED <<limitVars, consumer>>

SendAdmitted(c) ==
  /\ use[c].at = 0
  /\ \E k \in Keys : Admit(k)
  /\ Enter(c, "create")
  /\ UNCHANGED consumer

(* Answered with status 429 without having got to the pool.  Without a     *)
(* key the answer is 401, and nothing changes.                             *)
SendRefused(c) ==
  /\ use[c].at = 0
  /\ \E k \in Keys : Refuse(k)
  /\ UNCHANGED poolVars

TakeJob ==
  /\ consumer = "running"
  /\ use[Consumer].at = 0
  /\ Enter(Consumer, "job")
  /\ UNCHANGED <<limitVars, consumer>>

(* _enqueue_due_jobs, however long ago the last one was.                   *)
Poll ==
  /\ use[Poller].at = 0
  /\ Enter(Poller, "poll")
  /\ UNCHANGED <<limitVars, consumer>>

-----------------------------------------------------------------------------
Path(u) == Paths[use[u].path]
AtEnd(u) == use[u].at = Len(Path(u))
Wants(u) == use[u].at > 0 /\ ~AtEnd(u) /\ Path(u)[use[u].at + 1] > Holds(u)

(* Variant of Free: one connection too many is handed out.                 *)
FreeOver == InUse <= PoolSize

Free == InUse < PoolSize

Step(u) ==
  /\ use[u].at > 0
  /\ Wants(u) => Free
  /\ IF AtEnd(u) THEN Leave(u) ELSE MoveTo(u, use[u].at + 1)
  /\ UNCHANGED <<limitVars, consumer>>

(* Variant of TimesOut: pool_timeout is None.                              *)
TimesOutNever(u) == FALSE

(* No connection has come back for DB_POOL_TIMEOUT_SECONDS.                *)
TimesOut(u) == Wants(u) /\ ~Free

(* The error leaves the request, and every session is closed.              *)
RequestFails(c) ==
  /\ TimesOut(c)
  /\ Leave(c)
  /\ UNCHANGED <<limitVars, consumer>>

(* The loop catches it and polls again later.                              *)
PollFails ==
  /\ TimesOut(Poller)
  /\ Leave(Poller)
  /\ UNCHANGED <<limitVars, consumer>>

(* _process catches what the handler raises.                               *)
HandlerFails ==
  /\ TimesOut(Consumer)
  /\ use[Consumer].at \in InHandler
  /\ MoveTo(Consumer, Recording)
  /\ UNCHANGED <<limitVars, consumer>>

(* Nothing catches it around the handler.                                  *)
ConsumerFails ==
  /\ TimesOut(Consumer)
  /\ use[Consumer].at \notin InHandler
  /\ Leave(Consumer)
  /\ consumer' = "ended"
  /\ UNCHANGED limitVars

(* The process dies and is started again.                                  *)
Restart ==
  /\ Forget
  /\ use' = [u \in Users |-> Idle]
  /\ consumer' = "running"

Waiting ==
  /\ Tick
  /\ UNCHANGED poolVars

RequestStep(c) == Step(c) \/ RequestFails(c)
PollerStep == Step(Poller) \/ PollFails
ConsumerStep == Step(Consumer) \/ HandlerFails \/ ConsumerFails

Next ==
  \/ \E c \in Clients :
       SendExempt(c) \/ SendAdmitted(c) \/ SendRefused(c) \/ RequestStep(c)
  \/ TakeJob
  \/ ConsumerStep
  \/ Poll
  \/ PollerStep
  \/ Waiting
  \/ Restart

Spec == Init /\ [][Next]_vars

(* A statement ends, and a wait for a connection does after its timeout.   *)
FairSpec ==
  /\ Spec
  /\ \A c \in Clients : WF_vars(RequestStep(c))
  /\ WF_vars(ConsumerStep)
  /\ WF_vars(PollerStep)

-----------------------------------------------------------------------------
(* Nobody waits for a connection for ever, even when every connection is   *)
(* held by someone that wants a second one.                                *)
EveryUseEnds == \A u \in Users : use[u].at > 0 ~> use[u].at = 0
=============================================================================
