------------------------------ MODULE PoolProofs ------------------------------
(***************************************************************************)
(* Proofs about the connection pool in Gateway.tla: no more connections    *)
(* are checked out than it has, however many clients there are.            *)
(***************************************************************************)
EXTENDS RateLimitProofs, FiniteSetTheorems

-----------------------------------------------------------------------------
(* The inductive invariant, in parts.                                      *)

PoolTypeOK ==
  /\ use \in [Users -> [path : DOMAIN Paths, at : 0..8]]
  /\ \A u \in Users : use[u].at <= Len(Paths[use[u].path])
  /\ consumer \in {"running", "ended"}

(* The consumer task goes the way of a job, clients never do.              *)
OnlyConsumerRunsJobs ==
  use[Consumer].at > 0 => use[Consumer].path = "job"

(* However many clients there are, finitely many have a connection.        *)
PoolFits ==
  /\ IsFiniteSet(CheckedOut)
  /\ InUse <= PoolSize

PoolInv == PoolTypeOK /\ OnlyConsumerRunsJobs /\ PoolFits

-----------------------------------------------------------------------------
(* The paths.                                                              *)

LEMMA PathsAre ==
  /\ DOMAIN Paths = {"create", "metrics", "poll", "job"}
  /\ Paths["create"] = <<0, 1, 2, 1>> /\ Len(Paths["create"]) = 4
  /\ Paths["metrics"] = <<0, 1>> /\ Len(Paths["metrics"]) = 2
  /\ Paths["poll"] = <<0, 1>> /\ Len(Paths["poll"]) = 2
  /\ Paths["job"] = <<0, 1, 0, 1, 2, 1, 0, 1>> /\ Len(Paths["job"]) = 8
BY DEF Paths

(* A path begins with no connection, and takes one at a time, two at most. *)
LEMMA PathSteps ==
  ASSUME NEW path \in DOMAIN Paths
  PROVE  /\ Len(Paths[path]) \in 1..8
         /\ Paths[path][1] = 0
         /\ \A i \in 1..Len(Paths[path]) : Paths[path][i] \in 0..2
         /\ \A i \in 1..Len(Paths[path]) - 1 : Paths[path][i + 1] <= Paths[path][i] + 1
<1>1. CASE path = "create"
  BY <1>1, PathsAre
<1>2. CASE path = "metrics"
  BY <1>2, PathsAre
<1>3. CASE path = "job"
  BY <1>3, PathsAre
<1>4. CASE path = "poll"
  BY <1>4, PathsAre
<1> QED
  BY <1>1, <1>2, <1>3, <1>4, PathsAre

TwoAtMost == \A u \in Users : Holds(u) \in 0..2

LEMMA HoldsType == PoolTypeOK => TwoAtMost
<1> SUFFICES ASSUME PoolTypeOK, NEW u \in Users
             PROVE  Holds(u) \in 0..2
  BY DEF TwoAtMost
<1>1. /\ use[u].path \in DOMAIN Paths /\ use[u].at \in 0..8
      /\ use[u].at <= Len(Paths[use[u].path])
  BY DEF PoolTypeOK
<1>2. CASE use[u].at = 0
  BY <1>2 DEF Holds
<1>3. CASE use[u].at # 0
  <2>1. use[u].at \in 1..Len(Paths[use[u].path])
    BY <1>1, <1>3, PathSteps
  <2> QED
    BY <1>1, <1>3, <2>1, PathSteps DEF Holds
<1> QED
  BY <1>2, <1>3

-----------------------------------------------------------------------------
(* One user moves.                                                         *)

(* A user that takes no more than one connection, and only a free one,     *)
(* leaves the pool within its size.                                        *)
LEMMA OneUserMoves ==
  ASSUME GatewayAssumption, PoolInv, PoolTypeOK', NEW u \in Users,
         \A v \in Users \ {u} : use'[v] = use[v],
         \/ Holds(u)' <= Holds(u)
         \/ Holds(u)' = Holds(u) + 1 /\ Free
  PROVE  PoolFits'
<1>1. Holds(u) \in 0..2
  BY HoldsType DEF PoolInv, TwoAtMost
<1>2. Holds(u)' \in 0..2
  <2>1. PoolTypeOK' => TwoAtMost'
    BY HoldsType, PTL
  <2> QED
    BY <2>1 DEF TwoAtMost
<1>3. \A v \in Users \ {u} : Holds(v)' = Holds(v)
  BY DEF Holds
<1>4. IsFiniteSet(CheckedOut) /\ InUse <= PoolSize /\ InUse \in Nat /\ PoolSize \in Nat
  BY FS_CardinalityType DEF PoolInv, PoolFits, InUse, GatewayAssumption
<1>5. CASE Holds(u)' <= Holds(u)
  <2>1. CheckedOut' \subseteq CheckedOut
    BY <1>1, <1>2, <1>3, <1>5 DEF CheckedOut
  <2>2. /\ IsFiniteSet(CheckedOut')
        /\ Cardinality(CheckedOut') <= Cardinality(CheckedOut)
        /\ Cardinality(CheckedOut') \in Nat
    BY <1>4, <2>1, FS_Subset, FS_CardinalityType
  <2> QED
    BY <1>4, <2>2 DEF PoolFits, InUse
<1>6. CASE Holds(u)' = Holds(u) + 1 /\ Free
  <2> DEFINE next == <<u, Holds(u) + 1>>
  <2>1. CheckedOut' = CheckedOut \cup {next}
    BY <1>1, <1>2, <1>3, <1>6 DEF CheckedOut
  <2> HIDE DEF next
  <2>2. /\ IsFiniteSet(CheckedOut')
        /\ Cardinality(CheckedOut') \in Nat
        /\ \/ Cardinality(CheckedOut') = Cardinality(CheckedOut)
           \/ Cardinality(CheckedOut') = Cardinality(CheckedOut) + 1
    BY <1>4, <2>1, FS_AddElement, FS_CardinalityType
  <2>3. InUse < PoolSize
    BY <1>6 DEF Free
  <2> QED
    BY <1>4, <2>2, <2>3 DEF PoolFits, InUse
<1> QED
  BY <1>5, <1>6

(* What an assignment to use does.                                         *)
LEMMA UseMoves ==
  ASSUME PoolTypeOK, NEW u \in Users
  PROVE  /\ \A path : Enter(u, path) =>
              /\ use' = [use EXCEPT ![u] = [path |-> path, at |-> 1]]
              /\ use'[u] = [path |-> path, at |-> 1]
         /\ \A i : MoveTo(u, i) =>
              /\ use' = [use EXCEPT ![u] = [path |-> use[u].path, at |-> i]]
              /\ use'[u] = [path |-> use[u].path, at |-> i]
         /\ Leave(u) => /\ use' = [use EXCEPT ![u] = Idle]
                        /\ use'[u] = Idle
<1>1. use \in [Users -> [path : DOMAIN Paths, at : 0..8]]
  BY DEF PoolTypeOK
<1>2. ASSUME NEW i, MoveTo(u, i)
      PROVE  use' = [use EXCEPT ![u] = [path |-> use[u].path, at |-> i]]
  <2>1. use' = [use EXCEPT ![u] = [use[u] EXCEPT !.at = i]]
    BY <1>1, <1>2 DEF MoveTo
  <2>2. [use[u] EXCEPT !.at = i] = [path |-> use[u].path, at |-> i]
    BY <1>1
  <2> QED
    BY <2>1, <2>2
<1>3. \A x : use' = [use EXCEPT ![u] = x] => use'[u] = x
  BY <1>1
<1> QED
  BY <1>2, <1>3 DEF Enter, Leave

(* One user is set to a place on a path, and nobody's job is a client's.   *)
LEMMA SetUse ==
  ASSUME GatewayAssumption, PoolInv, NEW u \in Users, NEW path \in DOMAIN Paths,
         NEW at \in 0..Len(Paths[path]),
         use' = [use EXCEPT ![u] = [path |-> path, at |-> at]],
         consumer' \in {"running", "ended"},
         u = Consumer /\ at > 0 => path = "job",
         \/ at = 0 \/ Paths[path][at] <= Holds(u)
         \/ Paths[path][at] = Holds(u) + 1 /\ Free
  PROVE  PoolInv'
<1> DEFINE new == [path |-> path, at |-> at]
<1>1. use \in [Users -> [path : DOMAIN Paths, at : 0..8]] /\ Len(Paths[path]) \in 1..8
  BY PathSteps DEF PoolInv, PoolTypeOK
<1>2. new \in [path : DOMAIN Paths, at : 0..8] /\ new.at <= Len(Paths[new.path])
      /\ new.path = path /\ new.at = at
  BY <1>1
<1> HIDE DEF new
<1>3. /\ use'[u] = new
      /\ \A v \in Users \ {u} : use'[v] = use[v]
      /\ use' \in [Users -> [path : DOMAIN Paths, at : 0..8]]
  BY <1>1, <1>2 DEF new
<1>4. PoolTypeOK'
  BY <1>2, <1>3 DEF PoolInv, PoolTypeOK
<1>5. OnlyConsumerRunsJobs'
  BY <1>2, <1>3 DEF PoolInv, OnlyConsumerRunsJobs, Users
<1>6. PoolFits'
  <2>1. Holds(u)' = IF at = 0 THEN 0 ELSE Paths[path][at]
    BY <1>2, <1>3 DEF Holds
  <2>2. Holds(u) \in 0..2
    BY HoldsType DEF PoolInv, TwoAtMost
  <2>3. \/ Holds(u)' <= Holds(u)
        \/ Holds(u)' = Holds(u) + 1 /\ Free
    BY <2>1, <2>2
  <2> QED
    BY <1>3, <1>4, <2>3, OneUserMoves
<1> QED
  BY <1>4, <1>5, <1>6 DEF PoolInv

LEMMA LeaveStep ==
  ASSUME GatewayAssumption, PoolInv, NEW u \in Users, Leave(u),
         consumer' \in {"running", "ended"}
  PROVE  PoolInv'
<1>1. use' = [use EXCEPT ![u] = [path |-> "create", at |-> 0]]
  BY UseMoves DEF PoolInv, Idle
<1>2. "create" \in DOMAIN Paths /\ 0 \in 0..Len(Paths["create"])
  BY PathsAre
<1>3. ~(0 > 0)
  OBVIOUS
<1> QED
  BY <1>1, <1>2, <1>3, SetUse, ZenonT(30)

LEMMA EnterStep ==
  ASSUME GatewayAssumption, PoolInv, NEW u \in Users, NEW path \in DOMAIN Paths,
         Enter(u, path), use[u].at = 0, u = Consumer => path = "job",
         UNCHANGED consumer
  PROVE  PoolInv'
<1>1. use' = [use EXCEPT ![u] = [path |-> path, at |-> 1]]
  BY DEF Enter
<1>2. 1 \in 0..Len(Paths[path]) /\ Paths[path][1] = 0
  BY PathSteps
<1>3. Paths[path][1] <= Holds(u)
  BY <1>2, HoldsType DEF PoolInv, TwoAtMost
<1>4. consumer' \in {"running", "ended"}
  BY DEF PoolInv, PoolTypeOK
<1> QED
  BY <1>1, <1>2, <1>3, <1>4, SetUse

(* A user goes on: it takes a connection if it wants one, a free one.      *)
LEMMA StepStep ==
  ASSUME GatewayAssumption, PoolInv, NEW u \in Users, Step(u)
  PROVE  PoolInv'
<1> DEFINE path == use[u].path
           at == use[u].at
<1>1. /\ path \in DOMAIN Paths /\ at \in 1..8 /\ at <= Len(Paths[path])
      /\ consumer' \in {"running", "ended"}
      /\ Len(Paths[path]) \in 1..8
  BY PathSteps DEF Step, PoolInv, PoolTypeOK
<1>2. CASE AtEnd(u)
  BY <1>1, <1>2, LeaveStep DEF Step
<1>3. CASE ~AtEnd(u)
  <2>1. at \in 1..Len(Paths[path]) - 1
    BY <1>1, <1>3 DEF AtEnd, Path
  <2>2. MoveTo(u, at + 1)
    BY <1>3 DEF Step
  <2>3. use' = [use EXCEPT ![u] = [path |-> path, at |-> at + 1]]
    BY <2>2, UseMoves DEF PoolInv
  <2>4. at + 1 \in 1..Len(Paths[path])
    BY <1>1, <2>1
  <2>5. /\ Paths[path][at + 1] \in 0..2 /\ Holds(u) \in 0..2
        /\ Paths[path][at + 1] <= Paths[path][at] + 1
    BY <1>1, <2>1, <2>4, PathSteps, HoldsType DEF PoolInv, TwoAtMost
  <2>6. Holds(u) = Paths[path][at]
    BY <1>1 DEF Holds
  <2>7. Paths[path][at + 1] > Holds(u) => Free
    BY <1>1, <1>3 DEF Step, Wants, Path
  <2>8. \/ Paths[path][at + 1] <= Holds(u)
        \/ Paths[path][at + 1] = Holds(u) + 1 /\ Free
    BY <2>5, <2>6, <2>7
  <2>9. u = Consumer => path = "job"
    BY <1>1 DEF PoolInv, OnlyConsumerRunsJobs
  <2> HIDE DEF path, at
  <2> QED
    <3>1. at + 1 \in 0..Len(Paths[path])
      BY <1>1, <2>4
    <3> QED
      BY <1>1, <2>3, <2>8, <2>9, <3>1, SetUse
<1> QED
  BY <1>2, <1>3

(* A handler that fails has nothing checked out any more.                  *)
LEMMA HandlerFailsStep ==
  ASSUME GatewayAssumption, PoolInv, HandlerFails
  PROVE  PoolInv'
<1>1. Consumer \in Users
  BY DEF Users
<1>2. MoveTo(Consumer, 7) /\ use[Consumer].at \in 3..6 /\ consumer' = consumer
  BY DEF HandlerFails, Recording, InHandler
<1>3. use[Consumer].path = "job"
  BY <1>2 DEF PoolInv, OnlyConsumerRunsJobs
<1>4. use' = [use EXCEPT ![Consumer] = [path |-> "job", at |-> 7]]
  <2>1. use' = [use EXCEPT ![Consumer] = [path |-> use[Consumer].path, at |-> 7]]
    BY <1>1, <1>2, UseMoves DEF PoolInv
  <2> QED
    BY <1>3, <2>1
<1>5. "job" \in DOMAIN Paths /\ 7 \in 0..Len(Paths["job"]) /\ Paths["job"][7] = 0
  BY PathsAre
<1>6. Paths["job"][7] <= Holds(Consumer)
  BY <1>1, <1>5, HoldsType DEF PoolInv, TwoAtMost
<1>7. consumer' \in {"running", "ended"}
  BY <1>2 DEF PoolInv, PoolTypeOK
<1> QED
  BY <1>1, <1>4, <1>5, <1>6, <1>7, SetUse

-----------------------------------------------------------------------------
(* The invariant.                                                          *)

(* Where nobody is on a path nothing is checked out.                       *)
LEMMA AllIdle ==
  GatewayAssumption /\ consumer = "running" /\ use = [u \in Users |-> Idle] => PoolInv
<1> SUFFICES ASSUME GatewayAssumption, consumer = "running", use = [u \in Users |-> Idle]
             PROVE  PoolInv
  OBVIOUS
<1>1. Consumer \in Users /\ \A u \in Users : use[u] = [path |-> "create", at |-> 0]
  BY DEF Idle, Users
<1>2. PoolTypeOK /\ OnlyConsumerRunsJobs
  BY <1>1, PathsAre DEF PoolTypeOK, OnlyConsumerRunsJobs, Idle
<1>3. CheckedOut = {}
  BY <1>1 DEF CheckedOut, Holds
<1>4. IsFiniteSet(CheckedOut) /\ InUse = 0
  BY <1>3, FS_EmptySet DEF InUse
<1>5. PoolFits
  BY <1>4 DEF PoolFits, GatewayAssumption
<1> QED
  BY <1>2, <1>5 DEF PoolInv

LEMMA PoolStep == GatewayAssumption /\ PoolInv /\ [Next]_vars => PoolInv'
<1> SUFFICES ASSUME GatewayAssumption, PoolInv, [Next]_vars
             PROVE  PoolInv'
  OBVIOUS
<1>1. /\ Clients \subseteq Users /\ Consumer \in Users /\ Consumer \notin Clients
      /\ Poller \in Users /\ Poller # Consumer
      /\ consumer \in {"running", "ended"}
  BY DEF Users, GatewayAssumption, PoolInv, PoolTypeOK
<1>2. ASSUME NEW c \in Clients, SendExempt(c) \/ SendAdmitted(c)
      PROVE  PoolInv'
  <2>1. PICK path \in {"metrics", "create"} : Enter(c, path)
    BY <1>2 DEF SendExempt, SendAdmitted
  <2> QED
    BY <1>1, <1>2, <2>1, PathsAre, EnterStep DEF SendExempt, SendAdmitted
<1>3. ASSUME NEW u \in Users, Step(u)
      PROVE  PoolInv'
  BY <1>3, StepStep
<1>4. ASSUME NEW c \in Clients, RequestFails(c)
      PROVE  PoolInv'
  BY <1>1, <1>4, LeaveStep DEF RequestFails
<1>5. CASE TakeJob
  BY <1>1, <1>5, PathsAre, EnterStep DEF TakeJob
<1>6. CASE HandlerFails
  BY <1>6, HandlerFailsStep
<1>7. CASE ConsumerFails
  BY <1>1, <1>7, LeaveStep DEF ConsumerFails
<1>8. CASE Restart
  <2>1. GatewayAssumption /\ consumer' = "running" /\ use' = [u \in Users |-> Idle]
    BY <1>8 DEF Restart
  <2>2. (GatewayAssumption /\ consumer = "running" /\ use = [u \in Users |-> Idle])'
          => PoolInv'
    BY AllIdle, PTL
  <2> QED
    BY <2>1, <2>2
<1>9. ASSUME UNCHANGED poolVars
      PROVE  PoolInv'
  BY <1>9 DEF poolVars, PoolInv, PoolTypeOK, OnlyConsumerRunsJobs, PoolFits, InUse,
     CheckedOut, Holds
<1>10. CASE Poll
  BY <1>1, <1>10, PathsAre, EnterStep DEF Poll
<1>11. CASE PollFails
  BY <1>1, <1>11, LeaveStep DEF PollFails
<1> QED
  BY <1>1, <1>2, <1>3, <1>4, <1>5, <1>6, <1>7, <1>8, <1>9, <1>10, <1>11
  DEF Next, RequestStep, ConsumerStep, PollerStep, SendRefused, Waiting, vars

(* PoolInv holds of every behaviour, for any clients and pool.             *)
THEOREM PoolInvariance == Spec => []PoolInv
<1>1. Init => PoolInv
  BY GatewayAssumption, AllIdle DEF Init
<1>2. PoolInv /\ [Next]_vars => PoolInv'
  BY GatewayAssumption, PoolStep
<1> QED
  BY <1>1, <1>2, PTL DEF Spec

(* Buckets, paths and the consumer keep their types, and never are more    *)
(* connections checked out than the pool has.                              *)
THEOREM TypeCorrectness == Spec => []TypeOK
<1>1. LimitInv /\ PoolInv => TypeOK
  BY DEF LimitInv, PoolInv, PoolTypeOK, PoolFits, TypeOK
<1> QED
  BY <1>1, PoolInvariance, LimitInvariance, GatewayImplementsRateLimit, PTL

=============================================================================
