---------------------------- MODULE RefundsProofs ----------------------------
(***************************************************************************)
(* Proofs about Refunds.tla: the inductive invariant IndInv, and from it   *)
(* that a key makes one refund, that no more than a payment is refunded    *)
(* unless requests overlap, that a refund is announced once, is not        *)
(* dropped, and keeps its end.                                             *)
(***************************************************************************)
EXTENDS Refunds, TLAPS, FiniteSetTheorems

-----------------------------------------------------------------------------
(* The inductive invariant, in parts.                                      *)

(* A request decides on an amount first, and is done once its row is there *)
RowFollowsRequest ==
  \A r \in Requests :
    /\ Deciding(r) => request[r].amount \in 1..Total
    /\ Exists(r) => request[r].pc = "done"

(* The unique key: one row per key, be it committed or only flushed.       *)
Claimed(r) == Exists(r) \/ request[r].pc \in {"inserted", "enqueued"}

OneRowPerKey ==
  \A q, r \in Requests : Key(q) = Key(r) /\ Claimed(q) /\ Claimed(r) => q = r

AnswersExist ==
  \A r \in Requests :
    answer[r] \in Requests => Exists(answer[r]) /\ Key(answer[r]) = Key(r)

(* Nobody but the worker updates a refund: what it read is so still.  An   *)
(* event it has dispatched has its delivery job.                           *)
WorkerIsRight ==
  /\ worker.pc \in {"found", "completing", "failing"} =>
       refund[worker.job].status = "pending"
  /\ worker.pc = "return" => refund[worker.job].status \in Settled
  /\ worker.pc \in {"found", "completing"} =>
       \A e \in worker.sent : deliveries[worker.job, e] >= 1

(* A refund has its job from the time before its commit on.                *)
JobFollowsRefund ==
  \A r \in Requests :
    refund[r].status = "pending" \/ request[r].pc = "enqueued" =>
      life[r] \in {"queued", "running", "dead"}

(* However many requests there are, finitely many have made a refund.      *)
Rows == {r \in Requests : Exists(r)}

(* On a payment where no two requests overlap one decides at a time, and   *)
(* what it decides fits on top of what is refunded.                        *)
OneDecides ==
  \A p \in Payments \ overlapped :
    /\ Refunded(p) <= Total
    /\ \A r \in Requests : Deciding(r) /\ request[r].payment = p =>
         /\ Refunded(p) + request[r].amount <= Total
         /\ \A q \in Requests : Deciding(q) /\ request[q].payment = p => q = r

IndInv ==
  /\ TypeOK
  /\ RowFollowsRequest
  /\ OneRowPerKey
  /\ AnswersExist
  /\ WorkerIsRight
  /\ AnnouncedOnce
  /\ JobFollowsRefund
  /\ IsFiniteSet(Rows)
  /\ OneDecides

-----------------------------------------------------------------------------
(* What an assignment to some fields does to its record.                   *)

RequestType ==
  [pc : {"new", "unknown", "allowed", "inserted", "enqueued", "done"},
   payment : Payments, key : Keys, asked : Amounts \cup {Full}, amount : 0..Total]

RefundType ==
  [status : {"none"}, amount : {0}] \cup
  [status : {"pending"} \cup Settled, amount : 1..Total]

WorkerType ==
  [pc : {"idle", "missing", "found", "completing", "failing", "return", "ended"},
   job : Requests, sent : SUBSET Endpoints]

(* A request that goes on keeps its payment, key and amount.               *)
LEMMA Moves ==
  ASSUME TypeOK, NEW r \in Requests,
         NEW pc \in {"new", "unknown", "allowed", "inserted", "enqueued", "done"},
         Goto(r, pc)
  PROVE  /\ request' \in [Requests -> RequestType]
         /\ request'[r].pc = pc
         /\ \A q \in Requests : /\ request'[q].payment = request[q].payment
                                /\ request'[q].key = request[q].key
                                /\ request'[q].asked = request[q].asked
                                /\ request'[q].amount = request[q].amount
         /\ \A q \in Requests \ {r} : request'[q].pc = request[q].pc
<1>1. request \in [Requests -> RequestType] /\ request[r] \in RequestType
  BY DEF TypeOK, RequestType
<1> DEFINE new == [pc |-> pc, payment |-> request[r].payment, key |-> request[r].key,
                   asked |-> request[r].asked, amount |-> request[r].amount]
<1>2. [request[r] EXCEPT !.pc = pc] = new
  BY <1>1 DEF RequestType
<1>3. request' = [request EXCEPT ![r] = [request[r] EXCEPT !.pc = pc]]
  BY <1>1 DEF Goto
<1>4. new \in RequestType
  BY <1>1 DEF RequestType
<1>5. request' = [request EXCEPT ![r] = new]
  BY <1>2, <1>3
<1>6. request'[r] = new /\ \A q \in Requests \ {r} : request'[q] = request[q]
  BY <1>1, <1>5
<1>7. request' \in [Requests -> RequestType]
  BY <1>1, <1>4, <1>5
<1> QED
  BY <1>6, <1>7

(* The amount is decided with the step.                                    *)
LEMMA Decides ==
  ASSUME TypeOK, NEW r \in Requests, NEW amount \in 0..Total,
         request' = [request EXCEPT ![r].pc = "allowed", ![r].amount = amount]
  PROVE  /\ request' \in [Requests -> RequestType]
         /\ request'[r].pc = "allowed" /\ request'[r].amount = amount
         /\ \A q \in Requests : /\ request'[q].payment = request[q].payment
                                /\ request'[q].key = request[q].key
         /\ \A q \in Requests \ {r} : request'[q] = request[q]
<1>1. request \in [Requests -> RequestType] /\ request[r] \in RequestType
  BY DEF TypeOK, RequestType
<1> DEFINE f == [request EXCEPT ![r].pc = "allowed"]
           mid == [pc |-> "allowed", payment |-> request[r].payment,
                   key |-> request[r].key, asked |-> request[r].asked,
                   amount |-> request[r].amount]
           new == [pc |-> "allowed", payment |-> request[r].payment,
                   key |-> request[r].key, asked |-> request[r].asked,
                   amount |-> amount]
<1>2. request' = [f EXCEPT ![r].amount = amount]
  BY <1>1
<1>3. f = [request EXCEPT ![r] = mid]
  <2>1. f = [request EXCEPT ![r] = [request[r] EXCEPT !.pc = "allowed"]]
    BY <1>1
  <2>2. [request[r] EXCEPT !.pc = "allowed"] = mid
    BY <1>1 DEF RequestType
  <2> QED
    BY <2>1, <2>2
<1> HIDE DEF f
<1>4. f[r] = mid /\ DOMAIN f = Requests
      /\ \A q \in Requests \ {r} : f[q] = request[q]
  BY <1>1, <1>3
<1>5. request'[r] = [f[r] EXCEPT !.amount = amount]
      /\ DOMAIN request' = Requests
      /\ \A q \in Requests \ {r} : request'[q] = f[q]
  BY <1>2, <1>4
<1>6. [mid EXCEPT !.amount = amount] = new
  OBVIOUS
<1>7. request'[r] = new /\ \A q \in Requests \ {r} : request'[q] = request[q]
  BY <1>4, <1>5, <1>6
<1>8. new \in RequestType
  BY <1>1 DEF RequestType
<1>9. request' \in [Requests -> RequestType]
  <2>1. request' = [q \in Requests |-> request'[q]]
    BY <1>2, <1>4
  <2>2. \A q \in Requests : request'[q] \in RequestType
    BY <1>1, <1>7, <1>8
  <2> HIDE DEF new
  <2> QED
    BY <2>1, <2>2
<1> QED
  BY <1>7, <1>9

(* The worker goes on.                                                     *)
LEMMA WorkerMoves ==
  ASSUME TypeOK
  PROVE  /\ worker \in WorkerType
         /\ \A pc : WorkerGoto(pc) =>
              worker' = [pc |-> pc, job |-> worker.job, sent |-> worker.sent]
         /\ \A e \in Endpoints : worker' = [worker EXCEPT !.sent = @ \cup {e}] =>
              worker' = [pc |-> worker.pc, job |-> worker.job, sent |-> worker.sent \cup {e}]
BY DEF TypeOK, WorkerType, WorkerGoto

(* A refund that exists gets another status.                               *)
LEMMA StatusChanges ==
  ASSUME TypeOK, NEW r \in Requests, refund[r].status = "pending",
         NEW status \in Settled,
         refund' = [refund EXCEPT ![r].status = status]
  PROVE  /\ refund' \in [Requests -> RefundType]
         /\ refund'[r].status = status /\ refund'[r].amount = refund[r].amount
         /\ \A q \in Requests \ {r} : refund'[q] = refund[q]
<1>1. refund \in [Requests -> RefundType] /\ refund[r] \in RefundType
  BY DEF TypeOK, RefundType
<1> DEFINE new == [status |-> status, amount |-> refund[r].amount]
<1>2. refund[r] \in [status : {"pending"} \cup Settled, amount : 1..Total]
  BY <1>1 DEF RefundType
<1>3. [refund[r] EXCEPT !.status = status] = new
  BY <1>2
<1>4. refund' = [refund EXCEPT ![r] = [refund[r] EXCEPT !.status = status]]
  BY <1>1
<1>5. refund' = [refund EXCEPT ![r] = new]
  BY <1>3, <1>4
<1>6. new \in RefundType
  BY <1>2 DEF RefundType
<1>7. refund' \in [Requests -> RefundType]
  BY <1>1, <1>5, <1>6
<1>8. refund'[r] = new /\ \A q \in Requests \ {r} : refund'[q] = refund[q]
  BY <1>1, <1>5
<1> QED
  BY <1>7, <1>8

(* A crash ends the requests that have begun.                              *)
LEMMA RequestsCrash ==
  ASSUME TypeOK, Crash
  PROVE  /\ request' \in [Requests -> RequestType]
         /\ \A r \in Requests :
              /\ request'[r].pc = IF Started(r) THEN "done" ELSE request[r].pc
              /\ request'[r].payment = request[r].payment
              /\ request'[r].key = request[r].key
              /\ request'[r].amount = request[r].amount
<1>1. ASSUME NEW r \in Requests
      PROVE  /\ request'[r] \in RequestType
             /\ request'[r].pc = IF Started(r) THEN "done" ELSE request[r].pc
             /\ request'[r].payment = request[r].payment
             /\ request'[r].key = request[r].key
             /\ request'[r].amount = request[r].amount
  <2> DEFINE pc == IF Started(r) THEN "done" ELSE request[r].pc
  <2>1. request'[r] = [request[r] EXCEPT !.pc = pc]
    BY DEF Crash
  <2>2. request[r] \in RequestType
    BY DEF TypeOK, RequestType
  <2>3. pc \in {"new", "unknown", "allowed", "inserted", "enqueued", "done"}
    BY <2>2 DEF RequestType
  <2> HIDE DEF pc
  <2>4. request'[r] = [pc |-> pc, payment |-> request[r].payment,
                       key |-> request[r].key, asked |-> request[r].asked,
                       amount |-> request[r].amount]
    BY <2>1, <2>2 DEF RequestType
  <2>5. request'[r] \in RequestType
    BY <2>2, <2>3, <2>4 DEF RequestType
  <2> QED
    BY <2>4, <2>5 DEF pc
<1>2. request' = [r \in Requests |-> request'[r]]
  BY DEF Crash
<1> QED
  BY <1>1, <1>2

-----------------------------------------------------------------------------
(* Units of money.                                                         *)

(* The units refunded are finitely many.                                   *)
LEMMA UnitsAreFinite ==
  ASSUME RefundsAssumption, TypeOK, IsFiniteSet(Rows), NEW p
  PROVE  /\ IsFiniteSet(UnitsRefunded(p, {"pending", "completed"}))
         /\ Refunded(p) \in Nat
<1>1. Total \in Int /\ 1 \in Int
  BY DEF RefundsAssumption
<1>2. IsFiniteSet(1..Total)
  BY <1>1, FS_Interval
<1>3. IsFiniteSet(Rows \X (1..Total))
  BY <1>2, FS_Product
<1>4. UnitsRefunded(p, {"pending", "completed"}) \subseteq Rows \X (1..Total)
  BY DEF UnitsRefunded, Rows, Exists
<1>5. IsFiniteSet(UnitsRefunded(p, {"pending", "completed"}))
  BY <1>3, <1>4, FS_Subset
<1> QED
  BY <1>5, FS_CardinalityType DEF Refunded

(* A step that leaves rows and payments alone leaves the sums alone.       *)
LEMMA SameUnits ==
  ASSUME UNCHANGED refund, \A r \in Requests : request'[r].payment = request[r].payment
  PROVE  \A p : Refunded(p)' = Refunded(p)
<1> SUFFICES ASSUME NEW p
             PROVE  Refunded(p)' = Refunded(p)
  OBVIOUS
<1>1. UnitsRefunded(p, {"pending", "completed"})' = UnitsRefunded(p, {"pending", "completed"})
  BY DEF UnitsRefunded
<1> QED
  BY <1>1 DEF Refunded

(* A pending refund that ends adds nothing to any sum.                     *)
LEMMA EndedUnits ==
  ASSUME RefundsAssumption, TypeOK, IsFiniteSet(Rows), NEW r \in Requests,
         refund[r].status = "pending", refund'[r].amount = refund[r].amount,
         \A q \in Requests \ {r} : refund'[q] = refund[q],
         \A q \in Requests : request'[q].payment = request[q].payment
  PROVE  \A p : Refunded(p)' \in Nat /\ Refunded(p)' <= Refunded(p)
<1> SUFFICES ASSUME NEW p
             PROVE  Refunded(p)' \in Nat /\ Refunded(p)' <= Refunded(p)
  OBVIOUS
<1>1. UnitsRefunded(p, {"pending", "completed"})'
        \subseteq UnitsRefunded(p, {"pending", "completed"})
  BY DEF UnitsRefunded
<1>2. IsFiniteSet(UnitsRefunded(p, {"pending", "completed"}))
  BY UnitsAreFinite
<1> QED
  BY <1>1, <1>2, FS_Subset, FS_CardinalityType DEF Refunded

(* A new row adds its amount to the sum of its payment.                    *)
LEMMA NewUnits ==
  ASSUME RefundsAssumption, TypeOK, IsFiniteSet(Rows), NEW r \in Requests,
         ~Exists(r), NEW amount \in 1..Total,
         refund' = [refund EXCEPT ![r] = [status |-> "pending", amount |-> amount]],
         \A q \in Requests : request'[q].payment = request[q].payment
  PROVE  \A p : /\ p = request[r].payment => Refunded(p)' = Refunded(p) + amount
                /\ p # request[r].payment => Refunded(p)' = Refunded(p)
<1> SUFFICES ASSUME NEW p
             PROVE  /\ p = request[r].payment => Refunded(p)' = Refunded(p) + amount
                    /\ p # request[r].payment => Refunded(p)' = Refunded(p)
  OBVIOUS
<1> DEFINE Old == UnitsRefunded(p, {"pending", "completed"})
           Added == {r} \X (1..amount)
<1>1. /\ refund'[r] = [status |-> "pending", amount |-> amount]
      /\ \A q \in Requests \ {r} : refund'[q] = refund[q]
  BY DEF TypeOK
<1>2. refund[r].status \notin {"pending", "completed"}
  BY DEF Exists
<1>3. Total \in Nat /\ amount \in Nat /\ amount >= 1
  BY DEF RefundsAssumption
<1>4. IsFiniteSet(Old) /\ Cardinality(Old) \in Nat
  BY UnitsAreFinite DEF Refunded
<1>5. CASE p # request[r].payment
  <2>1. Old' = Old
    BY <1>1, <1>5 DEF UnitsRefunded
  <2> QED
    BY <1>4, <1>5, <2>1 DEF Refunded
<1>6. CASE p = request[r].payment
  <2>1. Old' = Old \cup Added
    <3>1. \A u : u \in Old' <=> u \in Requests \X (1..Total)
                                /\ \/ u[1] # r /\ u \in Old
                                   \/ u[1] = r /\ u[2] <= amount
      BY <1>1, <1>6 DEF UnitsRefunded
    <3>2. \A u : u \in Added <=> u \in Requests \X (1..Total)
                                 /\ u[1] = r /\ u[2] <= amount
      BY <1>3
    <3>3. \A u \in Old : u[1] # r /\ u \in Requests \X (1..Total)
      BY <1>2 DEF UnitsRefunded
    <3> HIDE DEF Old, Added
    <3> QED
      BY <3>1, <3>2, <3>3
  <2>2. Old \cap Added = {}
    BY <1>2 DEF UnitsRefunded
  <2>3. IsFiniteSet(Added) /\ Cardinality(Added) = amount
    <3>1. IsFiniteSet({r}) /\ Cardinality({r}) = 1
      BY FS_Singleton
    <3>2. IsFiniteSet(1..amount) /\ Cardinality(1..amount) = amount
      <4>1. 1 \in Int /\ amount \in Int
        BY <1>3
      <4>2. /\ IsFiniteSet(1..amount)
            /\ Cardinality(1..amount) = IF 1 > amount THEN 0 ELSE amount - 1 + 1
        BY <4>1, FS_Interval
      <4> QED
        BY <1>3, <4>2
    <3>3. /\ IsFiniteSet({r} \X (1..amount))
          /\ Cardinality({r} \X (1..amount)) = Cardinality({r}) * Cardinality(1..amount)
      BY <3>1, <3>2, FS_Product, ZenonT(30)
    <3>4. 1 * amount = amount
      BY <1>3
    <3> QED
      BY <3>1, <3>2, <3>3, <3>4
  <2> HIDE DEF Old, Added
  <2>4. Cardinality(Old') = Cardinality(Old) + amount
    <3>1. Cardinality(Old \cup Added) =
            Cardinality(Old) + Cardinality(Added) - Cardinality(Old \cap Added)
      BY <1>4, <2>3, FS_Union
    <3>2. Cardinality(Old \cap Added) = 0
      BY <2>2, FS_EmptySet
    <3> QED
      BY <1>3, <1>4, <2>1, <2>3, <3>1, <3>2
  <2> QED
    BY <1>6, <2>4 DEF Refunded, Old
<1> HIDE DEF Old, Added
<1> QED
  BY <1>5, <1>6

-----------------------------------------------------------------------------
(* Types.                                                                  *)

LEMMA SumIsNat ==
  ASSUME RefundsAssumption, IndInv
  PROVE  \A p : Refunded(p) \in Nat
BY UnitsAreFinite DEF IndInv

(* What is decided is a positive part of what remains.                     *)
LEMMA AmountFits ==
  ASSUME RefundsAssumption, IndInv, NEW r \in Requests,
         Allowed(r, Refunded(request[r].payment))
  PROVE  LET before == Refunded(request[r].payment)
         IN  /\ AmountOf(r, before) \in 1..Total
             /\ before + AmountOf(r, before) <= Total
<1>1. Refunded(request[r].payment) \in Nat /\ Total \in Nat
  BY SumIsNat DEF RefundsAssumption
<1>2. request[r].asked = Full \/ request[r].asked \in Nat \ {0}
  BY DEF IndInv, TypeOK, RefundsAssumption
<1> QED
  BY <1>1, <1>2 DEF Allowed, AmountOf

(* The types survive every step from IndInv.                               *)
LEMMA TypeStep ==
  RefundsAssumption /\ IndInv /\ [Next]_vars => TypeOK'
<1> SUFFICES ASSUME RefundsAssumption, IndInv, [Next]_vars
             PROVE  TypeOK'
  OBVIOUS
<1>a. TypeOK
  BY DEF IndInv
<1> DEFINE Rest ==
             /\ paid \subseteq Payments
             /\ answer \in [Requests -> Requests \cup {None, Refused, Failure}]
             /\ events \in [Requests \X Endpoints -> Nat]
             /\ deliveries \in [Requests \X Endpoints -> Nat]
             /\ overlapped \subseteq Payments
             /\ crashes \in 0..MaxCrashes
             /\ dbErrors \in 0..MaxDbErrors
           Jobs ==
             /\ life \in [Requests -> {"absent", "queued", "running", "completed", "dead"}]
             /\ attempts \in [Requests -> 0..MaxAttempts]
<1>b. /\ MaxAttempts \in Nat /\ MaxCrashes \in Nat /\ MaxDbErrors \in Nat /\ Total \in Nat
  BY DEF RefundsAssumption
<1>c. /\ Rest /\ Jobs /\ request \in [Requests -> RequestType]
      /\ refund \in [Requests -> RefundType] /\ worker \in WorkerType
  BY <1>a DEF TypeOK, RequestType, RefundType, WorkerType
<1>d. (/\ Rest' /\ Jobs' /\ request' \in [Requests -> RequestType]
       /\ refund' \in [Requests -> RefundType] /\ worker' \in WorkerType) => TypeOK'
  BY DEF TypeOK, RequestType, RefundType, WorkerType
<1> HIDE DEF Rest, Jobs
<1>e. worker.job \in Requests
  BY <1>c DEF WorkerType
<1>f. \A pc \in {"idle", "missing", "found", "completing", "failing", "return", "ended"} :
        WorkerGoto(pc) => worker' \in WorkerType
  BY <1>a, <1>c, WorkerMoves DEF WorkerType
<1>g. \A r \in Requests :
        Queue!Create(r) \/ Queue!Begin(r) \/ Queue!Succeed(r) \/ Queue!Raise(r) => Jobs'
  BY <1>b, <1>c DEF Jobs, Queue!Create, Queue!Begin, Queue!Succeed, Queue!Raise
<1>h. UNCHANGED jobVars => Jobs'
  BY <1>c DEF Jobs, jobVars
<1> USE DEF requestVars, eventVars, faultVars
<1>1. ASSUME NEW p \in Payments, PaymentSucceeds(p)
      PROVE  TypeOK'
  BY <1>1, <1>c, <1>h, <1>d DEF PaymentSucceeds, Rest
<1>2. ASSUME NEW r \in Requests, CheckKey(r)
      PROVE  TypeOK'
  <2>1. request' \in [Requests -> RequestType]
    BY <1>2, <1>a, Moves DEF CheckKey, Answer
  <2>2. answer' \in [Requests -> Requests \cup {None, Refused, Failure}]
    BY <1>2, <1>c DEF CheckKey, Answer, Rest
  <2> QED
    BY <1>2, <1>c, <1>h, <1>d, <2>1, <2>2 DEF CheckKey, Rest
<1>3. ASSUME NEW r \in Requests, CheckAmount(r)
      PROVE  TypeOK'
  <2>1. request' \in [Requests -> RequestType]
    <3> DEFINE before == Refunded(request[r].payment)
    <3>1. CASE request[r].payment \in paid /\ Allowed(r, before)
      <4>1. AmountOf(r, before) \in 0..Total
        BY <3>1, <1>b, AmountFits
      <4>2. request' = [request EXCEPT ![r].pc = "allowed",
                                       ![r].amount = AmountOf(r, before)]
        BY <1>3, <3>1 DEF CheckAmount
      <4> HIDE DEF before
      <4> QED
        BY <1>a, <4>1, <4>2, Decides
    <3>2. CASE ~(request[r].payment \in paid /\ Allowed(r, before))
      BY <1>3, <1>a, <3>2, Moves DEF CheckAmount, Answer
    <3> QED
      BY <3>1, <3>2
  <2>2. /\ answer' \in [Requests -> Requests \cup {None, Refused, Failure}]
        /\ overlapped' \subseteq Payments
    BY <1>3, <1>c DEF CheckAmount, Answer, Rest, RequestType
  <2> QED
    BY <1>3, <1>c, <1>h, <1>d, <2>1, <2>2 DEF CheckAmount, Rest
<1>4. ASSUME NEW r \in Requests,
             InsertRefund(r) \/ InsertRefused(r) \/ EnqueueProcessRefund(r)
      PROVE  TypeOK'
  <2>1. request' \in [Requests -> RequestType]
    BY <1>4, <1>a, Moves DEF InsertRefund, InsertRefused, EnqueueProcessRefund, Answer
  <2>2. answer' \in [Requests -> Requests \cup {None, Refused, Failure}]
    BY <1>4, <1>c DEF InsertRefund, InsertRefused, EnqueueProcessRefund, Answer, Rest
  <2>3. /\ Jobs' /\ UNCHANGED <<paid, refund, overlapped, worker, eventVars, faultVars>>
    BY <1>4, <1>g, <1>h DEF InsertRefund, InsertRefused, EnqueueProcessRefund
  <2> QED
    BY <1>c, <1>d, <2>1, <2>2, <2>3 DEF Rest
<1>5. ASSUME NEW r \in Requests, CommitRefund(r)
      PROVE  TypeOK'
  <2>1. request' \in [Requests -> RequestType]
    BY <1>5, <1>a, Moves DEF CommitRefund, Answer
  <2>2. answer' \in [Requests -> Requests \cup {None, Refused, Failure}]
    BY <1>5, <1>c DEF CommitRefund, Answer, Rest
  <2>3. refund' \in [Requests -> RefundType]
    <3>1. request[r].amount \in 1..Total
      BY <1>5 DEF IndInv, RowFollowsRequest, CommitRefund, Deciding
    <3>2. [status |-> "pending", amount |-> request[r].amount] \in RefundType
      BY <3>1 DEF RefundType
    <3> QED
      BY <1>5, <1>c, <3>2 DEF CommitRefund
  <2> QED
    BY <1>5, <1>c, <1>h, <1>d, <2>1, <2>2, <2>3 DEF CommitRefund, Rest
<1>6. ASSUME NEW r \in Requests, StartJob(r)
      PROVE  TypeOK'
  <2>1. Found(r) \in {"missing", "found", "return"}
    <3>1. refund[r].status \in {"none", "pending", "completed", "failed"}
      BY <1>c DEF RefundType, Settled
    <3> QED
      BY <3>1 DEF Found, Exists, Settled
  <2>2. worker' \in WorkerType
    BY <1>6, <2>1 DEF StartJob, WorkerType
  <2> QED
    BY <1>6, <1>c, <1>g, <1>d, <2>2 DEF StartJob, Rest
<1>7. CASE RefundMissing \/ FinishJob
  <2>1. /\ Jobs' /\ WorkerGoto("idle")
        /\ UNCHANGED <<paid, refund, requestVars, eventVars, faultVars>>
    BY <1>7, <1>e, <1>g DEF RefundMissing, EndMissing, FinishJob
  <2> QED
    BY <1>c, <1>d, <1>f, <2>1 DEF Rest
<1>8. CASE ProcessorAnswers
  BY <1>8, <1>c, <1>d, <1>f, <1>h DEF ProcessorAnswers, Rest
<1>9. ASSUME NEW e \in Endpoints, Dispatch(e)
      PROVE  TypeOK'
  <2>1. worker' \in WorkerType
    BY <1>9, <1>a, <1>c, WorkerMoves DEF Dispatch, WorkerType
  <2>2. deliveries' \in [Requests \X Endpoints -> Nat]
    BY <1>9, <1>c, <1>e DEF Dispatch, Rest
  <2> QED
    BY <1>9, <1>c, <1>d, <1>h, <2>1, <2>2 DEF Dispatch, Rest
<1>10. CASE CommitCompleted
  <2>1. refund' \in [Requests -> RefundType]
    BY <1>10, <1>a, <1>e, StatusChanges
    DEF CommitCompleted, IndInv, WorkerIsRight, Settled
  <2>2. events' \in [Requests \X Endpoints -> Nat]
    BY <1>10, <1>c DEF CommitCompleted, Rest
  <2> QED
    BY <1>10, <1>c, <1>d, <1>f, <1>h, <2>1, <2>2 DEF CommitCompleted, Rest
<1>11. CASE CommitFailed
  <2>1. refund' \in [Requests -> RefundType]
    BY <1>11, <1>a, <1>e, StatusChanges
    DEF CommitFailed, AtFailure, IndInv, WorkerIsRight, Settled
  <2> QED
    BY <1>11, <1>c, <1>d, <1>f, <1>h, <2>1 DEF CommitFailed, Rest
<1>12. ASSUME NEW r \in Requests, RequestDbError(r)
       PROVE  TypeOK'
  <2>1. request' \in [Requests -> RequestType]
    BY <1>12, <1>a, Moves DEF RequestDbError, Answer
  <2>2. Rest'
    BY <1>12, <1>b, <1>c DEF RequestDbError, Answer, Rest
  <2> QED
    BY <1>12, <1>c, <1>d, <1>h, <2>1, <2>2 DEF RequestDbError
<1>13. CASE WorkerDbError
  BY <1>13, <1>b, <1>c, <1>d, <1>e, <1>f, <1>g DEF WorkerDbError, Rest
<1>14. CASE Crash
  <2>1. request' \in [Requests -> RequestType]
    BY <1>14, <1>a, RequestsCrash
  <2>2. /\ crashes' \in 0..MaxCrashes /\ WorkerGoto("idle") /\ UNCHANGED jobVars
        /\ UNCHANGED <<paid, refund, answer, overlapped, events, deliveries, dbErrors>>
    BY <1>14, <1>b, <1>c DEF Crash, Rest
  <2>3. Rest'
    BY <1>c, <2>2 DEF Rest
  <2> QED
    BY <1>c, <1>d, <1>f, <1>h, <2>1, <2>2, <2>3
<1>16. CASE ConsumerEnds
  BY <1>16, <1>b, <1>c, <1>d, <1>f, <1>h DEF ConsumerEnds, Rest
<1>15. CASE UNCHANGED vars
  BY <1>15, <1>c, <1>d, <1>h DEF vars, Rest
<1> QED
  BY <1>1, <1>2, <1>3, <1>4, <1>5, <1>6, <1>7, <1>8, <1>9, <1>10, <1>11, <1>12, <1>13,
     <1>14, <1>15, <1>16
  DEF Next, RequestStep, WorkerStep

-----------------------------------------------------------------------------
(* Every step preserves the other parts of IndInv.                         *)

Rest ==
  /\ RowFollowsRequest
  /\ OneRowPerKey
  /\ AnswersExist
  /\ WorkerIsRight
  /\ AnnouncedOnce
  /\ JobFollowsRefund
  /\ IsFiniteSet(Rows)
  /\ OneDecides

(* Rows, events and the worker as they were.                               *)
LEMMA SameRows ==
  ASSUME IndInv, UNCHANGED <<refund, eventVars>>
  PROVE  /\ AnnouncedOnce' /\ IsFiniteSet(Rows)'
         /\ worker' = worker => WorkerIsRight'
         /\ \A r : Exists(r)' = Exists(r)
<1>1. Rows' = Rows
  BY DEF Rows, Exists
<1>2. AnnouncedOnce' /\ IsFiniteSet(Rows)'
  BY <1>1 DEF IndInv, AnnouncedOnce, eventVars
<1>3. worker' = worker => WorkerIsRight'
  BY DEF IndInv, WorkerIsRight, eventVars
<1>4. \A r : Exists(r)' = Exists(r)
  BY DEF Exists
<1> QED
  BY <1>2, <1>3, <1>4

(* A request that neither decides nor inserts, and is answered with an     *)
(* error or with the refund of its key, if it is answered.                 *)
LEMMA QuietRequest ==
  ASSUME IndInv, TypeOK', NEW r \in Requests, request[r].pc # "done",
         NEW pc \in {"unknown", "done"}, Goto(r, pc),
         UNCHANGED <<refund, overlapped, worker, eventVars, jobVars>>,
         \A q \in Requests \ {r} : answer'[q] = answer[q],
         \/ answer'[r] \in {answer[r], Refused, Failure}
         \/ answer'[r] \in Requests /\ Exists(answer'[r]) /\ Key(answer'[r]) = Key(r),
         Refused \notin Requests /\ Failure \notin Requests
  PROVE  Rest'
<1>1. /\ request'[r].pc = pc
      /\ \A q \in Requests : /\ request'[q].payment = request[q].payment
                             /\ request'[q].key = request[q].key
                             /\ request'[q].amount = request[q].amount
      /\ \A q \in Requests \ {r} : request'[q].pc = request[q].pc
  BY Moves DEF IndInv
<1>2. /\ AnnouncedOnce' /\ IsFiniteSet(Rows)' /\ WorkerIsRight'
      /\ \A q : Exists(q)' = Exists(q)
  BY SameRows
<1>3. /\ ~Exists(r)
      /\ \A q \in Requests : Deciding(q)' => Deciding(q)
      /\ \A q \in Requests : Claimed(q)' => Claimed(q)
  BY <1>1, <1>2 DEF IndInv, RowFollowsRequest, Deciding, Claimed
<1>4. RowFollowsRequest'
  BY <1>1, <1>2, <1>3 DEF IndInv, RowFollowsRequest
<1>5. OneRowPerKey'
  BY <1>1, <1>3 DEF IndInv, OneRowPerKey, Key
<1>6. AnswersExist'
  <2> SUFFICES ASSUME NEW q \in Requests, answer'[q] \in Requests
               PROVE  (Exists(answer[q]) /\ Key(answer[q]) = Key(q))'
    BY DEF AnswersExist
  <2>1. refund'[answer'[q]].status # "none" /\ request[answer'[q]].key = request[q].key
    BY DEF IndInv, AnswersExist, Exists, Key
  <2> QED
    BY <1>1, <2>1 DEF Exists, Key
<1>7. JobFollowsRefund'
  BY <1>1 DEF IndInv, JobFollowsRefund, jobVars
<1>8. OneDecides'
  <2>1. \A p : Refunded(p)' = Refunded(p)
    BY <1>1, SameUnits
  <2> QED
    BY <1>1, <1>3, <2>1 DEF IndInv, OneDecides
<1> QED
  BY <1>2, <1>4, <1>5, <1>6, <1>7, <1>8 DEF Rest

LEMMA QuietRequestStep ==
  ASSUME RefundsAssumption, IndInv, TypeOK', NEW r \in Requests,
         \/ CheckKey(r) \/ InsertRefused(r) \/ RequestDbError(r)
         \/ CheckAmount(r) /\ Answer(r, Refused)
  PROVE  Rest'
<1>1. PICK pc \in {"unknown", "done"} : Goto(r, pc)
  BY DEF CheckKey, InsertRefused, RequestDbError, Answer
<1>2. /\ request[r].pc # "done"
      /\ UNCHANGED <<refund, worker, eventVars, jobVars>>
  BY DEF CheckKey, InsertRefused, InsertMayRun, RequestDbError, Started, CheckAmount
<1>3. /\ \A q \in Requests \ {r} : answer'[q] = answer[q]
      /\ \/ answer'[r] \in {answer[r], Refused, Failure}
         \/ answer'[r] \in Requests /\ Exists(answer'[r]) /\ Key(answer'[r]) = Key(r)
  BY DEF CheckKey, InsertRefused, RequestDbError, CheckAmount, Answer, IndInv, TypeOK
<1>4. overlapped' = overlapped
  <2>1. CASE CheckAmount(r) /\ Answer(r, Refused)
    <3>1. request'[r].pc = "done"
      BY <2>1, Moves DEF Answer, IndInv
    <3>2. CASE /\ request[r].payment \in paid
               /\ Allowed(r, Refunded(request[r].payment))
      <4> DEFINE amount == AmountOf(r, Refunded(request[r].payment))
      <4>1. request' = [request EXCEPT ![r].pc = "allowed", ![r].amount = amount]
        BY <2>1, <3>2 DEF CheckAmount
      <4>2. amount \in 0..Total
        BY <3>2, AmountFits DEF RefundsAssumption
      <4> HIDE DEF amount
      <4> QED
        BY <3>1, <4>1, <4>2, Decides DEF IndInv
    <3> QED
      BY <2>1, <3>2 DEF CheckAmount
  <2> QED
    BY <2>1 DEF CheckKey, InsertRefused, RequestDbError
<1>5. Refused \notin Requests /\ Failure \notin Requests
  BY DEF RefundsAssumption
<1> QED
  BY <1>1, <1>2, <1>3, <1>4, <1>5, QuietRequest

(* Where another request of the payment is deciding, the payment is noted  *)
(* as overlapped; elsewhere this one is the only one, and it fits.         *)
LEMMA AllowedStep ==
  ASSUME RefundsAssumption, IndInv, TypeOK', NEW r \in Requests, CheckAmount(r),
         request[r].payment \in paid, Allowed(r, Refunded(request[r].payment))
  PROVE  Rest'
<1> DEFINE p == request[r].payment
           amount == AmountOf(r, Refunded(p))
<1>1. /\ request[r].pc = "unknown"
      /\ request' = [request EXCEPT ![r].pc = "allowed", ![r].amount = amount]
      /\ overlapped' = overlapped \cup
           {q \in {p} : \E s \in Requests : Deciding(s) /\ request[s].payment = q}
      /\ UNCHANGED <<answer, refund, worker, eventVars, jobVars>>
  BY DEF CheckAmount
<1>2. amount \in 1..Total /\ amount \in 0..Total /\ Refunded(p) + amount <= Total
  BY AmountFits DEF RefundsAssumption
<1> HIDE DEF amount
<1>3. /\ request'[r].pc = "allowed" /\ request'[r].amount = amount
      /\ \A q \in Requests : /\ request'[q].payment = request[q].payment
                             /\ request'[q].key = request[q].key
      /\ \A q \in Requests \ {r} : request'[q] = request[q]
  BY <1>1, <1>2, Decides DEF IndInv
<1>4. /\ AnnouncedOnce' /\ IsFiniteSet(Rows)' /\ WorkerIsRight'
      /\ \A q : Exists(q)' = Exists(q)
  BY <1>1, SameRows
<1>5. ~Exists(r) /\ \A q \in Requests : Claimed(q)' => Claimed(q)
  BY <1>1, <1>3, <1>4 DEF IndInv, RowFollowsRequest, Claimed
<1>6. RowFollowsRequest'
  BY <1>2, <1>3, <1>4, <1>5 DEF IndInv, RowFollowsRequest, Deciding
<1>7. OneRowPerKey'
  BY <1>3, <1>5 DEF IndInv, OneRowPerKey, Key
<1>8. AnswersExist'
  <2> SUFFICES ASSUME NEW q \in Requests, answer'[q] \in Requests
               PROVE  (Exists(answer[q]) /\ Key(answer[q]) = Key(q))'
    BY DEF AnswersExist
  <2>1. refund[answer[q]].status # "none" /\ request[answer[q]].key = request[q].key
    BY <1>1 DEF IndInv, AnswersExist, Exists, Key
  <2> QED
    BY <1>1, <1>3, <2>1, ZenonT(60) DEF Exists, Key
<1>9. JobFollowsRefund'
  BY <1>1, <1>3 DEF IndInv, JobFollowsRefund, jobVars
<1>10. OneDecides'
  <2>1. \A q : Refunded(q)' = Refunded(q)
    BY <1>1, <1>3, SameUnits
  <2> SUFFICES ASSUME NEW x \in Payments \ overlapped'
               PROVE  /\ Refunded(x) <= Total
                      /\ \A s \in Requests : Deciding(s)' /\ request[s].payment = x =>
                           /\ Refunded(x) + request'[s].amount <= Total
                           /\ \A q \in Requests :
                                Deciding(q)' /\ request[q].payment = x => q = s
    BY <1>3, <2>1 DEF OneDecides
  <2>2. x \notin overlapped /\ Refunded(x) <= Total
    BY <1>1 DEF IndInv, OneDecides
  <2>3. \A s \in Requests \ {r} : Deciding(s)' => Deciding(s)
    BY <1>3 DEF Deciding
  <2>4. CASE x = p
    <3>1. \A s \in Requests : Deciding(s) => request[s].payment # p
      BY <1>1, <2>4
    <3> QED
      BY <1>2, <1>3, <2>2, <2>3, <2>4, <3>1
  <2>5. CASE x # p
    BY <1>3, <2>2, <2>3, <2>5 DEF IndInv, OneDecides
  <2> QED
    BY <2>4, <2>5
<1> QED
  BY <1>4, <1>6, <1>7, <1>8, <1>9, <1>10 DEF Rest

(* The INSERT and the job: the request keeps what it has decided.          *)
LEMMA InsertStep ==
  ASSUME RefundsAssumption, IndInv, TypeOK', NEW r \in Requests,
         InsertRefund(r) \/ EnqueueProcessRefund(r)
  PROVE  Rest'
<1>1. /\ request[r].pc \in {"allowed", "inserted"}
      /\ UNCHANGED <<answer, refund, overlapped, worker, eventVars>>
  BY DEF InsertRefund, InsertMayRun, EnqueueProcessRefund
<1>2. PICK pc \in {"inserted", "enqueued"} :
        /\ Goto(r, pc)
        /\ pc = "enqueued" => EnqueueProcessRefund(r)
        /\ pc = "inserted" => InsertRefund(r)
  BY DEF InsertRefund, EnqueueProcessRefund
<1>3. /\ request'[r].pc = pc
      /\ \A q \in Requests : /\ request'[q].payment = request[q].payment
                             /\ request'[q].key = request[q].key
                             /\ request'[q].amount = request[q].amount
      /\ \A q \in Requests \ {r} : request'[q].pc = request[q].pc
  BY <1>2, Moves DEF IndInv
<1>4. /\ AnnouncedOnce' /\ IsFiniteSet(Rows)' /\ WorkerIsRight'
      /\ \A q : Exists(q)' = Exists(q)
  BY <1>1, SameRows
<1>5. Deciding(r) /\ \A q \in Requests : Deciding(q)' = Deciding(q)
  BY <1>1, <1>3 DEF Deciding
<1>6. RowFollowsRequest'
  BY <1>1, <1>3, <1>4, <1>5 DEF IndInv, RowFollowsRequest
<1>7. OneRowPerKey'
  <2>1. \A q \in Requests \ {r} : Claimed(q)' => Claimed(q)
    BY <1>3, <1>4 DEF Claimed
  <2>2. \A q \in Requests \ {r} : Claimed(q) => Key(q) # Key(r)
    <3>1. CASE pc = "inserted"
      BY <1>2, <3>1 DEF InsertRefund, InsertMayRun, KeyTaken, Claimed
    <3>2. CASE pc = "enqueued"
      BY <1>2, <3>2 DEF EnqueueProcessRefund, IndInv, OneRowPerKey, Claimed
    <3> QED
      BY <3>1, <3>2
  <2> QED
    BY <1>3, <2>1, <2>2 DEF IndInv, OneRowPerKey, Key
<1>8. AnswersExist'
  BY <1>1, <1>3 DEF IndInv, AnswersExist, Exists, Key
<1>9. JobFollowsRefund'
  <2>1. CASE pc = "inserted"
    BY <1>1, <1>2, <1>3, <2>1 DEF InsertRefund, IndInv, JobFollowsRefund, jobVars
  <2>2. CASE pc = "enqueued"
    <3>1. life' = [life EXCEPT ![r] = "queued"]
      BY <1>2, <2>2 DEF EnqueueProcessRefund, Queue!Create
    <3>2. life'[r] = "queued" /\ \A q \in Requests \ {r} : life'[q] = life[q]
      BY <3>1 DEF IndInv, TypeOK
    <3> QED
      BY <1>1, <1>3, <3>2 DEF IndInv, JobFollowsRefund
  <2> QED
    BY <2>1, <2>2
<1>10. OneDecides'
  <2>1. \A p : Refunded(p)' = Refunded(p)
    BY <1>1, <1>3, SameUnits
  <2> QED
    BY <1>1, <1>3, <1>5, <2>1 DEF IndInv, OneDecides
<1> QED
  BY <1>4, <1>6, <1>7, <1>8, <1>9, <1>10 DEF Rest

(* What was decided becomes what is refunded.                              *)
LEMMA CommitStep ==
  ASSUME RefundsAssumption, IndInv, TypeOK', NEW r \in Requests, CommitRefund(r)
  PROVE  Rest'
<1> DEFINE amount == request[r].amount
<1>1. /\ request[r].pc = "enqueued" /\ Goto(r, "done")
      /\ refund' = [refund EXCEPT ![r] = [status |-> "pending", amount |-> amount]]
      /\ answer' = [answer EXCEPT ![r] = r]
      /\ UNCHANGED <<overlapped, worker, events, deliveries, life>>
  BY DEF CommitRefund, Answer, eventVars, jobVars
<1>2. /\ request'[r].pc = "done"
      /\ \A q \in Requests : /\ request'[q].payment = request[q].payment
                             /\ request'[q].key = request[q].key
                             /\ request'[q].amount = request[q].amount
      /\ \A q \in Requests \ {r} : request'[q].pc = request[q].pc
  BY <1>1, Moves DEF IndInv
<1>3. ~Exists(r) /\ Deciding(r) /\ amount \in 1..Total
  BY <1>1 DEF IndInv, RowFollowsRequest, Deciding
<1>4. /\ refund'[r].status = "pending" /\ answer'[r] = r
      /\ \A q \in Requests \ {r} : refund'[q] = refund[q] /\ answer'[q] = answer[q]
  BY <1>1 DEF IndInv, TypeOK
<1>5. /\ Exists(r)'
      /\ \A q \in Requests \ {r} : Exists(q)' = Exists(q)
      /\ \A q \in Requests \ {r} : Deciding(q)' = Deciding(q)
      /\ ~Deciding(r)' /\ Claimed(r)
      /\ \A q \in Requests : Claimed(q)' => Claimed(q)
  BY <1>1, <1>2, <1>4 DEF Exists, Deciding, Claimed
<1>6. RowFollowsRequest'
  BY <1>2, <1>5 DEF IndInv, RowFollowsRequest
<1>7. OneRowPerKey'
  BY <1>2, <1>5 DEF IndInv, OneRowPerKey, Key
<1>8. AnswersExist'
  <2> SUFFICES ASSUME NEW q \in Requests, answer'[q] \in Requests
               PROVE  (Exists(answer[q]) /\ Key(answer[q]) = Key(q))'
    BY DEF AnswersExist
  <2>1. CASE q = r
    BY <1>4, <1>5, <2>1 DEF Exists, Key
  <2>2. CASE q # r
    <3>1. /\ answer'[q] = answer[q] /\ Exists(answer[q])
          /\ request[answer[q]].key = request[q].key
      BY <1>4, <2>2 DEF IndInv, AnswersExist, Key
    <3>2. refund'[answer[q]].status # "none"
      BY <1>3, <1>4, <3>1 DEF Exists
    <3> QED
      BY <1>2, <3>1, <3>2 DEF Exists, Key
  <2> QED
    BY <2>1, <2>2
<1>9. WorkerIsRight'
  <2>1. worker.job \in Requests
    BY DEF IndInv, TypeOK
  <2>2. worker.pc \in {"found", "completing", "failing", "return"} => worker.job # r
    BY <1>3 DEF IndInv, WorkerIsRight, Exists, Settled
  <2> QED
    BY <1>1, <1>4, <2>1, <2>2, ZenonT(60) DEF IndInv, WorkerIsRight
<1>10. AnnouncedOnce'
  <2> SUFFICES ASSUME NEW q \in Requests, NEW e \in Endpoints
               PROVE  /\ refund'[q].status = "completed" => events[<<q, e>>] = 1
                      /\ refund'[q].status # "completed" => events[<<q, e>>] = 0
                      /\ deliveries[<<q, e>>] >= events[<<q, e>>]
    BY <1>1 DEF AnnouncedOnce
  <2>1. /\ refund[q].status = "completed" => events[<<q, e>>] = 1
        /\ refund[q].status # "completed" => events[<<q, e>>] = 0
        /\ deliveries[<<q, e>>] >= events[<<q, e>>]
    BY DEF IndInv, AnnouncedOnce
  <2>2. refund'[q].status = "completed" <=> refund[q].status = "completed"
    BY <1>3, <1>4 DEF Exists
  <2> QED
    BY <2>1, <2>2
<1>11. JobFollowsRefund'
  BY <1>1, <1>2, <1>4 DEF IndInv, JobFollowsRefund
<1>12. IsFiniteSet(Rows)'
  <2>1. Rows' = Rows \cup {r}
    BY <1>5 DEF Rows
  <2> QED
    BY <2>1, FS_AddElement DEF IndInv
<1>13. OneDecides'
  <2>1. \A p : /\ p = request[r].payment => Refunded(p)' = Refunded(p) + amount
               /\ p # request[r].payment => Refunded(p)' = Refunded(p)
    BY <1>1, <1>2, <1>3, NewUnits DEF IndInv
  <2> SUFFICES ASSUME NEW p \in Payments \ overlapped
               PROVE  /\ Refunded(p)' <= Total
                      /\ \A s \in Requests : Deciding(s)' /\ request[s].payment = p =>
                           /\ Refunded(p)' + request[s].amount <= Total
                           /\ \A q \in Requests :
                                Deciding(q)' /\ request[q].payment = p => q = s
    BY <1>1, <1>2 DEF OneDecides
  <2>2. CASE p = request[r].payment
    <3>1. Refunded(p)' <= Total
      BY <1>3, <2>1, <2>2 DEF IndInv, OneDecides
    <3>2. \A s \in Requests : Deciding(s)' => request[s].payment # p
      BY <1>3, <1>5, <2>2 DEF IndInv, OneDecides
    <3> QED
      BY <3>1, <3>2
  <2>3. CASE p # request[r].payment
    <3>1. Refunded(p)' = Refunded(p)
      BY <2>1, <2>3
    <3> QED
      BY <1>5, <3>1 DEF IndInv, OneDecides
  <2> QED
    BY <2>2, <2>3
<1> QED
  BY <1>6, <1>7, <1>8, <1>9, <1>10, <1>11, <1>12, <1>13 DEF Rest

-----------------------------------------------------------------------------
(* The worker's steps, and the process's.                                  *)

(* A job that ends as completed is one of a refund that is settled; one    *)
(* that is raised, or starts, is queued, under way or dead.                *)
LEMMA JobSteps ==
  ASSUME IndInv, UNCHANGED <<refund, request>>, NEW r \in Requests,
         \/ Queue!Begin(r)
         \/ Queue!Raise(r)
         \/ Queue!Succeed(r) /\ refund[r].status \in Settled
  PROVE  JobFollowsRefund'
<1>1. \A q \in Requests \ {r} : life'[q] = life[q]
  BY DEF Queue!Begin, Queue!Raise, Queue!Succeed, IndInv, TypeOK
<1>2. \/ life'[r] \in {"queued", "running", "dead"}
      \/ refund[r].status \in Settled
  BY DEF Queue!Begin, Queue!Raise, IndInv, TypeOK
<1>3. refund[r].status \in Settled =>
        refund[r].status # "pending" /\ request[r].pc # "enqueued"
  BY DEF Settled, IndInv, RowFollowsRequest, Exists
<1> QED
  BY <1>1, <1>2, <1>3 DEF IndInv, JobFollowsRefund

(* The worker goes on without touching rows, requests or events.           *)
LEMMA QuietWorker ==
  ASSUME IndInv, UNCHANGED <<refund, request, answer, overlapped, eventVars>>,
         WorkerIsRight', JobFollowsRefund'
  PROVE  Rest'
<1>1. AnnouncedOnce' /\ IsFiniteSet(Rows)' /\ \A q : Exists(q)' = Exists(q)
  BY SameRows
<1>2. RowFollowsRequest' /\ OneRowPerKey'
  BY <1>1 DEF IndInv, RowFollowsRequest, OneRowPerKey, Deciding, Claimed, Key
<1>3. AnswersExist'
  BY DEF IndInv, AnswersExist, Exists, Key
<1>4. OneDecides'
  <2>1. \A p : Refunded(p)' = Refunded(p)
    BY SameUnits
  <2> QED
    BY <2>1 DEF IndInv, OneDecides, Deciding
<1> QED
  BY <1>1, <1>2, <1>3, <1>4 DEF Rest

LEMMA QuietWorkerStep ==
  ASSUME RefundsAssumption, IndInv, TypeOK',
         \/ \E r \in Requests : StartJob(r)
         \/ RefundMissing \/ ProcessorAnswers \/ FinishJob \/ WorkerDbError
  PROVE  Rest'
<1>1. UNCHANGED <<refund, request, answer, overlapped, eventVars>>
  BY DEF StartJob, RefundMissing, ProcessorAnswers, FinishJob, WorkerDbError, requestVars
<1>2. TypeOK /\ worker.job \in Requests
  BY DEF IndInv, TypeOK
<1>3. CASE \E r \in Requests : StartJob(r)
  <2>1. PICK r \in Requests : StartJob(r)
    BY <1>3
  <2>2. worker' = [pc |-> Found(r), job |-> r, sent |-> {}] /\ Queue!Begin(r)
    BY <2>1 DEF StartJob
  <2>3. refund[r].status \in {"none", "pending", "completed", "failed"}
    BY DEF IndInv, TypeOK, Settled
  <2>4. /\ Found(r) \in {"missing", "found", "return"}
        /\ Found(r) = "found" => refund[r].status = "pending"
        /\ Found(r) = "return" => refund[r].status \in Settled
    BY <2>3 DEF Found, Exists, Settled
  <2> HIDE DEF Found
  <2>5. WorkerIsRight'
    BY <1>1, <2>2, <2>4 DEF WorkerIsRight
  <2> QED
    BY <1>1, <2>2, <2>5, JobSteps, QuietWorker
<1>4. CASE RefundMissing \/ FinishJob \/ WorkerDbError
  <2>1. worker'.pc = "idle"
    BY <1>2, <1>4, WorkerMoves DEF RefundMissing, FinishJob, WorkerDbError
  <2>2. WorkerIsRight'
    BY <2>1 DEF WorkerIsRight
  <2>3. \/ Queue!Raise(worker.job)
        \/ Queue!Succeed(worker.job) /\ refund[worker.job].status \in Settled
    BY <1>4 DEF RefundMissing, EndMissing, FinishJob, WorkerDbError, IndInv, WorkerIsRight
  <2> QED
    BY <1>1, <1>2, <2>2, <2>3, JobSteps, QuietWorker
<1>5. CASE ProcessorAnswers
  <2>1. PICK pc \in {"completing", "failing"} : WorkerGoto(pc)
    BY <1>5 DEF ProcessorAnswers
  <2>2. worker' = [pc |-> pc, job |-> worker.job, sent |-> worker.sent]
    BY <1>2, <2>1, WorkerMoves
  <2>3. /\ refund[worker.job].status = "pending"
        /\ \A e \in worker.sent : deliveries[worker.job, e] >= 1
    BY <1>5 DEF ProcessorAnswers, IndInv, WorkerIsRight
  <2>4. WorkerIsRight'
    BY <1>1, <2>2, <2>3 DEF WorkerIsRight, eventVars
  <2>5. JobFollowsRefund'
    BY <1>1, <1>5 DEF ProcessorAnswers, jobVars, IndInv, JobFollowsRefund
  <2> QED
    BY <1>1, <2>4, <2>5, QuietWorker
<1> QED
  BY <1>3, <1>4, <1>5

(* An event that is dispatched has its delivery job.                       *)
LEMMA DispatchStep ==
  ASSUME RefundsAssumption, IndInv, TypeOK', NEW e \in Endpoints, Dispatch(e)
  PROVE  Rest'
<1> DEFINE j == worker.job
<1>1. /\ UNCHANGED <<refund, request, answer, overlapped, events, life>>
      /\ worker' = [pc |-> worker.pc, job |-> j, sent |-> worker.sent \cup {e}]
      /\ deliveries' = [deliveries EXCEPT ![<<j, e>>] = deliveries[<<j, e>>] + 1]
      /\ worker.pc = "completing"
  <2>1. worker' = [worker EXCEPT !.sent = @ \cup {e}]
    BY DEF Dispatch
  <2> QED
    BY <2>1, WorkerMoves DEF Dispatch, requestVars, jobVars, IndInv
<1>2. /\ j \in Requests /\ worker.sent \subseteq Endpoints
      /\ deliveries \in [Requests \X Endpoints -> Nat]
      /\ events \in [Requests \X Endpoints -> Nat]
  BY DEF IndInv, TypeOK
<1>3. /\ deliveries'[<<j, e>>] >= 1
      /\ \A x \in Requests \X Endpoints :
           deliveries'[x] \in Nat /\ deliveries'[x] >= deliveries[x]
  BY <1>1, <1>2
<1>4. \A q : Exists(q)' = Exists(q)
  BY <1>1 DEF Exists
<1>5. RowFollowsRequest' /\ OneRowPerKey'
  BY <1>1, <1>4 DEF IndInv, RowFollowsRequest, OneRowPerKey, Deciding, Claimed, Key
<1>6. AnswersExist'
  BY <1>1 DEF IndInv, AnswersExist, Exists, Key
<1>7. WorkerIsRight'
  <2>1. /\ refund[j].status = "pending"
        /\ \A x \in worker.sent : deliveries[<<j, x>>] >= 1
    BY <1>1 DEF IndInv, WorkerIsRight
  <2>2. \A x \in worker.sent \cup {e} : deliveries'[<<j, x>>] >= 1
    BY <1>2, <1>3, <2>1
  <2> QED
    BY <1>1, <2>1, <2>2 DEF WorkerIsRight
<1>8. AnnouncedOnce'
  <2> SUFFICES ASSUME NEW r \in Requests, NEW x \in Endpoints
               PROVE  deliveries'[<<r, x>>] >= events[<<r, x>>]
    BY <1>1 DEF IndInv, AnnouncedOnce
  <2>1. /\ deliveries[<<r, x>>] >= events[<<r, x>>]
        /\ deliveries[<<r, x>>] \in Nat /\ events[<<r, x>>] \in Nat
    BY <1>2 DEF IndInv, AnnouncedOnce
  <2> QED
    BY <1>2, <1>3, <2>1
<1>9. JobFollowsRefund'
  BY <1>1 DEF IndInv, JobFollowsRefund
<1>10. IsFiniteSet(Rows)'
  BY <1>1 DEF IndInv, Rows, Exists
<1>11. OneDecides'
  <2>1. \A p : Refunded(p)' = Refunded(p)
    BY <1>1, SameUnits
  <2> QED
    BY <1>1, <2>1 DEF IndInv, OneDecides, Deciding
<1> QED
  BY <1>5, <1>6, <1>7, <1>8, <1>9, <1>10, <1>11 DEF Rest

(* The end of a refund: its row and its events change together.            *)
LEMMA SettleStep ==
  ASSUME RefundsAssumption, IndInv, TypeOK', CommitCompleted \/ CommitFailed
  PROVE  Rest'
<1> DEFINE j == worker.job
<1>1. /\ UNCHANGED <<request, answer, overlapped, deliveries, life>>
      /\ worker.pc \in {"completing", "failing"} /\ j \in Requests
      /\ worker' = [pc |-> "return", job |-> j, sent |-> worker.sent]
  BY WorkerMoves
  DEF CommitCompleted, CommitFailed, requestVars, eventVars, jobVars, IndInv, TypeOK
<1>2. refund[j].status = "pending"
  BY <1>1 DEF IndInv, WorkerIsRight
<1>3. PICK status \in Settled :
        /\ refund' = [refund EXCEPT ![j].status = status]
        /\ status = "completed" => CommitCompleted
        /\ status = "failed" => CommitFailed
  BY DEF CommitCompleted, CommitFailed, AtFailure, Settled
<1>4. /\ refund'[j].status = status /\ refund'[j].amount = refund[j].amount
      /\ \A q \in Requests \ {j} : refund'[q] = refund[q]
  BY <1>1, <1>2, <1>3, StatusChanges DEF IndInv
<1>5. \A q \in Requests : Exists(q)' = Exists(q)
  BY <1>2, <1>4 DEF Exists, Settled
<1>6. RowFollowsRequest' /\ OneRowPerKey'
  BY <1>1, <1>5 DEF IndInv, RowFollowsRequest, OneRowPerKey, Deciding, Claimed, Key
<1>7. AnswersExist'
  <2> SUFFICES ASSUME NEW q \in Requests, answer'[q] \in Requests
               PROVE  (Exists(answer[q]) /\ Key(answer[q]) = Key(q))'
    BY DEF AnswersExist
  <2>1. answer'[q] = answer[q] /\ Exists(answer[q]) /\ Key(answer[q]) = Key(q)
    BY <1>1 DEF IndInv, AnswersExist
  <2>2. refund'[answer[q]].status # "none"
    BY <1>1, <1>5, <2>1 DEF Exists
  <2> QED
    BY <1>1, <2>1, <2>2 DEF Exists, Key
<1>8. WorkerIsRight'
  BY <1>1, <1>3, <1>4 DEF WorkerIsRight
<1>9. AnnouncedOnce'
  <2> SUFFICES ASSUME NEW r \in Requests, NEW e \in Endpoints
               PROVE  /\ refund'[r].status = "completed" => events'[<<r, e>>] = 1
                      /\ refund'[r].status # "completed" => events'[<<r, e>>] = 0
                      /\ deliveries'[<<r, e>>] >= events'[<<r, e>>]
    BY DEF AnnouncedOnce
  <2>1. /\ refund[r].status = "completed" => events[<<r, e>>] = 1
        /\ refund[r].status # "completed" => events[<<r, e>>] = 0
        /\ deliveries[<<r, e>>] >= events[<<r, e>>]
    BY DEF IndInv, AnnouncedOnce
  <2>2. CASE status = "completed"
    <3>1. worker.pc = "completing" /\ worker.sent = Endpoints
      BY <1>3, <2>2 DEF CommitCompleted
    <3>2. deliveries[<<j, e>>] >= 1
      BY <3>1 DEF IndInv, WorkerIsRight
    <3>3. r = j => events'[<<r, e>>] = events[<<r, e>>] + 1
      BY <1>3, <2>2 DEF CommitCompleted, IndInv, TypeOK
    <3>4. r # j => events'[<<r, e>>] = events[<<r, e>>]
      <4>1. events \in [Requests \X Endpoints -> Nat]
        BY DEF IndInv, TypeOK
      <4>2. r # j => events'[<<r, e>>] = events[<<r, e>>] + 0
        BY <1>3, <2>2, <4>1 DEF CommitCompleted
      <4> QED
        BY <4>1, <4>2
    <3>5. CASE r = j
      BY <1>1, <1>2, <1>4, <2>1, <2>2, <3>2, <3>3, <3>5
    <3>6. CASE r # j
      BY <1>1, <1>4, <2>1, <3>4, <3>6
    <3> QED
      BY <3>5, <3>6
  <2>3. CASE status = "failed"
    <3>1. events' = events
      BY <1>3, <2>3 DEF CommitFailed, eventVars
    <3>2. CASE r = j
      BY <1>1, <1>2, <1>4, <2>1, <2>3, <3>1, <3>2
    <3>3. CASE r # j
      BY <1>1, <1>4, <2>1, <3>1, <3>3
    <3> QED
      BY <3>2, <3>3
  <2> QED
    BY <2>2, <2>3 DEF Settled
<1>10. JobFollowsRefund'
  <2>1. refund'[j].status # "pending"
    BY <1>4 DEF Settled
  <2> QED
    BY <1>1, <1>4, <2>1 DEF IndInv, JobFollowsRefund
<1>11. IsFiniteSet(Rows)'
  <2>1. Rows' = Rows
    BY <1>5 DEF Rows
  <2> QED
    BY <2>1 DEF IndInv
<1>12. OneDecides'
  <2>1. \A p : Refunded(p)' \in Nat /\ Refunded(p)' <= Refunded(p)
    BY <1>1, <1>2, <1>4, EndedUnits DEF IndInv
  <2>2. \A p : Refunded(p) \in Nat
    BY SumIsNat
  <2>3. Total \in Nat /\ \A r \in Requests : request[r].amount \in Nat
    BY DEF RefundsAssumption, IndInv, TypeOK
  <2> SUFFICES ASSUME NEW p \in Payments \ overlapped
               PROVE  /\ Refunded(p)' <= Total
                      /\ \A s \in Requests : Deciding(s) /\ request[s].payment = p =>
                           /\ Refunded(p)' + request[s].amount <= Total
                           /\ \A q \in Requests :
                                Deciding(q) /\ request[q].payment = p => q = s
    BY <1>1 DEF OneDecides, Deciding
  <2>4. Refunded(p) \in Nat /\ Refunded(p)' \in Nat /\ Refunded(p)' <= Refunded(p)
    BY <2>1, <2>2
  <2> QED
    BY <2>3, <2>4 DEF IndInv, OneDecides
<1> QED
  BY <1>6, <1>7, <1>8, <1>9, <1>10, <1>11, <1>12 DEF Rest

(* A crash ends the requests that have begun, and rolls back no row.       *)
LEMMA CrashStep ==
  ASSUME RefundsAssumption, IndInv, TypeOK', Crash
  PROVE  Rest'
<1>1. \A r \in Requests :
        /\ request'[r].pc = IF Started(r) THEN "done" ELSE request[r].pc
        /\ request'[r].payment = request[r].payment
        /\ request'[r].key = request[r].key
        /\ request'[r].amount = request[r].amount
  BY RequestsCrash DEF IndInv
<1>2. /\ UNCHANGED <<refund, answer, overlapped, eventVars, jobVars>>
      /\ worker' = [pc |-> "idle", job |-> worker.job, sent |-> worker.sent]
  BY WorkerMoves DEF Crash, IndInv
<1>3. AnnouncedOnce' /\ IsFiniteSet(Rows)' /\ \A q : Exists(q)' = Exists(q)
  BY <1>2, SameRows
<1>4. \A q \in Requests : ~Deciding(q)' /\ (Claimed(q)' => Claimed(q))
  BY <1>1, <1>3 DEF Started, Deciding, Claimed
<1>5. RowFollowsRequest' /\ OneRowPerKey'
  BY <1>1, <1>3, <1>4 DEF IndInv, RowFollowsRequest, OneRowPerKey, Key
<1>6. AnswersExist'
  <2> SUFFICES ASSUME NEW q \in Requests, answer'[q] \in Requests
               PROVE  (Exists(answer[q]) /\ Key(answer[q]) = Key(q))'
    BY DEF AnswersExist
  <2>1. refund[answer[q]].status # "none" /\ request[answer[q]].key = request[q].key
    BY <1>2 DEF IndInv, AnswersExist, Exists, Key
  <2> QED
    BY <1>1, <1>2, <2>1 DEF Exists, Key
<1>7. WorkerIsRight' /\ JobFollowsRefund'
  BY <1>1, <1>2 DEF IndInv, WorkerIsRight, JobFollowsRefund, jobVars
<1>8. OneDecides'
  <2>1. \A p : Refunded(p)' = Refunded(p)
    BY <1>1, <1>2, SameUnits
  <2> QED
    BY <1>2, <1>4, <2>1 DEF IndInv, OneDecides
<1> QED
  BY <1>3, <1>5, <1>6, <1>7, <1>8 DEF Rest

(* A consumer task that ends leaves its job running.                       *)
LEMMA ConsumerEndsStep ==
  ASSUME IndInv, ConsumerEnds
  PROVE  Rest'
<1>1. /\ UNCHANGED <<refund, request, answer, overlapped, eventVars, jobVars>>
      /\ worker' = [pc |-> "ended", job |-> worker.job, sent |-> worker.sent]
  BY WorkerMoves DEF ConsumerEnds, requestVars, IndInv
<1>2. WorkerIsRight' /\ JobFollowsRefund'
  BY <1>1 DEF IndInv, WorkerIsRight, JobFollowsRefund, jobVars
<1> QED
  BY <1>1, <1>2, QuietWorker

(* A payment that succeeds, and a step of somebody else.                   *)
LEMMA OtherStep ==
  ASSUME IndInv, (\E p \in Payments : PaymentSucceeds(p)) \/ UNCHANGED vars
  PROVE  Rest'
<1>1. UNCHANGED <<refund, request, answer, overlapped, worker, eventVars, jobVars>>
  BY DEF PaymentSucceeds, vars, requestVars
<1>2. WorkerIsRight' /\ JobFollowsRefund'
  BY <1>1, SameRows DEF IndInv, JobFollowsRefund, jobVars
<1> QED
  BY <1>1, <1>2, QuietWorker

-----------------------------------------------------------------------------
(* The invariant.                                                          *)

LEMMA IndInit == RefundsAssumption /\ Init => IndInv
<1> SUFFICES ASSUME RefundsAssumption, Init
             PROVE  IndInv
  OBVIOUS
<1>1. (CHOOSE r \in Requests : TRUE) \in Requests
  BY DEF RefundsAssumption
<1>2. /\ MaxAttempts \in Nat /\ MaxCrashes \in Nat /\ MaxDbErrors \in Nat /\ Total \in Nat
      /\ None \notin Requests
  BY DEF RefundsAssumption
<1>3. TypeOK
  BY <1>1, <1>2 DEF Init, TypeOK
<1>4. \A r \in Requests : ~Exists(r) /\ request[r].pc = "new" /\ answer[r] = None
  BY DEF Init, Exists
<1>5. RowFollowsRequest /\ OneRowPerKey /\ AnswersExist
  BY <1>2, <1>4 DEF RowFollowsRequest, OneRowPerKey, AnswersExist, Deciding, Claimed
<1>6. WorkerIsRight /\ AnnouncedOnce /\ JobFollowsRefund
  <2>1. AnnouncedOnce
    <3>1. \A r \in Requests : refund[r].status # "completed"
      BY <1>4 DEF Init
    <3>2. \A e \in Requests \X Endpoints : events[e] = 0 /\ deliveries[e] = 0
      BY DEF Init
    <3> SUFFICES ASSUME NEW r \in Requests, NEW e \in Endpoints
                 PROVE  /\ events[<<r, e>>] = 0
                        /\ deliveries[<<r, e>>] >= events[<<r, e>>]
      BY <3>1 DEF AnnouncedOnce
    <3> QED
      BY <3>2
  <2> QED
    BY <1>4, <2>1 DEF Init, WorkerIsRight, JobFollowsRefund
<1>7. IsFiniteSet(Rows)
  <2>1. Rows = {}
    BY <1>4 DEF Rows
  <2> QED
    BY <2>1, FS_EmptySet
<1>8. OneDecides
  <2>1. \A p : UnitsRefunded(p, {"pending", "completed"}) = {}
    BY <1>4 DEF UnitsRefunded, Exists, Init
  <2>2. \A p : Refunded(p) = 0
    BY <2>1, FS_EmptySet DEF Refunded
  <2> QED
    BY <1>2, <1>4, <2>2 DEF OneDecides, Deciding
<1> QED
  BY <1>3, <1>5, <1>6, <1>7, <1>8 DEF IndInv

LEMMA IndStep == RefundsAssumption /\ IndInv /\ [Next]_vars => IndInv'
<1> SUFFICES ASSUME RefundsAssumption, IndInv, [Next]_vars
             PROVE  IndInv'
  OBVIOUS
<1>1. TypeOK'
  BY TypeStep
<1>2. ASSUME NEW r \in Requests, RequestStep(r) \/ RequestDbError(r)
      PROVE  Rest'
  <2>1. CASE CheckAmount(r)
    <3>1. CASE /\ request[r].payment \in paid
               /\ Allowed(r, Refunded(request[r].payment))
      BY <1>1, <2>1, <3>1, AllowedStep
    <3>2. CASE ~(/\ request[r].payment \in paid
                 /\ Allowed(r, Refunded(request[r].payment)))
      <4>1. Answer(r, Refused)
        BY <2>1, <3>2 DEF CheckAmount
      <4> QED
        BY <1>1, <2>1, <4>1, QuietRequestStep
    <3> QED
      BY <3>1, <3>2
  <2> QED
    BY <1>1, <1>2, <2>1, QuietRequestStep, InsertStep, CommitStep DEF RequestStep
<1>3. ASSUME WorkerStep \/ WorkerDbError
      PROVE  Rest'
  <2>1. CASE \E e \in Endpoints : Dispatch(e)
    BY <1>1, <2>1, DispatchStep
  <2>2. CASE CommitCompleted \/ CommitFailed
    BY <1>1, <2>2, SettleStep
  <2>3. CASE \/ \E r \in Requests : StartJob(r)
             \/ RefundMissing \/ ProcessorAnswers \/ FinishJob \/ WorkerDbError
    BY <1>1, <2>3, QuietWorkerStep
  <2> QED
    BY <1>3, <2>1, <2>2, <2>3 DEF WorkerStep
<1>4. Rest'
  <2>1. CASE (\E p \in Payments : PaymentSucceeds(p)) \/ UNCHANGED vars
    BY <2>1, OtherStep
  <2>2. CASE Crash
    BY <1>1, <2>2, CrashStep
  <2>3. CASE ConsumerEnds
    BY <2>3, ConsumerEndsStep
  <2> QED
    BY <1>2, <1>3, <2>1, <2>2, <2>3 DEF Next
<1> QED
  BY <1>1, <1>4 DEF IndInv, Rest

(* IndInv holds of every behaviour: a key has one row, what is refunded    *)
(* and what is decided fit, and each refund has its job and its events.    *)
THEOREM Invariance == Spec => []IndInv
<1>1. Init => IndInv
  BY RefundsAssumption, IndInit
<1>2. IndInv /\ [Next]_vars => IndInv'
  BY RefundsAssumption, IndStep
<1> QED
  BY <1>1, <1>2, PTL DEF Spec

-----------------------------------------------------------------------------
(* What initiate_refund and process_refund promise.                        *)

(* Refunds, requests, events and jobs keep their types.                    *)
THEOREM TypeCorrectness == Spec => []TypeOK
<1>1. IndInv => TypeOK
  BY DEF IndInv
<1> QED
  BY <1>1, Invariance, PTL

(* However many requests come with a key, it makes one refund, and they    *)
(* are answered with no other.                                             *)
THEOREM KeysMakeOneRefund == Spec => []SameKeyOneRefund
<1>1. IndInv => SameKeyOneRefund
  BY DEF IndInv, SameKeyOneRefund, OneRowPerKey, Claimed, AnswersExist
<1> QED
  BY <1>1, Invariance, PTL

(* Where no two requests of a payment decide at a time, no more than the   *)
(* payment is refunded, whatever amounts are asked for and however refunds *)
(* fail, are repeated or are cut short.                                    *)
THEOREM RefundsFitThePayment == Spec => []RefundsFit
<1>1. IndInv => RefundsFit
  BY DEF IndInv, RefundsFit, OneDecides
<1> QED
  BY <1>1, Invariance, PTL

(* Each endpoint is told of a completed refund by one event with a job to  *)
(* deliver it, and of no other refund.                                     *)
THEOREM EndpointsAreToldOnce == Spec => []AnnouncedOnce
<1>1. IndInv => AnnouncedOnce
  BY DEF IndInv
<1> QED
  BY <1>1, Invariance, PTL

(* A pending refund has its job queued, under way or among the dead.       *)
THEOREM NoRefundIsDropped == Spec => []NeverDropped
<1>1. IndInv => NeverDropped
  BY DEF IndInv, NeverDropped, JobFollowsRefund
<1> QED
  BY <1>1, Invariance, PTL

(* No step changes a refund that is completed or failed.                   *)
THEOREM SettledRefundsStay == Spec => SettledIsFinal
<1> DEFINE Stays == \A r \in Requests : refund[r].status \in Settled => refund'[r] = refund[r]
<1>1. IndInv /\ [Next]_vars => [Stays]_vars
  <2> SUFFICES ASSUME IndInv, Next, NEW r \in Requests, refund[r].status \in Settled
               PROVE  refund'[r] = refund[r]
    OBVIOUS
  <2>1. worker.job \in Requests /\ refund \in [Requests -> RefundType]
    BY DEF IndInv, TypeOK, RefundType
  <2>2. ASSUME NEW q \in Requests, CommitRefund(q)
        PROVE  refund'[r] = refund[r]
    <3>1. q # r
      BY <2>2 DEF CommitRefund, IndInv, RowFollowsRequest, Exists, Settled
    <3> QED
      BY <2>1, <2>2, <3>1 DEF CommitRefund
  <2>3. CASE CommitCompleted \/ CommitFailed
    <3>1. worker.job # r
      BY <2>3 DEF CommitCompleted, CommitFailed, IndInv, WorkerIsRight, Settled
    <3> QED
      BY <2>1, <2>3, <3>1 DEF CommitCompleted, CommitFailed, AtFailure
  <2>4. UNCHANGED refund \/ (\E q \in Requests : CommitRefund(q))
                         \/ CommitCompleted \/ CommitFailed
    BY DEF Next, PaymentSucceeds, RequestStep, CheckKey, CheckAmount, InsertRefund,
       InsertRefused, EnqueueProcessRefund, RequestDbError, WorkerStep, StartJob,
       RefundMissing, ProcessorAnswers, Dispatch, FinishJob, WorkerDbError, ConsumerEnds,
       Crash
  <2> QED
    BY <2>2, <2>3, <2>4
<1> QED
  BY <1>1, Invariance, PTL DEF Spec, SettledIsFinal

=============================================================================
