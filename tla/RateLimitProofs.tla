--------------------------- MODULE RateLimitProofs ---------------------------
(***************************************************************************)
(* Proofs about RateLimit.tla and about its composition with the           *)
(* connection pool in Gateway.tla.                                         *)
(***************************************************************************)
EXTENDS Gateway, TLAPS

(* Facts about products that the provers need one at a time.               *)
LEMMA ProductNat ==
  ASSUME NEW a \in Nat, NEW b \in Nat
  PROVE  a * b \in Nat
OBVIOUS

LEMMA ProductStep ==
  ASSUME NEW a \in Int, NEW b \in Int
  PROVE  (a + 1) * b = a * b + b /\ b * (a + 1) = b * a + b
OBVIOUS

LEMMA ProductMonotone ==
  ASSUME NEW a \in Int, NEW b \in Int, NEW c \in Nat, a <= b
  PROVE  a * c <= b * c
OBVIOUS

LEMMA CapacityType == Capacity \in Nat /\ Cost <= Capacity
BY RateLimitAssumption DEF Capacity

(* A bucket is never refilled above its capacity, nor below what it had.   *)
LEMMA RefilledType ==
  ASSUME LimitTypeOK, NEW k \in Keys
  PROVE  /\ Bucket(k).tokens \in 0..Capacity
         /\ Bucket(k).last_refill \in 0..now
         /\ Refilled(k) \in 0..Capacity
         /\ Refilled(k) >= Bucket(k).tokens
<1>1. /\ Bucket(k).tokens \in 0..Capacity
      /\ Bucket(k).last_refill \in 0..now
  BY CapacityType DEF Bucket, LimitTypeOK, Times
<1>2. now \in Nat
  BY RateLimitAssumption DEF LimitTypeOK, Times
<1>3. now - Bucket(k).last_refill \in Nat
  BY <1>1, <1>2
<1>4. (now - Bucket(k).last_refill) * Rate \in Nat
  BY <1>3, ProductNat, RateLimitAssumption
<1> QED
  BY <1>1, <1>4, CapacityType DEF Refilled

(* The types of what Budget adds up.                                       *)
LEMMA BudgetTypes ==
  ASSUME LimitTypeOK, NEW k \in Keys, NEW t \in 0..now
  PROVE  /\ t \in Times /\ since[k][t] \in Nat /\ restarts[t] \in Nat
         /\ Cost * since[k][t] \in Nat
         /\ Capacity * restarts[t] \in Nat
         /\ Rate * (now - t) \in Int
<1>1. now \in Nat /\ t \in Times /\ Rate \in Nat /\ Cost \in Nat
  BY RateLimitAssumption DEF LimitTypeOK, Times
<1>2. since[k][t] \in Nat
  <2>1. since[k] \in [Times -> Nat]
    BY DEF LimitTypeOK
  <2> QED
    BY <1>1, <2>1
<1>3. restarts[t] \in Nat
  BY <1>1 DEF LimitTypeOK
<1>4. Cost * since[k][t] \in Nat
  BY <1>1, <1>2, ProductNat
<1>5. Capacity * restarts[t] \in Nat
  BY <1>3, ProductNat, CapacityType
<1>6. Rate * (now - t) \in Int
  <2>1. now - t \in Int
    BY <1>1
  <2> QED
    BY <1>1, <2>1
<1> QED
  BY <1>1, <1>2, <1>3, <1>4, <1>5, <1>6

(* RefilledType of the next state.                                         *)
LEMMA RefilledTypeNext ==
  ASSUME LimitTypeOK', NEW k \in Keys
  PROVE  Refilled(k)' \in 0..Capacity
<1>1. /\ Bucket(k)'.tokens \in 0..Capacity
      /\ Bucket(k)'.last_refill \in 0..now'
  BY CapacityType DEF Bucket, LimitTypeOK, Times, Capacity
<1>2. now' \in Nat
  BY RateLimitAssumption DEF LimitTypeOK, Times
<1>3. now' - Bucket(k)'.last_refill \in Nat
  BY <1>1, <1>2
<1>4. (now' - Bucket(k)'.last_refill) * Rate \in Nat
  BY <1>3, ProductNat, RateLimitAssumption
<1> QED
  BY <1>1, <1>4, CapacityType DEF Refilled, Capacity

-----------------------------------------------------------------------------
(* consume() sets one bucket and lets time and the other buckets be.       *)
LEMMA SetBucketEffect ==
  ASSUME LimitTypeOK, NEW k \in Keys, NEW x \in 0..Capacity,
         SetBucket(k, x), now' = now
  PROVE  /\ DOMAIN buckets' = DOMAIN buckets \cup {k}
         /\ buckets'[k] = [tokens |-> x, last_refill |-> now]
         /\ \A j \in DOMAIN buckets \ {k} : buckets'[j] = buckets[j]
         /\ Refilled(k)' = x
         /\ \A j \in Keys \ {k} : Refilled(j)' = Refilled(j)
<1>1. /\ DOMAIN buckets' = DOMAIN buckets \cup {k}
      /\ buckets'[k] = [tokens |-> x, last_refill |-> now]
      /\ \A j \in DOMAIN buckets \ {k} : buckets'[j] = buckets[j]
  BY DEF SetBucket
<1>2. Refilled(k)' = x
  <2>1. Bucket(k)' = [tokens |-> x, last_refill |-> now]
    BY <1>1 DEF Bucket
  <2>2. now \in Nat /\ Rate \in Nat
    BY RateLimitAssumption DEF LimitTypeOK, Times
  <2>3. (now - now) * Rate = 0
    BY <2>2
  <2>4. Bucket(k)'.tokens + (now' - Bucket(k)'.last_refill) * Rate = x
    BY <2>1, <2>3, CapacityType
  <2> QED
    BY <2>4, CapacityType DEF Refilled
<1>3. ASSUME NEW j \in Keys \ {k}
      PROVE  Refilled(j)' = Refilled(j)
  <2>1. Bucket(j)' = Bucket(j)
    BY <1>1, <1>3 DEF Bucket
  <2> QED
    BY <2>1 DEF Refilled, Capacity
<1> QED
  BY <1>1, <1>2, <1>3

LEMMA SetBucketType ==
  ASSUME LimitTypeOK, NEW k \in Keys, NEW x \in 0..Capacity,
         SetBucket(k, x), now' = now
  PROVE  /\ DOMAIN buckets' \subseteq Keys
         /\ \A j \in DOMAIN buckets' :
              buckets'[j] \in [tokens : 0..Capacity, last_refill : 0..now]
<1>1. now \in 0..now
  BY RateLimitAssumption DEF LimitTypeOK, Times
<1>2. /\ DOMAIN buckets' = DOMAIN buckets \cup {k}
      /\ buckets'[k] = [tokens |-> x, last_refill |-> now]
      /\ \A j \in DOMAIN buckets \ {k} : buckets'[j] = buckets[j]
  BY SetBucketEffect
<1>3. /\ DOMAIN buckets \subseteq Keys
      /\ \A j \in DOMAIN buckets :
           buckets[j] \in [tokens : 0..Capacity, last_refill : 0..now]
  BY DEF LimitTypeOK
<1> QED
  BY <1>1, <1>2, <1>3

LEMMA CountedNowType ==
  ASSUME LimitTypeOK, NEW f \in [Times -> Nat]
  PROVE  /\ CountedNow(f) \in [Times -> Nat]
         /\ \A t \in 0..now : CountedNow(f)[t] = f[t] + 1
         /\ \A t \in Times : t > now => CountedNow(f)[t] = f[t]
BY RateLimitAssumption DEF CountedNow, LimitTypeOK, Times

-----------------------------------------------------------------------------
LEMMA InitInv == LimitInit => LimitInv
<1> SUFFICES ASSUME LimitInit PROVE LimitInv
  OBVIOUS
<1>1. LimitTypeOK
  BY RateLimitAssumption DEF LimitInit, LimitTypeOK, Times
<1>2. Budget
  <2> SUFFICES ASSUME NEW k \in Keys, NEW t \in 0..now
               PROVE  Refilled(k) + Cost * since[k][t]
                        <= Capacity + Capacity * restarts[t] + Rate * (now - t)
    BY DEF Budget
  <2>1. now = 0 /\ t = 0 /\ t \in Times
    BY RateLimitAssumption DEF LimitInit, Times
  <2>2. since[k][t] = 0 /\ restarts[t] = 0
    BY <2>1 DEF LimitInit
  <2>3. Cost * 0 = 0 /\ Capacity * 0 = 0 /\ Rate * (0 - 0) = 0
    BY CapacityType, RateLimitAssumption
  <2>4. Refilled(k) \in 0..Capacity
    BY <1>1, RefilledType
  <2> QED
    BY <2>1, <2>2, <2>3, <2>4, CapacityType
<1>3. NoneLater /\ WaitFits
  BY DEF LimitInit, NoneLater, WaitFits, Times
<1> QED
  BY <1>1, <1>2, <1>3 DEF LimitInv

LEMMA AdmitStep ==
  ASSUME LimitInv, NEW k \in Keys, Admit(k)
  PROVE  LimitInv'
<1> USE DEF LimitInv
<1>1. /\ Refilled(k) \in 0..Capacity
      /\ Refilled(k) - Cost \in 0..Capacity
      /\ now' = now /\ restarts' = restarts
      /\ SetBucket(k, Refilled(k) - Cost)
      /\ since' = [since EXCEPT ![k] = CountedNow(@)]
      /\ announced' = [j \in DOMAIN announced \ {k} |-> announced[j]]
  BY RefilledType, CapacityType, RateLimitAssumption DEF Admit
<1>2. since[k] \in [Times -> Nat]
  BY DEF LimitTypeOK
<1>3. /\ since'[k] = CountedNow(since[k])
      /\ \A j \in Keys \ {k} : since'[j] = since[j]
  BY <1>1 DEF LimitTypeOK
<1>4. LimitTypeOK'
  <2>1. since' \in [Keys -> [Times -> Nat]]
    BY <1>1, <1>2, CountedNowType DEF LimitTypeOK
  <2>2. /\ DOMAIN announced' \subseteq DOMAIN buckets'
        /\ \A j \in DOMAIN announced' : announced'[j] \in Nat
    BY <1>1, SetBucketEffect DEF LimitTypeOK
  <2>3. /\ DOMAIN buckets' \subseteq Keys
        /\ \A j \in DOMAIN buckets' :
             buckets'[j] \in [tokens : 0..Capacity, last_refill : 0..now]
    BY <1>1, SetBucketType
  <2> QED
    BY <1>1, <2>1, <2>2, <2>3 DEF LimitTypeOK, Capacity
<1>5. Budget'
  <2> SUFFICES ASSUME NEW j \in Keys, NEW t \in 0..now
               PROVE  Refilled(j)' + Cost * since'[j][t]
                        <= Capacity + Capacity * restarts[t] + Rate * (now - t)
    BY <1>1 DEF Budget, Capacity
  <2>1. Refilled(j) + Cost * since[j][t]
          <= Capacity + Capacity * restarts[t] + Rate * (now - t)
    BY DEF Budget
  <2>2. CASE j # k
    <3>1. Refilled(j)' = Refilled(j) /\ since'[j] = since[j]
      BY <1>1, <1>3, <2>2, SetBucketEffect
    <3> QED
      BY <2>1, <3>1
  <2>3. CASE j = k
    <3>1. Refilled(k)' = Refilled(k) - Cost
      BY <1>1, SetBucketEffect
    <3>2. since'[k][t] = since[k][t] + 1
      BY <1>2, <1>3, CountedNowType
    <3>3. t \in Times
      BY RateLimitAssumption DEF LimitTypeOK, Times
    <3>4. since[k][t] \in Nat /\ Cost \in Nat
      BY <1>2, <3>3, RateLimitAssumption
    <3>5. Cost * (since[k][t] + 1) = Cost * since[k][t] + Cost
      BY <3>4, ProductStep
    <3>6. Cost * since[k][t] \in Nat
      BY <3>4, ProductNat
    <3>7. Refilled(k)' + Cost * since'[k][t] = Refilled(k) + Cost * since[k][t]
      BY <1>1, <3>1, <3>2, <3>4, <3>5, <3>6
    <3> QED
      BY <2>1, <2>3, <3>7
  <2> QED
    BY <2>2, <2>3
<1>6. NoneLater'
  BY <1>1, <1>2, <1>3, CountedNowType DEF NoneLater
<1>7. WaitFits'
  <2> SUFFICES ASSUME NEW j \in DOMAIN announced \ {k}
               PROVE  /\ j \in DOMAIN buckets \ {k}
                      /\ announced'[j] = announced[j]
                      /\ buckets'[j] = buckets[j]
    BY <1>1 DEF WaitFits
  <2> QED
    BY <1>1, SetBucketEffect DEF LimitTypeOK
<1> QED
  BY <1>4, <1>5, <1>6, <1>7

LEMMA RefuseStep ==
  ASSUME LimitInv, NEW k \in Keys, Refuse(k)
  PROVE  LimitInv'
<1> USE DEF LimitInv
<1> DEFINE missing == Cost - Refilled(k)
<1>1. PICK n \in Waits(missing) :
        announced' = [j \in DOMAIN announced \cup {k} |->
                        IF j = k THEN now + n * Grain ELSE announced[j]]
  BY DEF Refuse
<1>2. /\ Refilled(k) \in 0..Capacity /\ Refilled(k) < Cost
      /\ now' = now /\ restarts' = restarts /\ since' = since
      /\ SetBucket(k, Refilled(k))
  BY RefilledType DEF Refuse
<1>3. /\ DOMAIN buckets' = DOMAIN buckets \cup {k}
      /\ buckets'[k] = [tokens |-> Refilled(k), last_refill |-> now]
      /\ \A j \in DOMAIN buckets \ {k} : buckets'[j] = buckets[j]
      /\ \A j \in Keys : Refilled(j)' = Refilled(j)
  BY <1>2, SetBucketEffect
<1>4. n \in Nat /\ now \in Nat /\ n * Grain \in Nat
  <2>1. n \in Nat
    BY <1>1, <1>2, RateLimitAssumption DEF Waits
  <2> QED
    BY <2>1, ProductNat, RateLimitAssumption DEF LimitTypeOK, Times
<1>5. LimitTypeOK'
  <2>1. /\ DOMAIN announced' \subseteq DOMAIN buckets'
        /\ \A j \in DOMAIN announced' : announced'[j] \in Nat
    BY <1>1, <1>3, <1>4 DEF LimitTypeOK
  <2>2. /\ DOMAIN buckets' \subseteq Keys
        /\ \A j \in DOMAIN buckets' :
             buckets'[j] \in [tokens : 0..Capacity, last_refill : 0..now]
    BY <1>2, SetBucketType
  <2> QED
    BY <1>2, <2>1, <2>2 DEF LimitTypeOK, Capacity
<1>6. Budget'
  BY <1>2, <1>3 DEF Budget, Capacity
<1>7. NoneLater'
  BY <1>2 DEF NoneLater
<1>8. WaitFits'
  <2>1. ASSUME NEW j \in DOMAIN announced \ {k}
        PROVE  /\ j \in DOMAIN announced
               /\ announced'[j] = announced[j]
               /\ buckets'[j] = buckets[j]
    BY <1>1, <1>3 DEF LimitTypeOK
  <2>2. /\ announced'[k] - buckets'[k].last_refill = n * Grain
        /\ buckets'[k].tokens = Refilled(k)
    BY <1>1, <1>3, <1>4
  <2>3. (n * Grain) * Rate = n * (Grain * Rate)
    BY <1>4, RateLimitAssumption
  <2>4. 2 * (n * (Grain * Rate)) = 2 * n * (Grain * Rate)
    BY <1>4, RateLimitAssumption
  <2>5. /\ 2 * ((n * Grain) * Rate) >= 2 * missing - Grain * Rate
        /\ 2 * ((n * Grain) * Rate) <= 2 * missing + Grain * Rate
    BY <1>1, <2>3, <2>4 DEF Waits
  <2>6. DOMAIN announced' = DOMAIN announced \cup {k}
    BY <1>1
  <2> QED
    BY <1>2, <2>1, <2>2, <2>5, <2>6 DEF WaitFits
<1> QED
  BY <1>5, <1>6, <1>7, <1>8

LEMMA TickStep ==
  ASSUME LimitInv, Tick
  PROVE  LimitInv'
<1> USE DEF LimitInv
<1>1. /\ now \in Nat /\ now' = now + 1 /\ now' \in Times
      /\ UNCHANGED <<buckets, announced, since, restarts>>
  BY RateLimitAssumption DEF Tick, LimitTypeOK, Times
<1>2. LimitTypeOK'
  BY <1>1 DEF LimitTypeOK, Capacity
<1>3. ASSUME NEW k \in Keys
      PROVE  Refilled(k)' <= Refilled(k) + Rate
  <2>1. CASE k \notin DOMAIN buckets
    <3>1. /\ Bucket(k) = [tokens |-> Capacity, last_refill |-> now]
          /\ Bucket(k)' = [tokens |-> Capacity, last_refill |-> now']
      BY <1>1, <2>1 DEF Bucket, Capacity
    <3>2. (now - now) * Rate = 0 /\ (now' - now') * Rate = 0
      BY <1>1, RateLimitAssumption
    <3>3. Refilled(k) = Capacity /\ Refilled(k)' = Capacity
      BY <3>1, <3>2, CapacityType DEF Refilled, Capacity
    <3> QED
      BY <3>3, CapacityType, RateLimitAssumption
  <2>2. CASE k \in DOMAIN buckets
    <3> DEFINE b == buckets[k]
    <3>1. b.tokens \in Nat /\ b.last_refill \in Nat
      BY <2>2, CapacityType DEF LimitTypeOK
    <3>2. (now' - b.last_refill) * Rate = (now - b.last_refill) * Rate + Rate
      <4>1. now - b.last_refill \in Int /\ Rate \in Int
        BY <1>1, <3>1, RateLimitAssumption
      <4>2. now' - b.last_refill = (now - b.last_refill) + 1
        BY <1>1, <3>1
      <4> QED
        BY <4>1, <4>2, ProductStep
    <3>3. (now - b.last_refill) * Rate \in Int
      BY <1>1, <3>1, RateLimitAssumption
    <3>4. Bucket(k) = b /\ Bucket(k)' = b
      BY <1>1, <2>2 DEF Bucket
    <3> HIDE DEF b
    <3> QED
      BY <3>1, <3>2, <3>3, <3>4, CapacityType, RateLimitAssumption
      DEF Refilled, Capacity
  <2> QED
    BY <2>1, <2>2
<1>4. Budget'
  <2> SUFFICES ASSUME NEW k \in Keys, NEW t \in 0..now'
               PROVE  Refilled(k)' + Cost * since[k][t]
                        <= Capacity + Capacity * restarts[t] + Rate * (now' - t)
    BY <1>1 DEF Budget, Capacity
  <2>1. /\ t \in Times /\ t \in Nat
        /\ since[k][t] \in Nat /\ restarts[t] \in Nat
    BY <1>1, RateLimitAssumption DEF LimitTypeOK, Times
  <2>2. /\ Refilled(k) \in Nat
        /\ Refilled(k)' \in 0..Capacity
    BY <1>1, <1>2, RefilledType, RefilledTypeNext, CapacityType
  <2>3. CASE t <= now
    <3>1. Rate * (now' - t) = Rate * (now - t) + Rate
      <4>1. now - t \in Int /\ now' - t = (now - t) + 1
        BY <1>1, <2>1
      <4> QED
        BY <4>1, ProductStep, RateLimitAssumption
    <3>2. Refilled(k) + Cost * since[k][t]
            <= Capacity + Capacity * restarts[t] + Rate * (now - t)
      BY <1>1, <2>1, <2>3 DEF Budget
    <3>3. /\ Cost * since[k][t] \in Nat
          /\ Capacity * restarts[t] \in Nat
          /\ Rate * (now - t) \in Int
      BY <1>1, <2>1, ProductNat, CapacityType, RateLimitAssumption
    <3> QED
      BY <1>3, <2>2, <3>1, <3>2, <3>3, CapacityType, RateLimitAssumption
  <2>4. CASE t > now
    <3>1. t = now' /\ since[k][t] = 0
      BY <1>1, <2>1, <2>4 DEF NoneLater
    <3>2. Cost * 0 = 0 /\ Rate * (now' - now') = 0
      BY <1>1, RateLimitAssumption
    <3>3. Capacity * restarts[t] \in Nat
      BY <2>1, ProductNat, CapacityType
    <3> QED
      BY <2>2, <3>1, <3>2, <3>3, CapacityType
  <2> QED
    BY <1>1, <2>1, <2>3, <2>4
<1>5. NoneLater'
  BY <1>1 DEF NoneLater, Times
<1>6. WaitFits'
  BY <1>1 DEF WaitFits
<1> QED
  BY <1>2, <1>4, <1>5, <1>6

LEMMA ForgetStep ==
  ASSUME LimitInv, Forget
  PROVE  LimitInv'
<1> USE DEF LimitInv
<1>1. /\ now' = now /\ since' = since
      /\ restarts' = CountedNow(restarts)
      /\ restarts[0] < MaxRestarts
      /\ DOMAIN buckets' = {} /\ DOMAIN announced' = {}
  BY DEF Forget
<1>2. LimitTypeOK'
  <2>1. restarts \in [Times -> Nat] /\ 0 \in 0..now
    BY RateLimitAssumption DEF LimitTypeOK, Times
  <2>2. restarts'[0] = restarts[0] + 1 /\ restarts[0] \in Nat
    BY <1>1, <2>1, CountedNowType, RateLimitAssumption DEF Times
  <2>3. restarts' \in [Times -> Nat] /\ restarts'[0] <= MaxRestarts
    BY <1>1, <2>1, <2>2, CountedNowType, RateLimitAssumption
  <2> QED
    BY <1>1, <2>3 DEF LimitTypeOK
<1>3. Budget'
  <2> SUFFICES ASSUME NEW k \in Keys, NEW t \in 0..now
               PROVE  Refilled(k)' + Cost * since[k][t]
                        <= Capacity + Capacity * restarts'[t] + Rate * (now - t)
    BY <1>1 DEF Budget, Capacity
  <2>1. t \in Times /\ since[k][t] \in Nat /\ restarts[t] \in Nat
    BY RateLimitAssumption DEF LimitTypeOK, Times
  <2>2. restarts'[t] = restarts[t] + 1
    BY <1>1, CountedNowType DEF LimitTypeOK
  <2>3. Capacity * (restarts[t] + 1) = Capacity * restarts[t] + Capacity
    BY <2>1, ProductStep, CapacityType
  <2>4. /\ Refilled(k) \in 0..Capacity
        /\ Refilled(k)' \in 0..Capacity
    BY <1>2, RefilledType, RefilledTypeNext
  <2>5. Refilled(k) + Cost * since[k][t]
          <= Capacity + Capacity * restarts[t] + Rate * (now - t)
    BY DEF Budget
  <2>6. /\ Cost * since[k][t] \in Nat
        /\ Capacity * restarts[t] \in Nat
        /\ Rate * (now - t) \in Int
    BY BudgetTypes
  <2> QED
    BY <2>2, <2>3, <2>4, <2>5, <2>6, CapacityType
<1>4. NoneLater' /\ WaitFits'
  BY <1>1 DEF NoneLater, WaitFits
<1> QED
  BY <1>2, <1>3, <1>4

(* LimitInv is an inductive invariant of the buckets.                      *)
THEOREM LimitInvariance == LimitSpec => []LimitInv
<1>1. LimitInv /\ [LimitNext]_limitVars => LimitInv'
  <2> SUFFICES ASSUME LimitInv, [LimitNext]_limitVars
               PROVE  LimitInv'
    OBVIOUS
  <2>1. ASSUME NEW k \in Keys, Admit(k)
        PROVE  LimitInv'
    BY <2>1, AdmitStep
  <2>2. ASSUME NEW k \in Keys, Refuse(k)
        PROVE  LimitInv'
    BY <2>2, RefuseStep
  <2>3. CASE Tick
    BY <2>3, TickStep
  <2>4. CASE Forget
    BY <2>4, ForgetStep
  <2>5. CASE UNCHANGED limitVars
    <3>1. /\ now' = now /\ buckets' = buckets /\ announced' = announced
          /\ since' = since /\ restarts' = restarts
      BY <2>5 DEF limitVars
    <3> QED
      BY <3>1 DEF LimitInv, LimitTypeOK, Budget, NoneLater, WaitFits,
                  Refilled, Bucket, Capacity
  <2> QED
    BY <2>1, <2>2, <2>3, <2>4, <2>5 DEF LimitNext
<1> QED
  BY InitInv, <1>1, PTL DEF LimitSpec

-----------------------------------------------------------------------------
LEMMA BudgetBoundsAdmissions == LimitInv => AdmissionsBounded
<1> SUFFICES ASSUME LimitInv, NEW k \in Keys, NEW t \in 0..now
             PROVE  Cost * since[k][t]
                      <= Capacity + Capacity * restarts[t] + Rate * (now - t)
  BY DEF AdmissionsBounded
<1> USE DEF LimitInv
<1>1. /\ Cost * since[k][t] \in Nat
      /\ Capacity * restarts[t] \in Nat
      /\ Rate * (now - t) \in Int
  BY BudgetTypes
<1>2. Refilled(k) \in Nat
  BY RefilledType, CapacityType
<1>3. Refilled(k) + Cost * since[k][t]
        <= Capacity + Capacity * restarts[t] + Rate * (now - t)
  BY DEF Budget
<1> QED
  BY <1>1, <1>2, <1>3, CapacityType

LEMMA WaitIsHonest == LimitInv => RetryAfterIsHonest
<1> SUFFICES ASSUME LimitInv, NEW k \in DOMAIN announced
             PROVE  /\ 2 * now >= 2 * announced[k] + Grain => Refilled(k) >= Cost
                    /\ 2 * now < 2 * announced[k] - Grain => Refilled(k) < Cost
  BY DEF RetryAfterIsHonest
<1> USE DEF LimitInv
<1> DEFINE b == buckets[k]
           elapsed == now - b.last_refill
           wait == announced[k] - b.last_refill
<1>1. /\ b.tokens \in Nat /\ b.last_refill \in Int /\ now \in Int
      /\ announced[k] \in Int /\ elapsed \in Int /\ wait \in Int
      /\ Bucket(k) = b
  BY CapacityType, RateLimitAssumption DEF LimitTypeOK, Times, Bucket
<1>2. /\ b.tokens < Cost
      /\ 2 * (wait * Rate) >= 2 * (Cost - b.tokens) - Grain * Rate
      /\ 2 * (wait * Rate) <= 2 * (Cost - b.tokens) + Grain * Rate
  BY DEF WaitFits
<1>3. Rate \in Nat /\ Grain \in Nat /\ Cost \in Nat
  BY RateLimitAssumption
<1>4. /\ (2 * wait + Grain) * Rate = 2 * (wait * Rate) + Grain * Rate
      /\ (2 * wait - Grain) * Rate = 2 * (wait * Rate) - Grain * Rate
      /\ (2 * elapsed) * Rate = 2 * (elapsed * Rate)
  BY <1>1, <1>3
<1>5. /\ wait * Rate \in Int /\ elapsed * Rate \in Int
      /\ Grain * Rate \in Int
  BY <1>1, <1>3
<1>6. ASSUME 2 * now >= 2 * announced[k] + Grain
      PROVE  Refilled(k) >= Cost
  <2>1. 2 * wait + Grain <= 2 * elapsed
    BY <1>1, <1>3, <1>6
  <2>2. (2 * wait + Grain) * Rate <= (2 * elapsed) * Rate
    BY <1>1, <1>3, <2>1, ProductMonotone
  <2>3. b.tokens + elapsed * Rate >= Cost
    BY <1>1, <1>2, <1>3, <1>4, <1>5, <2>2
  <2> QED
    BY <1>1, <2>3, CapacityType DEF Refilled
<1>7. ASSUME 2 * now < 2 * announced[k] - Grain
      PROVE  Refilled(k) < Cost
  <2>1. (2 * elapsed) + 1 <= 2 * wait - Grain
    BY <1>1, <1>3, <1>7
  <2>2. ((2 * elapsed) + 1) * Rate <= (2 * wait - Grain) * Rate
    <3>1. (2 * elapsed) + 1 \in Int /\ 2 * wait - Grain \in Int
      BY <1>1, <1>3
    <3> HIDE DEF elapsed, wait
    <3> QED
      BY <1>3, <2>1, <3>1, ProductMonotone
  <2>3. ((2 * elapsed) + 1) * Rate = 2 * (elapsed * Rate) + Rate
    BY <1>1, <1>3, <1>4, ProductStep
  <2>4. Rate > 0
    BY RateLimitAssumption
  <2>5. b.tokens + elapsed * Rate < Cost
    BY <1>1, <1>2, <1>3, <1>4, <1>5, <2>2, <2>3, <2>4
  <2>6. elapsed * Rate \in Int
    BY <1>5
  <2> QED
    BY <1>1, <1>3, <2>5, <2>6, CapacityType DEF Refilled
<1> QED
  BY <1>6, <1>7

-----------------------------------------------------------------------------
(* Gateway.tla uses the buckets as RateLimit.tla describes them, so that   *)
(* whatever requests, jobs and timeouts do, its limits are RateLimit's.    *)
THEOREM GatewayImplementsRateLimit == Spec => LimitSpec
<1>1. Init => LimitInit
  BY DEF Init
<1>2. [Next]_vars => [LimitNext]_limitVars
  BY DEF Next, vars, LimitNext, SendExempt, SendAdmitted, SendRefused,
         TakeJob, RequestStep, Step, RequestFails, ConsumerStep,
         HandlerFails, ConsumerFails, Poll, PollerStep, PollFails, Waiting, Restart
<1> QED
  BY <1>1, <1>2, PTL DEF Spec, LimitSpec

(* Admissions are bounded by burst, rate and restarts, for every setting   *)
(* of the limits: RateLimitMiddleware and store.py with all its callers.   *)
THEOREM AdmissionsAreBounded == Spec => []AdmissionsBounded
BY LimitInvariance, GatewayImplementsRateLimit, BudgetBoundsAdmissions, PTL

(* The Retry-After of store.py:50 is right to half of its last digit.      *)
THEOREM RetryAfterIsRight == Spec => []RetryAfterIsHonest
BY LimitInvariance, GatewayImplementsRateLimit, WaitIsHonest, PTL

=============================================================================
