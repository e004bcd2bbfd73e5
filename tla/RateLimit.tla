------------------------------ MODULE RateLimit ------------------------------
(***************************************************************************)
(* The token buckets of pulsepay/ratelimit/store.py, one for each API key, *)
(* in the memory of the process.                                           *)
(*                                                                         *)
(* Time and tokens are counted in units small enough to be whole: a token  *)
(* is Cost units, a tick refills Rate of them.  Retry-After is announced   *)
(* in thousandths of a second, here in multiples of Grain ticks.  Rounding *)
(* of the floating-point numbers themselves is left out.                   *)
(***************************************************************************)
EXTENDS Integers

CONSTANTS
  Keys,         \* X-API-Key headers
  Cost,         \* units in one token
  Burst,        \* API_BURST_LIMIT_PER_SECOND: tokens in a full bucket
  Rate,         \* API_RATE_LIMIT_PER_MINUTE: units refilled in a tick
  Grain,        \* ticks in the smallest difference of Retry-After
  MaxTime,      \* bound: where the clock ends
  MaxRestarts   \* bound: times the process is started again

ASSUME RateLimitAssumption ==
  /\ {Cost, Burst, Rate, Grain} \subseteq Nat \ {0}
  /\ {MaxTime, MaxRestarts} \subseteq Nat

Times == 0..MaxTime
Capacity == Burst * Cost

VARIABLES
  now,          \* monotonic()
  buckets,      \* the buckets of the keys seen so far
  announced,    \* history: when a refused key was told to try again
  since,        \* history: since[k][t], the admissions of k from time t on
  restarts      \* history: restarts[t], the restarts from time t on

limitVars == <<now, buckets, announced, since, restarts>>

LimitTypeOK ==
  /\ now \in Times
  /\ DOMAIN buckets \subseteq Keys
  /\ \A k \in DOMAIN buckets :
       buckets[k] \in [tokens : 0..Capacity, last_refill : 0..now]
  /\ DOMAIN announced \subseteq DOMAIN buckets
  /\ \A k \in DOMAIN announced : announced[k] \in Nat
  /\ since \in [Keys -> [Times -> Nat]]
  /\ restarts \in [Times -> Nat]
  /\ restarts[0] <= MaxRestarts

LimitInit ==
  /\ now = 0
  /\ buckets = [k \in {} |-> 0]
  /\ announced = [k \in {} |-> 0]
  /\ since = [k \in Keys |-> [t \in Times |-> 0]]
  /\ restarts = [t \in Times |-> 0]

-----------------------------------------------------------------------------
(* A key seen for the first time has a full bucket.                        *)
Bucket(k) ==
  IF k \in DOMAIN buckets THEN buckets[k]
  ELSE [tokens |-> Capacity, last_refill |-> now]

(* Variant of Refilled: the capacity is not looked at.                     *)
RefilledOver(k) == Bucket(k).tokens + (now - Bucket(k).last_refill) * Rate

Refilled(k) ==
  LET tokens == Bucket(k).tokens + (now - Bucket(k).last_refill) * Rate
  IN  IF tokens < Capacity THEN tokens ELSE Capacity

SetBucket(k, tokens) ==
  buckets' = [j \in DOMAIN buckets \cup {k} |->
                IF j = k THEN [tokens |-> tokens, last_refill |-> now]
                ELSE buckets[j]]

(* f, counted up for every time up to now.                                 *)
CountedNow(f) == [t \in Times |-> IF t <= now THEN f[t] + 1 ELSE f[t]]

Admit(k) ==
  /\ Refilled(k) >= Cost
  /\ SetBucket(k, Refilled(k) - Cost)
  /\ since' = [since EXCEPT ![k] = CountedNow(@)]
  /\ announced' = [j \in DOMAIN announced \ {k} |-> announced[j]]
  /\ UNCHANGED <<now, restarts>>

(* Variant of Waits: cut off, not rounded.                                 *)
WaitsCut(missing) == {missing \div (Grain * Rate)}

(* The waits that are nearest to missing / Rate, in multiples of Grain.    *)
Waits(missing) ==
  {n \in 0..missing : /\ 2 * n * (Grain * Rate) >= 2 * missing - Grain * Rate
                      /\ 2 * n * (Grain * Rate) <= 2 * missing + Grain * Rate}

Refuse(k) ==
  /\ Refilled(k) < Cost
  /\ SetBucket(k, Refilled(k))
  /\ \E n \in Waits(Cost - Refilled(k)) :
       announced' = [j \in DOMAIN announced \cup {k} |->
                       IF j = k THEN now + n * Grain ELSE announced[j]]
  /\ UNCHANGED <<now, since, restarts>>

Tick ==
  /\ now < MaxTime
  /\ now' = now + 1
  /\ UNCHANGED <<buckets, announced, since, restarts>>

(* The buckets are gone with the process.                                  *)
Forget ==
  /\ restarts[0] < MaxRestarts
  /\ buckets' = [k \in {} |-> 0]
  /\ announced' = [k \in {} |-> 0]
  /\ restarts' = CountedNow(restarts)
  /\ UNCHANGED <<now, since>>

LimitNext ==
  \/ \E k \in Keys : Admit(k) \/ Refuse(k)
  \/ Tick
  \/ Forget

LimitSpec == LimitInit /\ [][LimitNext]_limitVars

-----------------------------------------------------------------------------
(* In any stretch of time a key is admitted for no more than one full      *)
(* bucket and what that time refills, and one more full bucket for each    *)
(* restart in it.                                                          *)
AdmissionsBounded ==
  \A k \in Keys : \A t \in 0..now :
    Cost * since[k][t] <= Capacity + Capacity * restarts[t] + Rate * (now - t)

(* Retry-After is right to half of its last digit: a key that has waited   *)
(* that much longer is admitted, and one that comes earlier by more is     *)
(* refused.                                                                *)
RetryAfterIsHonest ==
  \A k \in DOMAIN announced :
    /\ 2 * now >= 2 * announced[k] + Grain => Refilled(k) >= Cost
    /\ 2 * now < 2 * announced[k] - Grain => Refilled(k) < Cost

-----------------------------------------------------------------------------
(* The inductive invariant of the proofs: what a key has left and what it  *)
(* has spent come from its full buckets and the refill, and the tokens at  *)
(* the last refusal are the ones that Retry-After was computed from.       *)
Budget ==
  \A k \in Keys : \A t \in 0..now :
    Refilled(k) + Cost * since[k][t]
      <= Capacity + Capacity * restarts[t] + Rate * (now - t)

NoneLater == \A k \in Keys : \A t \in Times : t > now => since[k][t] = 0

WaitFits ==
  \A k \in DOMAIN announced :
    LET b == buckets[k]
        wait == announced[k] - b.last_refill
    IN  /\ b.tokens < Cost
        /\ 2 * (wait * Rate) >= 2 * (Cost - b.tokens) - Grain * Rate
        /\ 2 * (wait * Rate) <= 2 * (Cost - b.tokens) + Grain * Rate

LimitInv == LimitTypeOK /\ Budget /\ NoneLater /\ WaitFits
=============================================================================
