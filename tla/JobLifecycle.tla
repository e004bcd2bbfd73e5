---------------------------- MODULE JobLifecycle ----------------------------
(***************************************************************************)
(* What a background job promises, whatever carries it: the life of the    *)
(* jobs of pulsepay/jobs as their database rows show it.  A job is created *)
(* once, is started only while it is queued, spends one attempt each time  *)
(* a start ends in an exception, dies at its last attempt and is never     *)
(* touched again once it is completed.  Only an operator revives a dead    *)
(* job, and gives it all its attempts back.                                *)
(*                                                                         *)
(* StormQueue.tla, the dispatch queue with its worker, implements this.    *)
(***************************************************************************)
EXTENDS Naturals

CONSTANTS
  Jobs,         \* the identifiers of jobs
  MaxAttempts   \* Job.max_attempts

VARIABLES
  life,         \* life[j]: the status of job j
  attempts      \* attempts[j]: the attempts job j has spent

vars == <<life, attempts>>

Init ==
  /\ life = [j \in Jobs |-> "absent"]
  /\ attempts = [j \in Jobs |-> 0]

Create(j) ==
  /\ life[j] = "absent"
  /\ life' = [life EXCEPT ![j] = "queued"]
  /\ UNCHANGED attempts

Begin(j) ==
  /\ life[j] = "queued"
  /\ life' = [life EXCEPT ![j] = "running"]
  /\ UNCHANGED attempts

Succeed(j) ==
  /\ life[j] = "running"
  /\ life' = [life EXCEPT ![j] = "completed"]
  /\ UNCHANGED attempts

(* One attempt is spent; the job is queued again while attempts are left.  *)
Raise(j) ==
  /\ life[j] = "running"
  /\ attempts[j] < MaxAttempts
  /\ attempts' = [attempts EXCEPT ![j] = @ + 1]
  /\ life' = [life EXCEPT ![j] = IF attempts[j] + 1 < MaxAttempts
                                 THEN "queued" ELSE "dead"]

Revive(j) ==
  /\ life[j] = "dead"
  /\ life' = [life EXCEPT ![j] = "queued"]
  /\ attempts' = [attempts EXCEPT ![j] = 0]

Next ==
  \E j \in Jobs :
    Create(j) \/ Begin(j) \/ Succeed(j) \/ Raise(j) \/ Revive(j)

Spec == Init /\ [][Next]_vars
=============================================================================
