-------------------------- MODULE PaymentLifecycle --------------------------
(***************************************************************************)
(* What the payment state machine promises, as the README of pulsepay puts *)
(* it in 3b: a payment moves from pending through processing to success or *)
(* failed and stays there, and only a payment that is still open is ever   *)
(* charged.  The answer to a charge can be lost with the transaction or    *)
(* the process that waited for it; the payment is then still open.         *)
(*                                                                         *)
(* PaymentProcessing.tla implements this as long as only the job worker    *)
(* confirms payments.                                                      *)
(***************************************************************************)
EXTENDS Naturals

CONSTANT Payments

VARIABLES
  state,        \* state[p]: the status of payment p
  charged       \* charged[p]: times the processor authorized it

vars == <<state, charged>>

Open(p) == state[p] \in {"pending", "processing"}

Init ==
  /\ state = [p \in Payments |-> "pending"]
  /\ charged = [p \in Payments |-> 0]

(* An attempt ends without an answer that settles the payment.             *)
Attempt(p) ==
  /\ Open(p)
  /\ state' = [state EXCEPT ![p] = "processing"]
  /\ UNCHANGED charged

Charge(p) ==
  /\ Open(p)
  /\ state' = [state EXCEPT ![p] = "success"]
  /\ charged' = [charged EXCEPT ![p] = @ + 1]

Fail(p) ==
  /\ Open(p)
  /\ state' = [state EXCEPT ![p] = "failed"]
  /\ UNCHANGED charged

LoseAnswer(p) ==
  /\ Open(p)
  /\ charged' = [charged EXCEPT ![p] = @ + 1]
  /\ UNCHANGED state

Next ==
  \E p \in Payments : Attempt(p) \/ Charge(p) \/ Fail(p) \/ LoseAnswer(p)

Spec == Init /\ [][Next]_vars
=============================================================================
