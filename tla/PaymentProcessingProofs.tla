------------------------ MODULE PaymentProcessingProofs ------------------------
(***************************************************************************)
(* Proofs about PaymentProcessing.tla.  With any clients confirming while  *)
(* the worker does: IndInv, and from it that state_history is a path, that *)
(* retry_count is never too large and that a success was authorized.  With *)
(* the worker alone: AloneInv, and from it that the customer is charged    *)
(* honestly, that retry_count is exact, that no payment is dropped, and    *)
(* that state_history only grows and payments live as PaymentLifecycle.tla *)
(* says.                                                                   *)
(***************************************************************************)
EXTENDS PaymentProcessing, TLAPS
LOCAL INSTANCE SequencesExt

-----------------------------------------------------------------------------
(* The inductive invariants, in parts.                                     *)

Open == Statuses \ Terminal

(* HistoryIsAPath of one row, or copy of a row.                            *)
IsPath(row) ==
  LET h == row.history
  IN  /\ h # <<>> /\ h[1] = "pending" /\ h[Len(h)] = row.status
      /\ \A i \in 1..(Len(h) - 1) : <<h[i], h[i + 1]>> \in ValidTransitions

(* A session is at work on the copy it has read.                           *)
Active == {"loaded", "held", "mark", "enqueue", "return"}

(* A session's copy is the row as it was read or last committed, an        *)
(* attempt further while the attempt is under way.                         *)
CopiesFollowReads ==
  \A s \in Sessions :
    /\ IsPath(session[s].base)
    /\ session[s].pc \in Active \ {"held"} => session[s].mem = session[s].base
    /\ session[s].pc = "held" =>
         session[s].base.status \in Open /\ session[s].mem = Attempted(session[s].base)

(* What a session has read is not ahead of what was committed.             *)
ReadsNotOverstated ==
  \A s \in Sessions :
    session[s].pc \in Active =>
      session[s].base.retry_count <= confirms[session[s].payment]

IndInv ==
  /\ TypeOK
  /\ HistoryIsAPath
  /\ CopiesFollowReads
  /\ ReadsNotOverstated
  /\ RetryCountNotOverstated
  /\ SuccessWasAuthorized

-----------------------------------------------------------------------------
(* Rows and their copies.                                                  *)

(* A transition writes status and history, whatever the copy.              *)
LEMMA Transitions ==
  ASSUME NEW mem \in Row, NEW target \in Statuses
  PROVE  Transition(mem, target) =
           [status |-> target, retry_count |-> mem.retry_count,
            failure_class |-> mem.failure_class,
            history |-> Append(mem.history, target)]
<1> DEFINE h == Append(mem.history, target)
           m == [mem EXCEPT !.status = target]
<1>1. Transition(mem, target) = [m EXCEPT !.history = h]
  BY DEF Transition, Row
<1>2. m = [status |-> target, retry_count |-> mem.retry_count,
           failure_class |-> mem.failure_class, history |-> mem.history]
  BY DEF Row
<1> HIDE DEF h, m
<1>3. [m EXCEPT !.history = h] =
        [status |-> target, retry_count |-> mem.retry_count,
         failure_class |-> mem.failure_class, history |-> h]
  BY <1>2
<1> QED
  BY <1>1, <1>3 DEF h

(* One or two transitions lengthen a history and keep what it held.        *)
LEMMA Lengthened ==
  ASSUME NEW h \in Seq(Statuses)
  PROVE  /\ IsPrefix(h, h)
         /\ \A x \in Statuses : IsPrefix(h, Append(h, x))
         /\ \A x, y \in Statuses : IsPrefix(h, Append(Append(h, x), y))
<1>1. Len(h) \in Nat /\ SubSeq(h, 1, Len(h)) = h
  OBVIOUS
<1>2. IsPrefix(h, h)
  BY <1>1 DEF IsPrefix
<1>3. ASSUME NEW x \in Statuses
      PROVE  IsPrefix(h, Append(h, x))
  <2>1. SubSeq(Append(h, x), 1, Len(h)) = h /\ Len(Append(h, x)) = Len(h) + 1
    OBVIOUS
  <2> QED
    BY <1>1, <2>1 DEF IsPrefix
<1>4. ASSUME NEW x \in Statuses, NEW y \in Statuses
      PROVE  IsPrefix(h, Append(Append(h, x), y))
  <2>1. /\ SubSeq(Append(Append(h, x), y), 1, Len(h)) = h
        /\ Len(Append(Append(h, x), y)) = Len(h) + 2
    OBVIOUS
  <2> QED
    BY <1>1, <2>1 DEF IsPrefix
<1> QED
  BY <1>2, <1>3, <1>4

(* A transition the state machine allows lengthens the path.               *)
LEMMA PathGrows ==
  ASSUME NEW mem \in Row, NEW row \in Row, NEW target \in Statuses, IsPath(mem),
         <<mem.status, target>> \in ValidTransitions,
         row.status = target, row.history = Append(mem.history, target)
  PROVE  IsPath(row)
<1> DEFINE h == mem.history
           g == row.history
<1>1. h \in Seq(Statuses) /\ h # <<>> /\ Len(h) \in Nat \ {0}
  BY DEF Row, IsPath
<1>2. /\ Len(g) = Len(h) + 1 /\ g[Len(h) + 1] = target
      /\ \A i \in 1..Len(h) : g[i] = h[i]
  BY <1>1
<1>3. g # <<>> /\ g[1] = "pending" /\ g[Len(g)] = row.status
  BY <1>1, <1>2 DEF IsPath
<1>4. ASSUME NEW i \in 1..(Len(g) - 1)
      PROVE  <<g[i], g[i + 1]>> \in ValidTransitions
  <2>1. CASE i = Len(h)
    <3>1. g[i] = mem.status
      BY <1>1, <1>2, <2>1 DEF IsPath
    <3>2. g[i + 1] = target
      BY <1>2, <2>1
    <3> QED
      BY <3>1, <3>2
  <2>2. CASE i # Len(h)
    <3>1. i \in 1..(Len(h) - 1) /\ i \in 1..Len(h) /\ i + 1 \in 1..Len(h)
      BY <1>1, <1>2, <2>2
    <3> QED
      BY <1>2, <3>1 DEF IsPath
  <2> QED
    BY <2>1, <2>2
<1> QED
  BY <1>3, <1>4 DEF IsPath

(* An attempt on an open payment is a step to "processing", if it is not   *)
(* there yet, and one more in retry_count.                                 *)
LEMMA Attempts ==
  ASSUME NEW mem \in Row, mem.status \in Open
  PROVE  LET a == Attempted(mem)
         IN  /\ a \in Row /\ a.status = "processing"
             /\ a.retry_count = mem.retry_count + 1
             /\ a.failure_class = mem.failure_class
             /\ a.history = mem.history <=> a.status = mem.status
             /\ a.history \in {mem.history, Append(mem.history, "processing")}
             /\ IsPath(mem) => IsPath(a)
<1>1. CASE mem.status = "pending"
  <2> DEFINE g == Append(mem.history, "processing")
             a == [status |-> "processing", retry_count |-> mem.retry_count + 1,
                   failure_class |-> mem.failure_class, history |-> g]
  <2>1. Transition(mem, "processing") =
          [status |-> "processing", retry_count |-> mem.retry_count,
           failure_class |-> mem.failure_class, history |-> g]
    BY Transitions DEF Statuses
  <2>2. Attempted(mem) = a
    <3> DEFINE b == [status |-> "processing", retry_count |-> mem.retry_count,
                     failure_class |-> mem.failure_class, history |-> g]
    <3>1. ToProcessing(mem) = b
      BY <1>1, <2>1 DEF ToProcessing
    <3>2. Attempted(mem) = [b EXCEPT !.retry_count = b.retry_count + 1]
      BY <3>1 DEF Attempted
    <3> QED
      BY <3>2
  <2>3. g \in Seq(Statuses) /\ g # mem.history
    BY DEF Row, Statuses
  <2>4. a \in Row
    BY <2>3 DEF Row, Statuses
  <2>5. IsPath(mem) => IsPath(a)
    BY <1>1, <2>4, PathGrows DEF ValidTransitions, Statuses
  <2> QED
    BY <1>1, <2>2, <2>3, <2>4, <2>5
<1>2. CASE mem.status = "processing"
  <2> DEFINE a == [status |-> mem.status, retry_count |-> mem.retry_count + 1,
                   failure_class |-> mem.failure_class, history |-> mem.history]
  <2>1. Attempted(mem) = a
    BY <1>2 DEF Attempted, ToProcessing, Row
  <2>2. a \in Row
    BY DEF Row
  <2>3. IsPath(mem) => IsPath(a)
    BY DEF IsPath
  <2> QED
    BY <1>2, <2>1, <2>2, <2>3
<1> QED
  BY <1>1, <1>2 DEF Open, Statuses, Terminal

(* An answer of the processor settles the attempt.                         *)
LEMMA Answers ==
  ASSUME NEW mem \in Row, mem.status = "processing"
  PROVE  \A target \in Terminal, class \in {"none", "soft", "hard"} :
           LET a == [Transition(mem, target) EXCEPT !.failure_class = class]
           IN  /\ a \in Row /\ a.status = target
               /\ a.retry_count = mem.retry_count
               /\ a.history = Append(mem.history, target)
               /\ IsPath(mem) => IsPath(a)
<1> SUFFICES ASSUME NEW target \in Terminal, NEW class \in {"none", "soft", "hard"}
             PROVE  LET a == [Transition(mem, target) EXCEPT !.failure_class = class]
                    IN  /\ a \in Row /\ a.status = target
                        /\ a.retry_count = mem.retry_count
                        /\ a.history = Append(mem.history, target)
                        /\ IsPath(mem) => IsPath(a)
  OBVIOUS
<1> DEFINE a == [status |-> target, retry_count |-> mem.retry_count,
                 failure_class |-> class, history |-> Append(mem.history, target)]
<1>1. target \in Statuses /\ <<"processing", target>> \in ValidTransitions
  BY DEF Terminal, Statuses, ValidTransitions
<1>2. [Transition(mem, target) EXCEPT !.failure_class = class] = a
  <2> DEFINE h == Append(mem.history, target)
             b == [status |-> target, retry_count |-> mem.retry_count,
                   failure_class |-> mem.failure_class, history |-> h]
  <2>1. Transition(mem, target) = b
    BY <1>1, Transitions
  <2> HIDE DEF h
  <2>2. [b EXCEPT !.failure_class = class] =
          [status |-> target, retry_count |-> mem.retry_count,
           failure_class |-> class, history |-> h]
    OBVIOUS
  <2> QED
    BY <2>1, <2>2 DEF h
<1>3. a \in Row
  BY <1>1 DEF Row
<1>4. IsPath(mem) => IsPath(a)
  BY <1>1, <1>3, PathGrows
<1> QED
  BY <1>2, <1>3, <1>4

(* Giving up passes through "processing" to "failed".                      *)
LEMMA GivingUp ==
  ASSUME NEW mem \in Row, mem.status \in Open
  PROVE  LET a == GivenUp(mem)
         IN  /\ a \in Row /\ a.status = "failed"
             /\ a.retry_count = mem.retry_count
             /\ a.history # mem.history
             /\ IsPrefix(mem.history, a.history)
             /\ IsPath(mem) => IsPath(a)
<1> DEFINE m == ToProcessing(mem)
<1>1. /\ m \in Row /\ m.status = "processing" /\ m.retry_count = mem.retry_count
      /\ m.history \in {mem.history, Append(mem.history, "processing")}
      /\ IsPath(mem) => IsPath(m)
  <2>1. CASE mem.status = "pending"
    <3>1. m = [status |-> "processing", retry_count |-> mem.retry_count,
               failure_class |-> mem.failure_class,
               history |-> Append(mem.history, "processing")]
      BY <2>1, Transitions DEF ToProcessing, Statuses
    <3>2. m \in Row
      BY <3>1 DEF Row, Statuses
    <3> QED
      BY <2>1, <3>1, <3>2, PathGrows DEF ValidTransitions, Statuses
  <2>2. CASE mem.status = "processing"
    BY <2>2 DEF ToProcessing
  <2> QED
    BY <2>1, <2>2 DEF Open, Statuses, Terminal
<1> HIDE DEF m
<1>2. LET a == [Transition(m, "failed") EXCEPT !.failure_class = "hard"]
      IN  /\ a \in Row /\ a.status = "failed" /\ a.retry_count = m.retry_count
          /\ a.history = Append(m.history, "failed")
          /\ IsPath(m) => IsPath(a)
  BY <1>1, Answers DEF Terminal
<1>3. Append(m.history, "failed") # mem.history
  <2>1. mem.history \in Seq(Statuses)
    BY DEF Row
  <2> QED
    BY <1>1, <2>1 DEF Statuses
<1>4. IsPrefix(mem.history, Append(m.history, "failed"))
  <2>1. mem.history \in Seq(Statuses) /\ {"processing", "failed"} \subseteq Statuses
    BY DEF Row, Statuses
  <2> QED
    BY <1>1, <2>1, Lengthened
<1> QED
  BY <1>1, <1>2, <1>3, <1>4 DEF GivenUp, m

(* A commit writes the columns that differ from the copy that was read.    *)
LEMMA Merges ==
  ASSUME NEW row \in Row, NEW base \in Row, NEW mem \in Row
  PROVE  LET new == Merge(row, base, mem)
         IN  /\ new \in Row
             /\ new.status = IF mem.status # base.status THEN mem.status ELSE row.status
             /\ new.retry_count = IF mem.retry_count # base.retry_count
                                  THEN mem.retry_count ELSE row.retry_count
             /\ new.history = IF mem.history # base.history
                              THEN mem.history ELSE row.history
             /\ base = row => new = mem
<1> DEFINE new == Merge(row, base, mem)
<1>1. DOMAIN row = {"status", "retry_count", "failure_class", "history"}
  BY DEF Row
<1>2. new = [status |-> IF mem.status # base.status THEN mem.status ELSE row.status,
             retry_count |-> IF mem.retry_count # base.retry_count
                             THEN mem.retry_count ELSE row.retry_count,
             failure_class |-> IF mem.failure_class # base.failure_class
                               THEN mem.failure_class ELSE row.failure_class,
             history |-> IF mem.history # base.history
                         THEN mem.history ELSE row.history]
  BY <1>1 DEF Merge, Row
<1>3. new \in Row
  BY <1>2 DEF Row
<1>4. base = row => new = mem
  BY <1>2 DEF Row
<1> QED
  BY <1>2, <1>3, <1>4

-----------------------------------------------------------------------------
(* Types.                                                                  *)

(* What an assignment to a session's fields does to its record.            *)
LEMMA Updates ==
  ASSUME TypeOK, NEW s \in Sessions
  PROVE  /\ \A x :
              [session EXCEPT ![s].pc = x] =
                [session EXCEPT ![s] =
                   [pc |-> x, payment |-> session[s].payment,
                    base |-> session[s].base, mem |-> session[s].mem]]
         /\ [session EXCEPT ![s].pc = "held", ![s].mem = Attempted(@)] =
              [session EXCEPT ![s] =
                 [pc |-> "held", payment |-> session[s].payment,
                  base |-> session[s].base, mem |-> Attempted(session[s].mem)]]
<1>1. session[s] \in Session
  BY DEF TypeOK
<1>2. ASSUME NEW x
      PROVE  [session[s] EXCEPT !.pc = x] =
               [pc |-> x, payment |-> session[s].payment,
                base |-> session[s].base, mem |-> session[s].mem]
  BY <1>1 DEF Session
<1>3. ASSUME NEW x
      PROVE  [session EXCEPT ![s].pc = x] =
               [session EXCEPT ![s] = [session[s] EXCEPT !.pc = x]]
  BY DEF TypeOK
<1>4. [session EXCEPT ![s].pc = "held", ![s].mem = Attempted(@)] =
        [session EXCEPT ![s] =
           [pc |-> "held", payment |-> session[s].payment,
            base |-> session[s].base, mem |-> Attempted(session[s].mem)]]
  <2> DEFINE a == Attempted(session[s].mem)
             f == [session EXCEPT ![s].pc = "held"]
  <2>1. [session EXCEPT ![s].pc = "held", ![s].mem = Attempted(@)] =
          [f EXCEPT ![s].mem = Attempted(f[s].mem)]
    BY DEF TypeOK
  <2>2. f = [session EXCEPT ![s] =
               [pc |-> "held", payment |-> session[s].payment,
                base |-> session[s].base, mem |-> session[s].mem]]
    BY <1>2, <1>3
  <2> HIDE DEF f
  <2>3. f[s] = [pc |-> "held", payment |-> session[s].payment,
                base |-> session[s].base, mem |-> session[s].mem]
    BY <2>2 DEF TypeOK
  <2>4. Attempted(f[s].mem) = a
    BY <2>3
  <2> HIDE DEF a
  <2>5. [f EXCEPT ![s].mem = a] = [f EXCEPT ![s] = [f[s] EXCEPT !.mem = a]]
    BY <2>2 DEF TypeOK
  <2>6. [f[s] EXCEPT !.mem = a] =
          [pc |-> "held", payment |-> session[s].payment,
           base |-> session[s].base, mem |-> a]
    BY <2>3
  <2>7. [f EXCEPT ![s].mem = Attempted(f[s].mem)] = [f EXCEPT ![s].mem = a]
    BY <2>4
  <2>8. [f EXCEPT ![s] = [f[s] EXCEPT !.mem = a]] =
          [session EXCEPT ![s] =
             [pc |-> "held", payment |-> session[s].payment,
              base |-> session[s].base, mem |-> a]]
    BY <2>2, <2>6 DEF TypeOK
  <2>9. [session EXCEPT ![s].pc = "held", ![s].mem = Attempted(@)] =
          [session EXCEPT ![s] =
             [pc |-> "held", payment |-> session[s].payment,
              base |-> session[s].base, mem |-> a]]
    BY <2>1, <2>5, <2>7, <2>8
  <2> QED
    BY <2>9 DEF a
<1> QED
  BY <1>2, <1>3, <1>4

(* What a crash does to a session.                                         *)
LEMMA CrashedSession ==
  ASSUME TypeOK, Crash, NEW s \in Sessions
  PROVE  session'[s] =
           [pc |-> IF session[s].pc = "idle" THEN "idle" ELSE After(s, "idle"),
            payment |-> session[s].payment, base |-> session[s].base,
            mem |-> session[s].mem]
<1> DEFINE x == IF session[s].pc = "idle" THEN session[s].pc ELSE After(s, "idle")
<1>1. session'[s] = [session[s] EXCEPT !.pc = x]
  BY DEF Crash
<1>2. session[s] \in Session
  BY DEF TypeOK
<1> HIDE DEF x
<1>3. session'[s] = [pc |-> x, payment |-> session[s].payment,
                     base |-> session[s].base, mem |-> session[s].mem]
  BY <1>1, <1>2 DEF Session
<1> QED
  BY <1>3 DEF x

(* Everything but the rows and their copies keeps its type, and history    *)
(* counts never fall.                                                      *)
CountsRise ==
  /\ authorized' \in [Payments -> Nat] /\ confirms' \in [Payments -> Nat]
  /\ \A p \in Payments : authorized'[p] >= authorized[p] /\ confirms'[p] >= confirms[p]

JobTypes ==
  /\ current \in Jobs
  /\ life \in [Jobs -> {"absent", "queued", "running", "completed", "dead"}]
  /\ attempts \in [Jobs -> 0..MaxAttempts]
  /\ crashes \in 0..MaxCrashes
  /\ dbErrors \in 0..MaxDbErrors

LEMMA OtherTypes ==
  ASSUME PaymentProcessingAssumption, TypeOK, [Next]_vars
  PROVE  CountsRise /\ JobTypes'
<1> USE DEF CountsRise, JobTypes, jobVars, chargeVars, faultVars
<1>a. /\ JobTypes
      /\ authorized \in [Payments -> Nat] /\ confirms \in [Payments -> Nat]
      /\ \A s \in Sessions : session[s].payment \in Payments
      /\ Worker \in Sessions
  BY DEF TypeOK, Session, Sessions
<1>b. MaxAttempts \in Nat /\ MaxCrashes \in Nat /\ MaxDbErrors \in Nat
  BY DEF PaymentProcessingAssumption
<1>c. ASSUME NEW s \in Sessions, UNCHANGED jobVars \/ Queue!Raise(current)
      PROVE  life' \in [Jobs -> {"absent", "queued", "running", "completed", "dead"}]
             /\ attempts' \in [Jobs -> 0..MaxAttempts]
  BY <1>a, <1>b, <1>c DEF Queue!Raise
<1>1. ASSUME NEW j \in Jobs, TakeJob(j)
      PROVE  CountsRise /\ JobTypes'
  BY <1>1, <1>a DEF TakeJob, Queue!Begin
<1>2. ASSUME NEW s \in Sessions, RefuseTerminal(s) \/ MarkTerminal(s)
      PROVE  CountsRise /\ JobTypes'
  <2>1. /\ UNCHANGED jobVars \/ Queue!Raise(current)
        /\ UNCHANGED <<current, authorized, confirms, crashes, dbErrors>>
    BY <1>2 DEF RefuseTerminal, MarkTerminal, Raises
  <2> QED
    BY <2>1, <1>a, <1>c
<1>3. ASSUME NEW s \in Sessions, FlushAttempt(s) \/ MarkFailed(s)
      PROVE  CountsRise /\ JobTypes'
  BY <1>3, <1>a DEF FlushAttempt, MarkFailed
<1>4. ASSUME NEW s \in Sessions, Authorize(s) \/ FailSoftly(s) \/ FailHard(s)
      PROVE  CountsRise /\ JobTypes'
  <2>1. /\ UNCHANGED <<current, life, attempts, crashes, dbErrors>>
        /\ authorized' \in {authorized,
             [authorized EXCEPT ![session[s].payment] = @ + 1]}
        /\ confirms' = [confirms EXCEPT ![session[s].payment] = @ + 1]
    BY <1>4 DEF Authorize, FailSoftly, FailHard
  <2> QED
    BY <2>1, <1>a
<1>5. CASE EnqueueRetry
  <2>1. PICK n \in 1..MaxJobs : Queue!Create(<<current[1], n>>)
    BY <1>5 DEF EnqueueRetry
  <2>2. life' \in [Jobs -> {"absent", "queued", "running", "completed", "dead"}]
    BY <2>1, <1>a DEF Queue!Create
  <2>3. UNCHANGED <<current, attempts, authorized, confirms, crashes, dbErrors>>
    BY <1>5, <2>1 DEF EnqueueRetry, Queue!Create
  <2> QED
    BY <2>2, <2>3, <1>a
<1>6. CASE FinishJob
  BY <1>6, <1>a DEF FinishJob, Queue!Succeed
<1>7. ASSUME NEW c \in Clients, NEW p \in Payments, RequestConfirm(c, p)
      PROVE  CountsRise /\ JobTypes'
  BY <1>7, <1>a DEF RequestConfirm
<1>8. ASSUME NEW s \in Sessions, DbError(s)
      PROVE  CountsRise /\ JobTypes'
  <2>1. /\ UNCHANGED jobVars \/ Queue!Raise(current)
        /\ UNCHANGED <<current, confirms, crashes>>
        /\ dbErrors' = dbErrors + 1 /\ dbErrors < MaxDbErrors
        /\ authorized' \in {authorized,
             [authorized EXCEPT ![session[s].payment] = @ + 1]}
    BY <1>8 DEF DbError, Raises, MayLoseAnswer
  <2> QED
    BY <2>1, <1>a, <1>b, <1>c
<1>12. CASE ConsumerEnds
  <2>1. /\ UNCHANGED <<current, life, attempts, confirms, crashes>>
        /\ dbErrors' = dbErrors + 1 /\ dbErrors < MaxDbErrors
        /\ authorized' \in {authorized,
             [authorized EXCEPT ![session[Worker].payment] = @ + 1]}
    BY <1>12 DEF ConsumerEnds, MayLoseAnswer
  <2> QED
    BY <2>1, <1>a, <1>b
<1>9. CASE Crash
  <2>1. /\ UNCHANGED <<current, life, attempts, confirms, dbErrors>>
        /\ crashes' = crashes + 1 /\ crashes < MaxCrashes
    BY <1>9 DEF Crash, LifeAfterCrash
  <2>2. PICK lost : authorized' = [p \in Payments |->
                                     authorized[p] + (IF p \in lost THEN 1 ELSE 0)]
    BY <1>9 DEF Crash
  <2> QED
    BY <2>1, <2>2, <1>a, <1>b
<1>10. CASE UNCHANGED vars
  BY <1>10, <1>a DEF vars
<1>11. \A c \in Clients : c \in Sessions
  BY DEF Sessions
<1> QED
  BY <1>1, <1>2, <1>3, <1>4, <1>5, <1>6, <1>7, <1>8, <1>9, <1>10, <1>11, <1>12,
     <1>a
  DEF Next, WorkerStep, ClientStep, Confirmation

-----------------------------------------------------------------------------
(* What sessions do to rows, whoever they are.                             *)

RowTypes ==
  /\ payments \in [Payments -> Row]
  /\ session \in [Sessions -> Session]

Rest ==
  /\ RowTypes
  /\ HistoryIsAPath
  /\ CopiesFollowReads
  /\ ReadsNotOverstated
  /\ RetryCountNotOverstated
  /\ SuccessWasAuthorized

(* A row is read as it is.                                                 *)
LEMMA ReadStep ==
  ASSUME IndInv, CountsRise, UNCHANGED <<payments, confirms>>,
         NEW s \in Sessions, NEW p \in Payments,
         session' = [session EXCEPT ![s] =
           [pc |-> "loaded", payment |-> p, base |-> payments[p], mem |-> payments[p]]]
  PROVE  Rest'
<1>1. /\ payments \in [Payments -> Row] /\ session \in [Sessions -> Session]
      /\ authorized \in [Payments -> Nat] /\ confirms \in [Payments -> Nat]
  BY DEF IndInv, TypeOK
<1>2. /\ session'[s] = [pc |-> "loaded", payment |-> p,
                        base |-> payments[p], mem |-> payments[p]]
      /\ \A t \in Sessions \ {s} : session'[t] = session[t]
  BY <1>1
<1>3. RowTypes'
  BY <1>1 DEF RowTypes, Session
<1>4. HistoryIsAPath' /\ RetryCountNotOverstated'
  BY <1>1 DEF IndInv, HistoryIsAPath, RetryCountNotOverstated
<1>5. CopiesFollowReads'
  <2>1. IsPath(payments[p])
    BY DEF IndInv, HistoryIsAPath, IsPath
  <2> QED
    BY <1>2, <2>1 DEF IndInv, CopiesFollowReads
<1>6. ReadsNotOverstated'
  BY <1>2 DEF IndInv, ReadsNotOverstated, RetryCountNotOverstated
<1>7. SuccessWasAuthorized'
  BY <1>1 DEF IndInv, SuccessWasAuthorized, CountsRise
<1> QED
  BY <1>3, <1>4, <1>5, <1>6, <1>7 DEF Rest

(* A session that ends, or goes on without writing, leaves all as it is.   *)
LEMMA GotoStep ==
  ASSUME IndInv, CountsRise, UNCHANGED <<payments, confirms>>,
         NEW s \in Sessions, NEW pc \in {"idle", "done", "return", "ended"}, Goto(s, pc),
         pc = "return" => session[s].pc \in Active \ {"held"}
  PROVE  Rest'
<1>1. /\ payments \in [Payments -> Row] /\ session \in [Sessions -> Session]
      /\ authorized \in [Payments -> Nat] /\ confirms \in [Payments -> Nat]
  BY DEF IndInv, TypeOK
<1>2. session' = [session EXCEPT ![s] =
        [pc |-> pc, payment |-> session[s].payment,
         base |-> session[s].base, mem |-> session[s].mem]]
  BY Updates DEF IndInv, Goto
<1>3. /\ session'[s] = [pc |-> pc, payment |-> session[s].payment,
                        base |-> session[s].base, mem |-> session[s].mem]
      /\ \A t \in Sessions \ {s} : session'[t] = session[t]
  BY <1>1, <1>2
<1>4. RowTypes'
  BY <1>1, <1>2 DEF RowTypes, Session
<1>5. HistoryIsAPath' /\ RetryCountNotOverstated'
  BY <1>1 DEF IndInv, HistoryIsAPath, RetryCountNotOverstated
<1>6. CopiesFollowReads'
  BY <1>3 DEF IndInv, CopiesFollowReads, Active
<1>7. ReadsNotOverstated'
  BY <1>3 DEF IndInv, ReadsNotOverstated, Active
<1>8. SuccessWasAuthorized'
  BY <1>1 DEF IndInv, SuccessWasAuthorized, CountsRise
<1> QED
  BY <1>4, <1>5, <1>6, <1>7, <1>8 DEF Rest

(* An attempt that is under way is one step further than what was read.    *)
LEMMA HeldCopies ==
  ASSUME IndInv, NEW s \in Sessions, session[s].pc = "held"
  PROVE  LET base == session[s].base
             mem == session[s].mem
         IN  /\ base \in Row /\ mem \in Row
             /\ base.status \in Open /\ mem.status = "processing" /\ IsPath(mem)
             /\ mem.retry_count = base.retry_count + 1
             /\ mem.history = base.history <=> mem.status = base.status
             /\ mem.history \in {base.history, Append(base.history, "processing")}
             /\ \A h : h \in {"success", "failed"} =>
                  Append(mem.history, h) # base.history
<1> DEFINE base == session[s].base
           mem == session[s].mem
<1>1. /\ base \in Row /\ IsPath(base) /\ base.status \in Open
      /\ mem = Attempted(base)
  BY DEF IndInv, TypeOK, Session, CopiesFollowReads
<1>2. /\ mem \in Row /\ mem.status = "processing" /\ IsPath(mem)
      /\ mem.retry_count = base.retry_count + 1
      /\ mem.history = base.history <=> mem.status = base.status
      /\ mem.history \in {base.history, Append(base.history, "processing")}
  BY <1>1, Attempts
<1>3. ASSUME NEW h \in Terminal, Append(mem.history, h) = base.history
      PROVE  FALSE
  <2>1. mem.history \in Seq(Statuses) /\ h \in Statuses
    BY <1>2 DEF Row, Terminal, Statuses
  <2>2. base.history[Len(base.history)] = h
    BY <1>3, <2>1
  <2> QED
    BY <1>1, <2>2 DEF IsPath, Open
<1> QED
  BY <1>1, <1>2, <1>3 DEF Terminal

(* The attempt is flushed.                                                 *)
LEMMA FlushStep ==
  ASSUME IndInv, CountsRise, NEW s \in Sessions, FlushAttempt(s)
  PROVE  Rest'
<1>1. /\ payments \in [Payments -> Row] /\ session \in [Sessions -> Session]
      /\ session[s].pc = "loaded" /\ session[s].mem = session[s].base
      /\ session[s].base.status \in Open /\ session[s].base \in Row
      /\ UNCHANGED <<payments, authorized, confirms>>
  BY DEF IndInv, TypeOK, CopiesFollowReads, FlushAttempt, Confirming, Refused, Open,
     Session, Row, Active, chargeVars
<1>2. Attempted(session[s].base) \in Row
  BY <1>1, Attempts
<1>3. session' = [session EXCEPT ![s] =
        [pc |-> "held", payment |-> session[s].payment,
         base |-> session[s].base, mem |-> Attempted(session[s].base)]]
  BY <1>1, Updates DEF IndInv, FlushAttempt
<1>4. /\ session'[s] = [pc |-> "held", payment |-> session[s].payment,
                        base |-> session[s].base, mem |-> Attempted(session[s].base)]
      /\ \A t \in Sessions \ {s} : session'[t] = session[t]
  BY <1>1, <1>3
<1>5. RowTypes'
  BY <1>1, <1>2, <1>3 DEF RowTypes, Session
<1>6. HistoryIsAPath' /\ RetryCountNotOverstated' /\ SuccessWasAuthorized'
  BY <1>1 DEF IndInv, HistoryIsAPath, RetryCountNotOverstated, SuccessWasAuthorized
<1>7. CopiesFollowReads'
  BY <1>1, <1>4 DEF IndInv, CopiesFollowReads
<1>8. ReadsNotOverstated'
  BY <1>1, <1>4 DEF IndInv, ReadsNotOverstated, Active
<1> QED
  BY <1>5, <1>6, <1>7, <1>8 DEF Rest

(* A commit of a copy `mem` that is a path, ahead of what was read in both *)
(* status and history or in neither, with its attempt counted, leaves a    *)
(* row that is a path, whatever was committed in between.                  *)
LEMMA CommitStep ==
  ASSUME IndInv, CountsRise,
         NEW s \in Sessions, NEW mem \in Row, NEW pc \in {"mark", "return", "enqueue", "done"},
         Commit(s, mem, pc),
         IsPath(mem),
         mem.history = session[s].base.history <=> mem.status = session[s].base.status,
         mem.retry_count <= confirms'[session[s].payment],
         mem.status = "success" => authorized'[session[s].payment] > 0
  PROVE  Rest'
<1> DEFINE p == session[s].payment
           base == session[s].base
           row == payments[p]
           new == Merge(row, base, mem)
<1>1. /\ payments \in [Payments -> Row] /\ session \in [Sessions -> Session]
      /\ authorized \in [Payments -> Nat] /\ confirms \in [Payments -> Nat]
      /\ p \in Payments /\ base \in Row /\ row \in Row
  BY DEF IndInv, TypeOK, Session
<1>2. /\ new \in Row
      /\ new.status = IF mem.status # base.status THEN mem.status ELSE row.status
      /\ new.retry_count = IF mem.retry_count # base.retry_count
                           THEN mem.retry_count ELSE row.retry_count
      /\ new.history = IF mem.history # base.history THEN mem.history ELSE row.history
  BY <1>1, Merges
<1>3. /\ payments' = [payments EXCEPT ![p] = new]
      /\ session' = [session EXCEPT ![s] =
                       [pc |-> pc, payment |-> p, base |-> mem, mem |-> mem]]
  BY DEF Commit
<1> HIDE DEF new
<1>4. /\ payments'[p] = new
      /\ \A q \in Payments \ {p} : payments'[q] = payments[q]
      /\ session'[s] = [pc |-> pc, payment |-> p, base |-> mem, mem |-> mem]
      /\ \A t \in Sessions \ {s} : session'[t] = session[t]
  BY <1>1, <1>3
<1>5. RowTypes'
  BY <1>1, <1>2, <1>3 DEF RowTypes, Session
<1>6. HistoryIsAPath'
  <2>1. IsPath(row)
    BY <1>1 DEF IndInv, HistoryIsAPath, IsPath
  <2>2. IsPath(new)
    BY <1>2, <2>1 DEF IsPath
  <2>3. \A q \in Payments : IsPath(payments'[q])
    BY <1>4, <2>2, SMTT(30) DEF IndInv, HistoryIsAPath, IsPath
  <2> QED
    BY <2>3 DEF HistoryIsAPath, IsPath
<1>7. CopiesFollowReads'
  BY <1>4 DEF IndInv, CopiesFollowReads
<1>8. ReadsNotOverstated'
  <2> SUFFICES ASSUME NEW t \in Sessions, session'[t].pc \in Active
               PROVE  session'[t].base.retry_count <= confirms'[session'[t].payment]
    BY DEF ReadsNotOverstated
  <2>1. CASE t = s
    BY <1>4, <2>1
  <2>2. CASE t # s
    <3>1. /\ session'[t] = session[t] /\ session[t].payment \in Payments
          /\ session[t].base.retry_count \in Nat
          /\ session[t].base.retry_count <= confirms[session[t].payment]
      BY <1>1, <1>4, <2>2 DEF IndInv, ReadsNotOverstated, Session, Row
    <3> QED
      BY <1>1, <3>1 DEF CountsRise
  <2> QED
    BY <2>1, <2>2
<1>9. RetryCountNotOverstated'
  <2> SUFFICES ASSUME NEW q \in Payments
               PROVE  payments'[q].retry_count <= confirms'[q]
    BY DEF RetryCountNotOverstated
  <2>1. payments[q].retry_count <= confirms'[q]
    <3>1. /\ payments[q].retry_count \in Nat
          /\ payments[q].retry_count <= confirms[q]
      BY <1>1 DEF IndInv, RetryCountNotOverstated, Row
    <3> QED
      BY <1>1, <3>1 DEF CountsRise
  <2> QED
    BY <1>2, <1>4, <2>1
<1>10. SuccessWasAuthorized'
  <2> SUFFICES ASSUME NEW q \in Payments, payments'[q].status = "success"
               PROVE  authorized'[q] > 0
    BY DEF SuccessWasAuthorized
  <2>1. payments[q].status = "success" => authorized'[q] > 0
    BY <1>1 DEF IndInv, SuccessWasAuthorized, CountsRise
  <2> QED
    BY <1>2, <1>4, <2>1
<1> QED
  BY <1>5, <1>6, <1>7, <1>8, <1>9, <1>10 DEF Rest

(* The processor answers and the attempt is committed.                     *)
LEMMA AnswerStep ==
  ASSUME PaymentProcessingAssumption, IndInv, CountsRise, NEW s \in Sessions,
         Authorize(s) \/ FailSoftly(s) \/ FailHard(s)
  PROVE  Rest'
<1> DEFINE p == session[s].payment
           base == session[s].base
           mem == session[s].mem
<1>1. /\ session[s].pc = "held" /\ p \in Payments
      /\ authorized \in [Payments -> Nat] /\ confirms \in [Payments -> Nat]
      /\ confirms' = [confirms EXCEPT ![p] = @ + 1]
  BY DEF IndInv, TypeOK, Session, Authorize, FailSoftly, FailHard
<1>2. /\ base \in Row /\ mem \in Row
      /\ base.status \in Open /\ mem.status = "processing" /\ IsPath(mem)
      /\ mem.retry_count = base.retry_count + 1
      /\ mem.history = base.history <=> mem.status = base.status
      /\ \A h : h \in {"success", "failed"} => Append(mem.history, h) # base.history
  BY <1>1, HeldCopies
<1>3. mem.retry_count <= confirms'[p] /\ confirms'[p] = confirms[p] + 1
  <2>1. base.retry_count \in Nat /\ base.retry_count <= confirms[p]
    BY <1>1, <1>2 DEF IndInv, ReadsNotOverstated, Active, Row
  <2>2. confirms[p] \in Nat /\ confirms'[p] = confirms[p] + 1
    BY <1>1
  <2>3. mem.retry_count = base.retry_count + 1
    BY <1>2
  <2> HIDE DEF p, base, mem
  <2> QED
    BY <2>1, <2>2, <2>3
<1>4. CASE Authorize(s)
  <2> DEFINE a == [Transition(mem, "success") EXCEPT !.failure_class = "none"]
  <2>1. /\ a \in Row /\ a.status = "success" /\ a.retry_count = mem.retry_count
        /\ a.history = Append(mem.history, "success") /\ IsPath(a)
    BY <1>2, Answers DEF Terminal
  <2>2. Commit(s, a, After(s, "return")) /\ authorized'[p] > 0
    BY <1>1, <1>4 DEF Authorize
  <2>3. After(s, "return") \in {"mark", "return", "enqueue", "done"}
    BY DEF After
  <2>4. a.history # base.history /\ a.status # base.status
    BY <1>2, <2>1 DEF Open, Terminal
  <2> HIDE DEF a
  <2> QED
    BY <1>3, <2>1, <2>2, <2>3, <2>4, CommitStep
<1>5. CASE FailHard(s)
  <2> DEFINE a == [Transition(mem, "failed") EXCEPT !.failure_class = "hard"]
  <2>1. /\ a \in Row /\ a.status = "failed" /\ a.retry_count = mem.retry_count
        /\ a.history = Append(mem.history, "failed") /\ IsPath(a)
    BY <1>2, Answers DEF Terminal
  <2>2. Commit(s, a, After(s, "return"))
    BY <1>5 DEF FailHard
  <2>3. After(s, "return") \in {"mark", "return", "enqueue", "done"}
    BY DEF After
  <2>4. a.history # base.history /\ a.status # base.status
    BY <1>2, <2>1 DEF Open, Terminal
  <2> HIDE DEF a
  <2> QED
    BY <1>3, <2>1, <2>2, <2>3, <2>4, CommitStep
<1>6. CASE FailSoftly(s)
  <2> DEFINE a == [mem EXCEPT !.failure_class = "soft"]
  <2>1. /\ a \in Row /\ a.status = "processing" /\ a.retry_count = mem.retry_count
        /\ a.history = mem.history /\ IsPath(a)
    BY <1>2 DEF Row, IsPath
  <2>2. Commit(s, a, AfterSoftFailure(s))
    BY <1>6 DEF FailSoftly
  <2>3. AfterSoftFailure(s) \in {"mark", "return", "enqueue", "done"}
    BY DEF AfterSoftFailure, After
  <2>4. a.history = base.history <=> a.status = base.status
    BY <1>2, <2>1
  <2> HIDE DEF a
  <2> QED
    BY <1>3, <2>1, <2>2, <2>3, <2>4, CommitStep
<1> QED
  BY <1>4, <1>5, <1>6

(* The session gives up on the copy it has.                                *)
LEMMA MarkFailedStep ==
  ASSUME IndInv, CountsRise, NEW s \in Sessions, MarkFailed(s)
  PROVE  Rest'
<1> DEFINE p == session[s].payment
           base == session[s].base
           a == GivenUp(base)
<1>1. /\ p \in Payments /\ base \in Row /\ session[s].mem = base
      /\ base.status \in Open /\ IsPath(base)
      /\ base.retry_count <= confirms[p]
      /\ UNCHANGED <<authorized, confirms>>
  BY DEF IndInv, TypeOK, Session, CopiesFollowReads, ReadsNotOverstated, MarkFailed,
     Marking, Open, Row, Active, chargeVars
<1>2. /\ a \in Row /\ a.status = "failed" /\ a.retry_count = base.retry_count
      /\ a.history # base.history /\ IsPath(a)
  BY <1>1, GivingUp
<1>3. Commit(s, a, After(s, "return"))
  BY <1>1 DEF MarkFailed
<1>4. After(s, "return") \in {"mark", "return", "enqueue", "done"}
  BY DEF After
<1>5. a.status # base.status
  BY <1>1, <1>2 DEF Open, Terminal
<1> HIDE DEF a
<1> QED
  BY <1>1, <1>2, <1>3, <1>4, <1>5, CommitStep

(* A crash ends every session.                                             *)
LEMMA SessionsCrash ==
  ASSUME IndInv, CountsRise, Crash
  PROVE  Rest'
<1>1. /\ payments \in [Payments -> Row] /\ session \in [Sessions -> Session]
      /\ authorized \in [Payments -> Nat] /\ confirms \in [Payments -> Nat]
      /\ UNCHANGED <<payments, confirms>>
  BY DEF IndInv, TypeOK, Crash
<1>2. \A t \in Sessions :
        session'[t] = [pc |-> IF session[t].pc = "idle" THEN "idle" ELSE After(t, "idle"),
                       payment |-> session[t].payment, base |-> session[t].base,
                       mem |-> session[t].mem]
  BY CrashedSession DEF IndInv
<1>3. \A t \in Sessions :
        /\ session'[t] \in Session /\ session'[t].pc \notin Active
        /\ session'[t].base = session[t].base
  <2> SUFFICES ASSUME NEW t \in Sessions
               PROVE  /\ session'[t] \in Session /\ session'[t].pc \notin Active
                      /\ session'[t].base = session[t].base
    OBVIOUS
  <2> DEFINE x == IF session[t].pc = "idle" THEN "idle" ELSE After(t, "idle")
  <2>1. x \in {"idle", "done"}
    BY DEF After
  <2>2. session'[t] = [pc |-> x, payment |-> session[t].payment,
                       base |-> session[t].base, mem |-> session[t].mem]
    BY <1>2
  <2> HIDE DEF x
  <2> QED
    BY <1>1, <2>1, <2>2 DEF Session, Active
<1>4. session' = [t \in Sessions |-> session'[t]]
  BY DEF Crash
<1>5. RowTypes'
  BY <1>1, <1>3, <1>4 DEF RowTypes
<1>6. HistoryIsAPath' /\ RetryCountNotOverstated'
  BY <1>1 DEF IndInv, HistoryIsAPath, RetryCountNotOverstated
<1>7. CopiesFollowReads' /\ ReadsNotOverstated'
  BY <1>3 DEF IndInv, CopiesFollowReads, ReadsNotOverstated, Active
<1>8. SuccessWasAuthorized'
  BY <1>1 DEF IndInv, SuccessWasAuthorized, CountsRise
<1> QED
  BY <1>5, <1>6, <1>7, <1>8 DEF Rest

-----------------------------------------------------------------------------
(* The invariant, whoever confirms.                                        *)

LEMMA IndInit == PaymentProcessingAssumption /\ Init => IndInv
<1> SUFFICES ASSUME PaymentProcessingAssumption, Init
             PROVE  IndInv
  OBVIOUS
<1>1. (CHOOSE p \in Payments : TRUE) \in Payments
  BY DEF PaymentProcessingAssumption
<1>2. Created \in Row /\ IsPath(Created) /\ Created.retry_count = 0
      /\ Created.status = "pending"
  BY DEF Created, Row, Statuses, IsPath
<1>3. (CHOOSE j \in Jobs : TRUE) \in Jobs
  <2>1. MaxJobs \in Nat /\ 0 \in 0..MaxJobs
    BY DEF PaymentProcessingAssumption
  <2>2. <<CHOOSE p \in Payments : TRUE, 0>> \in Jobs
    BY <1>1, <2>1 DEF Jobs
  <2> QED
    BY <2>2
<1>4. MaxAttempts \in Nat /\ MaxCrashes \in Nat /\ MaxDbErrors \in Nat
  BY DEF PaymentProcessingAssumption
<1>5. session \in [Sessions -> Session]
  BY <1>1, <1>2 DEF Init, Session
<1> HIDE DEF Created
<1>6. TypeOK
  BY <1>2, <1>3, <1>4, <1>5 DEF Init, TypeOK
<1>7. HistoryIsAPath
  BY <1>2 DEF Init, HistoryIsAPath, IsPath
<1>8. CopiesFollowReads /\ ReadsNotOverstated
  BY <1>2 DEF Init, CopiesFollowReads, ReadsNotOverstated, Active
<1>9. RetryCountNotOverstated /\ SuccessWasAuthorized
  BY <1>2 DEF Init, RetryCountNotOverstated, SuccessWasAuthorized
<1> QED
  BY <1>6, <1>7, <1>8, <1>9 DEF IndInv

LEMMA IndStep == PaymentProcessingAssumption /\ IndInv /\ [Next]_vars => IndInv'
<1> SUFFICES ASSUME PaymentProcessingAssumption, IndInv, [Next]_vars
             PROVE  IndInv'
  OBVIOUS
<1>1. CountsRise /\ JobTypes'
  BY OtherTypes DEF IndInv
<1>2. Rest'
  <2>1. ASSUME NEW s \in Sessions, Confirmation(s)
        PROVE  Rest'
    <3>1. CASE RefuseTerminal(s)
      BY <1>1, <3>1, GotoStep DEF RefuseTerminal, Raises, After, chargeVars
    <3>2. CASE FlushAttempt(s)
      BY <1>1, <3>2, FlushStep
    <3>3. CASE Authorize(s) \/ FailSoftly(s) \/ FailHard(s)
      BY <1>1, <3>3, AnswerStep
    <3>4. CASE MarkFailed(s)
      BY <1>1, <3>4, MarkFailedStep
    <3>5. CASE MarkTerminal(s)
      <4>1. PICK pc \in {"idle", "done", "return"} : Goto(s, pc)
        BY <3>5 DEF MarkTerminal, Raises, After
      <4>2. session[s].pc \in Active \ {"held"} /\ UNCHANGED <<payments, confirms>>
        BY <3>5 DEF MarkTerminal, Marking, Active, chargeVars
      <4> QED
        BY <1>1, <4>1, <4>2, GotoStep
    <3> QED
      BY <2>1, <3>1, <3>2, <3>3, <3>4, <3>5 DEF Confirmation
  <2>2. ASSUME NEW j \in Jobs, TakeJob(j)
        PROVE  Rest'
    <3>1. Worker \in Sessions /\ j[1] \in Payments
      BY DEF Sessions, Jobs
    <3> QED
      BY <1>1, <2>2, <3>1, ReadStep DEF TakeJob, chargeVars
  <2>3. ASSUME NEW c \in Clients, NEW p \in Payments, RequestConfirm(c, p)
        PROVE  Rest'
    <3>1. c \in Sessions
      BY DEF Sessions
    <3> QED
      BY <1>1, <2>3, <3>1, ReadStep DEF RequestConfirm, chargeVars
  <2>4. CASE EnqueueRetry \/ FinishJob
    <3>1. Worker \in Sessions
      BY DEF Sessions
    <3>2. PICK pc \in {"idle", "done", "return"} : Goto(Worker, pc)
      BY <2>4 DEF EnqueueRetry, FinishJob
    <3>3. /\ session[Worker].pc \in Active \ {"held"}
          /\ UNCHANGED <<payments, confirms>>
      BY <2>4 DEF EnqueueRetry, FinishJob, Active, chargeVars
    <3> QED
      BY <1>1, <3>1, <3>2, <3>3, GotoStep
  <2>5. ASSUME NEW s \in Sessions, DbError(s)
        PROVE  Rest'
    BY <1>1, <2>5, GotoStep DEF DbError, Raises, After
  <2>10. CASE ConsumerEnds
    <3>1. Goto(Worker, "ended") /\ UNCHANGED <<payments, confirms>> /\ Worker \in Sessions
      BY <2>10 DEF ConsumerEnds, Sessions
    <3> QED
      BY <1>1, <3>1, GotoStep
  <2>6. CASE Crash
    BY <1>1, <2>6, SessionsCrash
  <2>7. CASE UNCHANGED vars
    BY <2>7 DEF IndInv, TypeOK, Rest, RowTypes, HistoryIsAPath, CopiesFollowReads,
       ReadsNotOverstated, RetryCountNotOverstated, SuccessWasAuthorized, vars, chargeVars
  <2>8. \A c \in Clients : c \in Sessions
    BY DEF Sessions
  <2>9. Worker \in Sessions
    BY DEF Sessions
  <2> QED
    BY <2>1, <2>2, <2>3, <2>4, <2>5, <2>6, <2>7, <2>8, <2>9, <2>10
    DEF Next, WorkerStep, ClientStep
<1>3. TypeOK'
  BY <1>1, <1>2 DEF CountsRise, JobTypes, Rest, RowTypes, TypeOK
<1> QED
  BY <1>2, <1>3 DEF IndInv, Rest

(* IndInv holds of every behaviour: a session's copy is the row that was   *)
(* read or last committed, an attempt further while one is under way.      *)
THEOREM Invariance == Spec => []IndInv
<1>1. Init => IndInv
  BY PaymentProcessingAssumption, IndInit
<1>2. IndInv /\ [Next]_vars => IndInv'
  BY PaymentProcessingAssumption, IndStep
<1> QED
  BY <1>1, <1>2, PTL DEF Spec

(* Rows, their copies in the sessions, jobs and counts keep their types.   *)
THEOREM TypeCorrectness == Spec => []TypeOK
<1>1. IndInv => TypeOK
  BY DEF IndInv
<1> QED
  BY <1>1, Invariance, PTL

(* Whatever sessions commit over each other's rows, the column             *)
(* state_history holds a path of PaymentStateMachine from pending to the   *)
(* status of the row: of what the payment went through, only what no later *)
(* commit has replaced.                                                    *)
THEOREM HistoriesArePaths == Spec => []HistoryIsAPath
<1>1. IndInv => HistoryIsAPath
  BY DEF IndInv
<1> QED
  BY <1>1, Invariance, PTL

(* Lost updates make retry_count too small, never too large.               *)
THEOREM RetryCountsNotOverstated == Spec => []RetryCountNotOverstated
<1>1. IndInv => RetryCountNotOverstated
  BY DEF IndInv
<1> QED
  BY <1>1, Invariance, PTL

(* A payment succeeds only if the processor has authorized it, with any    *)
(* clients, errors and crashes.                                            *)
THEOREM SuccessesWereAuthorized == Spec => []SuccessWasAuthorized
<1>1. IndInv => SuccessWasAuthorized
  BY DEF IndInv
<1> QED
  BY <1>1, Invariance, PTL

-----------------------------------------------------------------------------
(* Payments that the worker alone confirms: the invariant, in parts.       *)

Pc == session[Worker].pc

(* The handler runs a job, on the payment as it is in the table.           *)
HandlerIsUpToDate ==
  Pc \in Active =>
    /\ life[current] = "running"
    /\ session[Worker].payment = current[1]
    /\ session[Worker].base = payments[current[1]]

(* The jobs of p that may yet attempt it, or give up on it.                *)
Live(j) ==
  \/ life[j] = "queued"
  \/ current = j /\ Pc \in Active \ {"return"}

IsOpen(p) == payments[p].status \in Open

(* Without a database error an open payment has one job at most to attempt *)
(* it: a job is run again only after its payment was settled.              *)
OneLiveJob ==
  dbErrors = 0 =>
    \A i, j \in Jobs : i[1] = j[1] /\ IsOpen(i[1]) /\ Live(i) /\ Live(j) => i = j

(* Then process_payment makes the first attempt, so the setting, which     *)
(* only retry_payment looks at, is not exceeded.                           *)
FirstAttemptIsFirst ==
  dbErrors = 0 =>
    \A p \in Payments :
      IsOpen(p) /\ \/ life[<<p, 0>>] = "queued"
                   \/ current = <<p, 0>> /\ Pc \in {"loaded", "held"}
        => payments[p].retry_count = 0

RetriesAreChecked ==
  Pc = "held" /\ IsRetry(current) => session[Worker].base.retry_count < MaxRetries

(* A payment that may be attempted was not authorized before.              *)
LiveIsUncharged ==
  dbErrors = 0 =>
    \A j \in Jobs : IsOpen(j[1]) /\ Live(j) => authorized[j[1]] = 0

(* NeverDropped, of a job other than one whose handler is done.            *)
OpenHasJob ==
  \A p \in Payments :
    IsOpen(p) =>
      \E j \in Jobs : /\ j[1] = p
                      /\ life[j] \in {"queued", "running", "dead"}
                      /\ ~(current = j /\ Pc = "return")

AloneInv ==
  /\ HandlerIsUpToDate
  /\ OneLiveJob
  /\ FirstAttemptIsFirst
  /\ RetriesAreChecked
  /\ LiveIsUncharged
  /\ OpenHasJob
  /\ ChargedHonestly
  /\ RetryCountIsExact

-----------------------------------------------------------------------------
(* The steps of the worker alone.                                          *)

(* A job is a pair of a payment and a number.                              *)
LEMMA Pairs ==
  ASSUME PaymentProcessingAssumption
  PROVE  /\ \A j \in Jobs : j[1] \in Payments /\ j[2] \in 0..MaxJobs
                            /\ j = <<j[1], j[2]>> /\ j[2] \in Nat
         /\ \A p \in Payments, n \in 0..MaxJobs :
              <<p, n>> \in Jobs /\ <<p, n>>[1] = p /\ <<p, n>>[2] = n
         /\ 0 \in 0..MaxJobs
<1>1. MaxJobs \in Nat
  BY DEF PaymentProcessingAssumption
<1> QED
  BY <1>1 DEF Jobs

(* The worker's session, as it is and as it goes on to another pc.         *)
LEMMA WorkerSession ==
  ASSUME IndInv
  PROVE  LET w == session[Worker]
         IN  /\ Worker \in Sessions
             /\ w.payment \in Payments /\ w.base \in Row /\ w.mem \in Row
             /\ w.pc \in Active \ {"held"} => w.mem = w.base
             /\ \A x : Goto(Worker, x) =>
                  session'[Worker] = [pc |-> x, payment |-> w.payment,
                                      base |-> w.base, mem |-> w.mem]
<1>1. Worker \in Sessions
  BY DEF Sessions
<1>2. session \in [Sessions -> Session]
  BY DEF IndInv, TypeOK
<1>3. ASSUME NEW x, Goto(Worker, x)
      PROVE  session'[Worker] =
               [pc |-> x, payment |-> session[Worker].payment,
                base |-> session[Worker].base, mem |-> session[Worker].mem]
  <2>1. session' = [session EXCEPT ![Worker] =
          [pc |-> x, payment |-> session[Worker].payment,
           base |-> session[Worker].base, mem |-> session[Worker].mem]]
    BY <1>1, <1>3, Updates DEF IndInv, Goto
  <2> QED
    BY <1>1, <1>2, <2>1
<1> QED
  BY <1>1, <1>2, <1>3 DEF IndInv, CopiesFollowReads, Session

(* Alone, the worker's commit makes its copy the row.                      *)
LEMMA AloneCommit ==
  ASSUME IndInv, HandlerIsUpToDate, Pc \in Active, NEW mem \in Row, NEW pc,
         Commit(Worker, mem, pc)
  PROVE  /\ payments' = [payments EXCEPT ![current[1]] = mem]
         /\ session'[Worker] =
              [pc |-> pc, payment |-> current[1], base |-> mem, mem |-> mem]
<1>1. /\ session[Worker].payment = current[1] /\ current[1] \in Payments
      /\ session[Worker].base = payments[current[1]]
  BY WorkerSession DEF HandlerIsUpToDate
<1>2. /\ payments \in [Payments -> Row] /\ session \in [Sessions -> Session]
  BY DEF IndInv, TypeOK
<1>3. Merge(payments[current[1]], session[Worker].base, mem) = mem
  BY <1>1, <1>2, Merges
<1> QED
  BY <1>1, <1>2, <1>3, WorkerSession DEF Commit

(* The job that is taken was live already.                                 *)
LEMMA TakeJobAlone ==
  ASSUME PaymentProcessingAssumption, IndInv, AloneInv, NEW j \in Jobs, TakeJob(j)
  PROVE  AloneInv'
<1>1. /\ Pc = "idle" /\ life[j] = "queued" /\ j[1] \in Payments
      /\ current' = j /\ life' = [life EXCEPT ![j] = "running"]
      /\ session'[Worker] = [pc |-> "loaded", payment |-> j[1],
                             base |-> payments[j[1]], mem |-> payments[j[1]]]
      /\ UNCHANGED <<payments, authorized, confirms, dbErrors>>
  BY Pairs, WorkerSession
  DEF IndInv, TypeOK, TakeJob, Queue!Begin, Pc, chargeVars, faultVars
<1>2. /\ Pc' = "loaded" /\ life'[j] = "running"
      /\ \A i \in Jobs \ {j} : life'[i] = life[i]
  BY <1>1 DEF IndInv, TypeOK, Pc
<1>3. \A i \in Jobs : Live(i)' => Live(i)
  BY <1>1, <1>2 DEF Live
<1>4. HandlerIsUpToDate'
  BY <1>1, <1>2 DEF HandlerIsUpToDate
<1>5. OneLiveJob' /\ LiveIsUncharged'
  BY <1>1, <1>3, Pairs DEF AloneInv, OneLiveJob, LiveIsUncharged, IsOpen
<1>6. FirstAttemptIsFirst'
  BY <1>1, <1>2, Pairs DEF AloneInv, FirstAttemptIsFirst, IsOpen
<1>7. RetriesAreChecked'
  BY <1>2 DEF RetriesAreChecked
<1>8. OpenHasJob'
  <2> SUFFICES ASSUME NEW p \in Payments, IsOpen(p)
               PROVE  \E i \in Jobs : /\ i[1] = p
                                      /\ life'[i] \in {"queued", "running", "dead"}
                                      /\ ~(current' = i /\ Pc' = "return")
    BY <1>1 DEF OpenHasJob, IsOpen
  <2>1. PICK i \in Jobs : i[1] = p /\ life[i] \in {"queued", "running", "dead"}
    BY DEF AloneInv, OpenHasJob
  <2>2. life'[i] \in {"queued", "running", "dead"}
    BY <1>2, <2>1
  <2> QED
    BY <1>2, <2>1, <2>2
<1>9. ChargedHonestly' /\ RetryCountIsExact'
  BY <1>1 DEF AloneInv, ChargedHonestly, RetryCountIsExact
<1> QED
  BY <1>4, <1>5, <1>6, <1>7, <1>8, <1>9 DEF AloneInv

(* A handler that ends because its payment is settled, or that is done.    *)
LEMMA EndAlone ==
  ASSUME PaymentProcessingAssumption, IndInv, AloneInv,
         RefuseTerminal(Worker) \/ MarkTerminal(Worker) \/ FinishJob
  PROVE  AloneInv'
<1>1. /\ Pc \in {"loaded", "mark", "return"} /\ current \in Jobs
      /\ current[1] \in Payments /\ life[current] = "running"
      /\ session[Worker].payment = current[1]
      /\ session[Worker].base = payments[current[1]]
      /\ session[Worker].mem = payments[current[1]]
  BY Pairs, WorkerSession
  DEF IndInv, TypeOK, AloneInv, HandlerIsUpToDate, RefuseTerminal, MarkTerminal,
      FinishJob, Confirming, Marking, Pc, Active
<1>2. /\ UNCHANGED <<payments, current, authorized, confirms, dbErrors>>
      /\ Pc' \in {"idle", "return"}
      /\ session'[Worker].payment = session[Worker].payment
      /\ session'[Worker].base = session[Worker].base
      /\ Pc' = "return" => life' = life
      /\ \A i \in Jobs \ {current} : life'[i] = life[i]
      /\ life'[current] = "completed" => Pc = "return"
      /\ life'[current] = "queued" => ~IsOpen(current[1])
      /\ Pc # "return" => ~IsOpen(current[1])
  <2>1. CASE RefuseTerminal(Worker)
    <3>1. /\ payments[current[1]].status \in Terminal /\ Goto(Worker, "idle")
          /\ Queue!Raise(current)
          /\ UNCHANGED <<payments, current, authorized, confirms, dbErrors>>
      BY <1>1, <2>1
      DEF RefuseTerminal, Refused, Raises, After, chargeVars, faultVars
    <3>2. /\ life'[current] \in {"queued", "dead"}
          /\ \A i \in Jobs \ {current} : life'[i] = life[i]
      BY <1>1, <3>1 DEF IndInv, TypeOK, Queue!Raise
    <3>3. session'[Worker] = [pc |-> "idle", payment |-> session[Worker].payment,
                              base |-> session[Worker].base, mem |-> session[Worker].mem]
      BY <3>1, WorkerSession
    <3> QED
      BY <3>1, <3>2, <3>3 DEF IsOpen, Open, Pc
  <2>2. CASE MarkTerminal(Worker)
    <3>1. /\ payments[current[1]].status \in Terminal
          /\ UNCHANGED <<payments, current, authorized, confirms, dbErrors>>
          /\ \/ Goto(Worker, "return") /\ life' = life
             \/ Goto(Worker, "idle") /\ Queue!Raise(current)
      BY <1>1, <2>2
      DEF MarkTerminal, Raises, After, Terminal, jobVars, chargeVars, faultVars
    <3>2. /\ Queue!Raise(current) => life'[current] \in {"queued", "dead"}
          /\ \A i \in Jobs \ {current} : life'[i] = life[i]
      BY <1>1, <3>1 DEF IndInv, TypeOK, Queue!Raise
    <3>3. PICK x \in {"return", "idle"} :
            /\ session'[Worker] = [pc |-> x, payment |-> session[Worker].payment,
                                   base |-> session[Worker].base,
                                   mem |-> session[Worker].mem]
            /\ \/ x = "return" /\ life' = life
               \/ x = "idle" /\ Queue!Raise(current)
      <4>1. CASE Goto(Worker, "return") /\ life' = life
        BY <4>1, WorkerSession
      <4>2. CASE Goto(Worker, "idle") /\ Queue!Raise(current)
        BY <4>2, WorkerSession
      <4> QED
        BY <3>1, <4>1, <4>2
    <3> QED
      BY <1>1, <3>1, <3>2, <3>3 DEF IsOpen, Open, Pc
  <2>3. CASE FinishJob
    <3>1. /\ Pc = "return" /\ Goto(Worker, "idle")
          /\ life' = [life EXCEPT ![current] = "completed"]
          /\ UNCHANGED <<payments, current, authorized, confirms, dbErrors>>
      BY <2>3 DEF FinishJob, Queue!Succeed, Pc, chargeVars, faultVars
    <3>2. /\ life'[current] = "completed"
          /\ \A i \in Jobs \ {current} : life'[i] = life[i]
      BY <1>1, <3>1 DEF IndInv, TypeOK
    <3>3. session'[Worker] = [pc |-> "idle", payment |-> session[Worker].payment,
                              base |-> session[Worker].base, mem |-> session[Worker].mem]
      BY <3>1, WorkerSession
    <3> QED
      BY <3>1, <3>2, <3>3 DEF Pc
  <2> QED
    BY <2>1, <2>2, <2>3
<1>3. \A i \in Jobs : IsOpen(i[1]) /\ Live(i)' => Live(i)
  BY <1>1, <1>2 DEF Live, Active
<1>4. HandlerIsUpToDate'
  BY <1>1, <1>2 DEF HandlerIsUpToDate, Active
<1>5. OneLiveJob' /\ LiveIsUncharged'
  BY <1>2, <1>3 DEF AloneInv, OneLiveJob, LiveIsUncharged, IsOpen
<1>6. FirstAttemptIsFirst'
  <2> SUFFICES ASSUME dbErrors = 0, NEW p \in Payments, IsOpen(p),
                      life'[<<p, 0>>] = "queued"
               PROVE  payments[p].retry_count = 0
    BY <1>2 DEF FirstAttemptIsFirst, IsOpen
  <2>1. <<p, 0>> \in Jobs /\ <<p, 0>>[1] = p
    BY Pairs
  <2>2. life[<<p, 0>>] = "queued"
    BY <1>2, <2>1
  <2> QED
    BY <2>2 DEF AloneInv, FirstAttemptIsFirst
<1>7. RetriesAreChecked'
  BY <1>2 DEF RetriesAreChecked
<1>8. OpenHasJob'
  <2> SUFFICES ASSUME NEW p \in Payments, IsOpen(p)
               PROVE  \E i \in Jobs : /\ i[1] = p
                                      /\ life'[i] \in {"queued", "running", "dead"}
                                      /\ ~(current = i /\ Pc' = "return")
    BY <1>2 DEF OpenHasJob, IsOpen
  <2>1. PICK i \in Jobs : /\ i[1] = p /\ life[i] \in {"queued", "running", "dead"}
                          /\ ~(current = i /\ Pc = "return")
    BY DEF AloneInv, OpenHasJob
  <2>2. i # current
    BY <1>2, <2>1
  <2> QED
    BY <1>2, <2>1, <2>2
<1>9. ChargedHonestly' /\ RetryCountIsExact'
  BY <1>2 DEF AloneInv, ChargedHonestly, RetryCountIsExact
<1> QED
  BY <1>4, <1>5, <1>6, <1>7, <1>8, <1>9 DEF AloneInv

(* The row is still what was read, and open.                               *)
LEMMA FlushAlone ==
  ASSUME PaymentProcessingAssumption, IndInv, AloneInv, FlushAttempt(Worker)
  PROVE  AloneInv'
<1>1. /\ Pc = "loaded" /\ ~GivesUp(Worker)
      /\ session[Worker].mem = session[Worker].base
      /\ UNCHANGED <<payments, current, life, authorized, confirms, dbErrors>>
  BY WorkerSession
  DEF FlushAttempt, Confirming, Pc, Active, jobVars, chargeVars, faultVars
<1>2. session'[Worker] = [pc |-> "held", payment |-> session[Worker].payment,
                          base |-> session[Worker].base,
                          mem |-> Attempted(session[Worker].mem)]
  <2>1. session' = [session EXCEPT ![Worker] =
          [pc |-> "held", payment |-> session[Worker].payment,
           base |-> session[Worker].base, mem |-> Attempted(session[Worker].mem)]]
    BY WorkerSession, Updates DEF IndInv, FlushAttempt
  <2> QED
    BY <2>1, WorkerSession DEF IndInv, TypeOK
<1>3. Pc' = "held"
  BY <1>2 DEF Pc
<1>4. \A i \in Jobs : Live(i)' => Live(i)
  BY <1>1, <1>3 DEF Live, Active
<1>5. HandlerIsUpToDate'
  BY <1>1, <1>2, <1>3 DEF AloneInv, HandlerIsUpToDate, Active
<1>6. OneLiveJob' /\ LiveIsUncharged' /\ FirstAttemptIsFirst'
  BY <1>1, <1>3, <1>4
  DEF AloneInv, OneLiveJob, LiveIsUncharged, FirstAttemptIsFirst, IsOpen
<1>7. RetriesAreChecked'
  <2>1. session[Worker].base.retry_count \in Nat /\ MaxRetries \in Nat
    BY WorkerSession DEF Row, PaymentProcessingAssumption
  <2> QED
    BY <1>1, <1>2, <2>1 DEF RetriesAreChecked, GivesUp
<1>8. OpenHasJob' /\ ChargedHonestly' /\ RetryCountIsExact'
  BY <1>1, <1>3 DEF AloneInv, OpenHasJob, ChargedHonestly, RetryCountIsExact, IsOpen
<1> QED
  BY <1>5, <1>6, <1>7, <1>8 DEF AloneInv

(* What the processor's answer does to a payment that only the worker has. *)
LEMMA AnswerEffect ==
  ASSUME PaymentProcessingAssumption, IndInv, HandlerIsUpToDate,
         Authorize(Worker) \/ FailSoftly(Worker) \/ FailHard(Worker)
  PROVE  LET p == current[1]
         IN  /\ Pc = "held" /\ p \in Payments /\ current \in Jobs /\ IsOpen(p)
             /\ session[Worker].base = payments[p] /\ life[current] = "running"
             /\ UNCHANGED <<current, life, dbErrors>>
             /\ confirms' = [confirms EXCEPT ![p] = @ + 1]
             /\ \E a \in Row :
                  /\ payments' = [payments EXCEPT ![p] = a]
                  /\ a.retry_count = payments[p].retry_count + 1
                  /\ IsPrefix(payments[p].history, a.history)
                  /\ session'[Worker].base = a /\ session'[Worker].payment = p
                  /\ \/ /\ a.status = "success" /\ Pc' = "return"
                        /\ authorized' = [authorized EXCEPT ![p] = @ + 1]
                     \/ /\ a.status = "failed" /\ Pc' = "return"
                        /\ authorized' = authorized
                     \/ /\ a.status = "processing" /\ Pc' \in {"mark", "enqueue"}
                        /\ authorized' = authorized
<1> DEFINE p == current[1]
           base == session[Worker].base
           mem == session[Worker].mem
<1>1. /\ Pc = "held" /\ session[Worker].pc = "held" /\ Pc \in Active
      /\ p \in Payments /\ current \in Jobs
      /\ session[Worker].payment = p
      /\ base = payments[p] /\ life[current] = "running"
      /\ UNCHANGED <<current, life, dbErrors>>
  BY WorkerSession
  DEF IndInv, TypeOK, HandlerIsUpToDate, Active, Pc, Authorize, FailSoftly, FailHard,
      jobVars, faultVars
<1>2. /\ mem \in Row /\ base.status \in Open /\ mem.status = "processing"
      /\ mem.retry_count = base.retry_count + 1
      /\ base \in Row /\ base.history \in Seq(Statuses)
      /\ mem.history \in {base.history, Append(base.history, "processing")}
  BY <1>1, WorkerSession, HeldCopies DEF Row
<1>7. /\ IsPrefix(payments[p].history, mem.history)
      /\ \A x \in Statuses : IsPrefix(payments[p].history, Append(mem.history, x))
  BY <1>1, <1>2, Lengthened DEF Statuses
<1>3. IsOpen(p) /\ confirms' = [confirms EXCEPT ![p] = @ + 1]
  BY <1>1, <1>2 DEF IsOpen, Authorize, FailSoftly, FailHard
<1>4. CASE Authorize(Worker)
  <2> DEFINE a == [Transition(mem, "success") EXCEPT !.failure_class = "none"]
  <2>1. /\ a \in Row /\ a.status = "success" /\ a.retry_count = mem.retry_count
        /\ IsPrefix(payments[p].history, a.history)
    BY <1>2, <1>7, Answers DEF Terminal, Statuses
  <2>2. /\ Commit(Worker, a, "return")
        /\ authorized' = [authorized EXCEPT ![p] = @ + 1]
    BY <1>1, <1>4 DEF Authorize, After
  <2> HIDE DEF a
  <2>3. /\ payments' = [payments EXCEPT ![p] = a]
        /\ session'[Worker] = [pc |-> "return", payment |-> p, base |-> a, mem |-> a]
    BY <1>1, <2>1, <2>2, AloneCommit
  <2>4. /\ Pc' = "return" /\ session'[Worker].base = a /\ session'[Worker].payment = p
        /\ a.retry_count = payments[p].retry_count + 1
    BY <1>1, <1>2, <2>1, <2>3 DEF Pc
  <2> QED
    BY <1>1, <1>3, <2>1, <2>2, <2>3, <2>4
<1>5. CASE FailHard(Worker)
  <2> DEFINE a == [Transition(mem, "failed") EXCEPT !.failure_class = "hard"]
  <2>1. /\ a \in Row /\ a.status = "failed" /\ a.retry_count = mem.retry_count
        /\ IsPrefix(payments[p].history, a.history)
    BY <1>2, <1>7, Answers DEF Terminal, Statuses
  <2>2. Commit(Worker, a, "return") /\ authorized' = authorized
    BY <1>5 DEF FailHard, After
  <2> HIDE DEF a
  <2>3. /\ payments' = [payments EXCEPT ![p] = a]
        /\ session'[Worker] = [pc |-> "return", payment |-> p, base |-> a, mem |-> a]
    BY <1>1, <2>1, <2>2, AloneCommit
  <2>4. /\ Pc' = "return" /\ session'[Worker].base = a /\ session'[Worker].payment = p
        /\ a.retry_count = payments[p].retry_count + 1
    BY <1>1, <1>2, <2>1, <2>3 DEF Pc
  <2> QED
    BY <1>1, <1>3, <2>1, <2>2, <2>3, <2>4
<1>6. CASE FailSoftly(Worker)
  <2> DEFINE a == [mem EXCEPT !.failure_class = "soft"]
             pc == AfterSoftFailure(Worker)
  <2>1. /\ a \in Row /\ a.status = "processing" /\ a.retry_count = mem.retry_count
        /\ IsPrefix(payments[p].history, a.history)
    BY <1>2, <1>7 DEF Row
  <2>2. Commit(Worker, a, pc) /\ authorized' = authorized
    BY <1>6 DEF FailSoftly
  <2>3. pc \in {"mark", "enqueue"}
    BY DEF AfterSoftFailure, After
  <2> HIDE DEF a, pc
  <2>4. /\ payments' = [payments EXCEPT ![p] = a]
        /\ session'[Worker] = [pc |-> pc, payment |-> p, base |-> a, mem |-> a]
    BY <1>1, <2>1, <2>2, AloneCommit
  <2>5. /\ Pc' \in {"mark", "enqueue"} /\ session'[Worker].base = a
        /\ session'[Worker].payment = p
        /\ a.retry_count = payments[p].retry_count + 1
    BY <1>1, <1>2, <2>1, <2>3, <2>4 DEF Pc
  <2> QED
    BY <1>1, <1>3, <2>1, <2>2, <2>4, <2>5
<1> QED
  BY <1>4, <1>5, <1>6

(* The attempt is the payment's first, or was checked against the setting, *)
(* and its job the only one that may attempt it.                           *)
LEMMA AnswerAlone ==
  ASSUME PaymentProcessingAssumption, IndInv, AloneInv,
         Authorize(Worker) \/ FailSoftly(Worker) \/ FailHard(Worker)
  PROVE  AloneInv'
<1> DEFINE p == current[1]
<1>1. /\ Pc = "held" /\ p \in Payments /\ current \in Jobs /\ IsOpen(p)
      /\ session[Worker].base = payments[p] /\ life[current] = "running"
      /\ UNCHANGED <<current, life, dbErrors>>
      /\ confirms' = [confirms EXCEPT ![p] = @ + 1]
  BY AnswerEffect DEF AloneInv
<1>2. PICK a \in Row :
        /\ payments' = [payments EXCEPT ![p] = a]
        /\ a.retry_count = payments[p].retry_count + 1
        /\ session'[Worker].base = a /\ session'[Worker].payment = p
        /\ \/ /\ a.status = "success" /\ Pc' = "return"
              /\ authorized' = [authorized EXCEPT ![p] = @ + 1]
           \/ /\ a.status = "failed" /\ Pc' = "return"
              /\ authorized' = authorized
           \/ /\ a.status = "processing" /\ Pc' \in {"mark", "enqueue"}
              /\ authorized' = authorized
  BY AnswerEffect DEF AloneInv
<1>3. /\ payments \in [Payments -> Row]
      /\ authorized \in [Payments -> Nat] /\ confirms \in [Payments -> Nat]
  BY DEF IndInv, TypeOK
<1>4. /\ payments'[p] = a /\ confirms'[p] = confirms[p] + 1
      /\ \A q \in Payments \ {p} :
           /\ payments'[q] = payments[q] /\ confirms'[q] = confirms[q]
           /\ authorized'[q] = authorized[q]
      /\ Live(current) /\ \A i \in Jobs : Live(i)' => Live(i)
      /\ \A q \in Payments : IsOpen(q)' => IsOpen(q)
      /\ IsOpen(p)' => a.status = "processing" /\ authorized' = authorized
  <2>1. /\ payments'[p] = a /\ confirms'[p] = confirms[p] + 1
        /\ \A q \in Payments \ {p} :
             /\ payments'[q] = payments[q] /\ confirms'[q] = confirms[q]
             /\ authorized'[q] = authorized[q]
    BY <1>1, <1>2, <1>3
  <2>2. Live(current) /\ \A i \in Jobs : Live(i)' => Live(i)
    BY <1>1, <1>2 DEF Live, Active
  <2>3. /\ \A q \in Payments : IsOpen(q)' => IsOpen(q)
        /\ IsOpen(p)' => a.status = "processing" /\ authorized' = authorized
    BY <1>1, <1>2, <2>1 DEF IsOpen, Open, Terminal
  <2> QED
    BY <2>1, <2>2, <2>3
<1>5. HandlerIsUpToDate'
  BY <1>1, <1>2, <1>4 DEF HandlerIsUpToDate
<1>6. OneLiveJob'
  BY <1>1, <1>4, Pairs DEF AloneInv, OneLiveJob
<1>7. LiveIsUncharged'
  <2> SUFFICES ASSUME dbErrors = 0, NEW j \in Jobs, IsOpen(j[1])', Live(j)'
               PROVE  authorized'[j[1]] = 0
    BY <1>1 DEF LiveIsUncharged
  <2>1. j[1] \in Payments /\ authorized[j[1]] = 0
    BY <1>4, Pairs DEF AloneInv, LiveIsUncharged
  <2>2. j[1] = p => IsOpen(p)'
    BY <1>1 DEF IsOpen
  <2> QED
    BY <1>4, <2>1, <2>2
<1>8. FirstAttemptIsFirst'
  <2> SUFFICES ASSUME dbErrors = 0, NEW q \in Payments, IsOpen(q)',
                      life[<<q, 0>>] = "queued"
               PROVE  payments'[q].retry_count = 0
    BY <1>1, <1>2 DEF FirstAttemptIsFirst
  <2>1. <<q, 0>> \in Jobs /\ <<q, 0>>[1] = q /\ IsOpen(q)
    BY <1>4, Pairs
  <2>2. q # p
    <3>1. Live(<<q, 0>>) /\ <<q, 0>> # current
      BY <1>1 DEF Live
    <3> QED
      BY <1>1, <1>4, <2>1, <3>1 DEF AloneInv, OneLiveJob
  <2> QED
    BY <1>4, <2>1, <2>2 DEF AloneInv, FirstAttemptIsFirst
<1>9. RetriesAreChecked'
  BY <1>2 DEF RetriesAreChecked
<1>10. OpenHasJob'
  <2> SUFFICES ASSUME NEW q \in Payments, IsOpen(q)'
               PROVE  \E i \in Jobs : /\ i[1] = q
                                      /\ life[i] \in {"queued", "running", "dead"}
                                      /\ ~(current = i /\ Pc' = "return")
    BY <1>1 DEF OpenHasJob
  <2>1. CASE q = p
    BY <1>1, <1>2, <1>4, <2>1
  <2>2. CASE q # p
    <3>1. PICK i \in Jobs : i[1] = q /\ life[i] \in {"queued", "running", "dead"}
      BY <1>4 DEF AloneInv, OpenHasJob
    <3> QED
      BY <2>2, <3>1
  <2> QED
    BY <2>1, <2>2
<1>11. ChargedHonestly'
  <2> SUFFICES ASSUME dbErrors = 0, NEW q \in Payments
               PROVE  /\ payments'[q].status = "success" => authorized'[q] = 1
                      /\ payments'[q].status = "failed" => authorized'[q] = 0
                      /\ authorized'[q] <= 1
    BY <1>1 DEF ChargedHonestly
  <2>1. CASE q = p
    <3>1. authorized[p] = 0
      BY <1>1, <1>4 DEF AloneInv, LiveIsUncharged
    <3> QED
      BY <1>1, <1>2, <1>3, <1>4, <2>1, <3>1
  <2>2. CASE q # p
    BY <1>4, <2>2 DEF AloneInv, ChargedHonestly
  <2> QED
    BY <2>1, <2>2
<1>12. RetryCountIsExact'
  <2>1. dbErrors = 0 => payments[p].retry_count < MaxRetries
    <3>1. MaxRetries \in Nat \ {0} /\ payments[p].retry_count \in Nat
      BY <1>1, <1>3 DEF PaymentProcessingAssumption, Row
    <3>2. CASE IsRetry(current)
      BY <1>1, <3>2 DEF AloneInv, RetriesAreChecked
    <3>3. CASE ~IsRetry(current)
      <4>1. current = <<p, 0>>
        BY <1>1, <3>3, Pairs DEF IsRetry
      <4>2. dbErrors = 0 => payments[p].retry_count = 0
        BY <1>1, <4>1 DEF AloneInv, FirstAttemptIsFirst
      <4> QED
        BY <3>1, <4>2
    <3> QED
      BY <3>2, <3>3
  <2>2. /\ payments[p].retry_count \in Nat /\ payments[p].retry_count = confirms[p]
        /\ MaxRetries \in Nat
    BY <1>1, <1>3 DEF PaymentProcessingAssumption, Row, AloneInv, RetryCountIsExact
  <2>3. /\ payments'[p].retry_count = confirms'[p]
        /\ dbErrors = 0 => payments'[p].retry_count <= MaxRetries
    BY <1>2, <1>4, <2>1, <2>2
  <2> QED
    BY <1>1, <1>4, <2>3 DEF AloneInv, RetryCountIsExact
<1> QED
  BY <1>5, <1>6, <1>7, <1>8, <1>9, <1>10, <1>11, <1>12 DEF AloneInv

(* Giving up, on a payment that only the worker has.                       *)
LEMMA MarkFailedEffect ==
  ASSUME IndInv, HandlerIsUpToDate, MarkFailed(Worker)
  PROVE  LET p == current[1]
         IN  /\ p \in Payments /\ current \in Jobs /\ IsOpen(p)
             /\ life[current] = "running"
             /\ Pc \in {"loaded", "mark"} /\ Pc' = "return"
             /\ UNCHANGED <<current, life, authorized, confirms, dbErrors>>
             /\ \E a \in Row :
                  /\ payments' = [payments EXCEPT ![p] = a]
                  /\ a.status = "failed"
                  /\ a.retry_count = payments[p].retry_count
                  /\ IsPrefix(payments[p].history, a.history)
                  /\ session'[Worker].base = a /\ session'[Worker].payment = p
<1> DEFINE p == current[1]
           a == GivenUp(payments[p])
<1>1. /\ Pc \in {"loaded", "mark"} /\ p \in Payments /\ current \in Jobs
      /\ life[current] = "running"
      /\ session[Worker].mem = payments[p] /\ payments[p] \in Row
      /\ payments[p].status \in Open
      /\ UNCHANGED <<current, life, authorized, confirms, dbErrors>>
  BY WorkerSession
  DEF IndInv, TypeOK, HandlerIsUpToDate, Active, Pc, MarkFailed, Marking, Open, Row,
      jobVars, chargeVars, faultVars
<1>2. /\ a \in Row /\ a.status = "failed" /\ a.retry_count = payments[p].retry_count
      /\ IsPrefix(payments[p].history, a.history)
  BY <1>1, GivingUp
<1>3. Commit(Worker, a, "return")
  BY <1>1 DEF MarkFailed, After
<1> HIDE DEF a
<1>4. /\ payments' = [payments EXCEPT ![p] = a]
      /\ session'[Worker] = [pc |-> "return", payment |-> p, base |-> a, mem |-> a]
  BY <1>1, <1>2, <1>3, AloneCommit DEF Active
<1>5. /\ Pc' = "return"
      /\ session'[Worker].base = a /\ session'[Worker].payment = p
  BY <1>4 DEF Pc
<1> QED
  BY <1>1, <1>2, <1>4, <1>5 DEF IsOpen

LEMMA MarkFailedAlone ==
  ASSUME PaymentProcessingAssumption, IndInv, AloneInv, MarkFailed(Worker)
  PROVE  AloneInv'
<1> DEFINE p == current[1]
<1>1. /\ p \in Payments /\ current \in Jobs /\ IsOpen(p) /\ life[current] = "running"
      /\ Pc \in {"loaded", "mark"} /\ Pc' = "return"
      /\ UNCHANGED <<current, life, authorized, confirms, dbErrors>>
  BY MarkFailedEffect DEF AloneInv
<1>2. PICK a \in Row :
        /\ payments' = [payments EXCEPT ![p] = a]
        /\ a.status = "failed"
        /\ a.retry_count = payments[p].retry_count
        /\ session'[Worker].base = a /\ session'[Worker].payment = p
  BY MarkFailedEffect DEF AloneInv
<1>3. /\ payments'[p] = a /\ \A q \in Payments \ {p} : payments'[q] = payments[q]
  BY <1>1, <1>2 DEF IndInv, TypeOK
<1>4. /\ Live(current) /\ \A i \in Jobs : Live(i)' => Live(i)
      /\ \A q \in Payments : IsOpen(q)' => IsOpen(q) /\ q # p
  <2>1. Live(current) /\ \A i \in Jobs : Live(i)' => Live(i)
    BY <1>1 DEF Live, Active
  <2>2. \A q \in Payments : IsOpen(q)' => IsOpen(q) /\ q # p
    BY <1>1, <1>2, <1>3 DEF IsOpen, Open, Terminal
  <2> QED
    BY <2>1, <2>2
<1>5. HandlerIsUpToDate'
  BY <1>1, <1>2, <1>3 DEF HandlerIsUpToDate
<1>6. OneLiveJob' /\ LiveIsUncharged'
  BY <1>1, <1>4, Pairs DEF AloneInv, OneLiveJob, LiveIsUncharged
<1>7. FirstAttemptIsFirst'
  BY <1>1, <1>3, <1>4 DEF AloneInv, FirstAttemptIsFirst
<1>8. RetriesAreChecked'
  BY <1>1 DEF RetriesAreChecked
<1>9. OpenHasJob'
  <2> SUFFICES ASSUME NEW q \in Payments, IsOpen(q)'
               PROVE  \E i \in Jobs : /\ i[1] = q
                                      /\ life[i] \in {"queued", "running", "dead"}
                                      /\ ~(current = i /\ Pc' = "return")
    BY <1>1 DEF OpenHasJob
  <2>1. PICK i \in Jobs : i[1] = q /\ life[i] \in {"queued", "running", "dead"}
    BY <1>4 DEF AloneInv, OpenHasJob
  <2> QED
    BY <1>4, <2>1
<1>10. ChargedHonestly'
  <2>1. dbErrors = 0 => authorized[p] = 0
    BY <1>1, <1>4 DEF AloneInv, LiveIsUncharged
  <2> QED
    BY <1>1, <1>2, <1>3, <2>1 DEF AloneInv, ChargedHonestly
<1>11. RetryCountIsExact'
  BY <1>1, <1>2, <1>3 DEF AloneInv, RetryCountIsExact
<1> QED
  BY <1>5, <1>6, <1>7, <1>8, <1>9, <1>10, <1>11 DEF AloneInv

(* The job of the retry takes the place of the one that enqueues it.       *)
LEMMA EnqueueAlone ==
  ASSUME PaymentProcessingAssumption, IndInv, AloneInv, EnqueueRetry
  PROVE  AloneInv'
<1> DEFINE p == current[1]
<1>1. PICK n \in 1..MaxJobs : Queue!Create(<<p, n>>)
  BY DEF EnqueueRetry
<1> DEFINE new == <<p, n>>
<1>2. /\ Pc = "enqueue" /\ current \in Jobs /\ p \in Payments
      /\ life[current] = "running"
      /\ session[Worker].payment = p /\ session[Worker].base = payments[p]
      /\ UNCHANGED <<payments, current, authorized, confirms, dbErrors>>
  BY Pairs DEF IndInv, TypeOK, AloneInv, HandlerIsUpToDate, EnqueueRetry, Pc, Active,
     chargeVars, faultVars
<1>3. new \in Jobs /\ new[1] = p /\ n # 0 /\ \A q : <<q, 0>> # new
  <2>1. n \in 0..MaxJobs /\ n # 0
    BY DEF PaymentProcessingAssumption
  <2> QED
    BY <1>2, <2>1, Pairs
<1>4. /\ life[new] = "absent" /\ life' = [life EXCEPT ![new] = "queued"]
  BY <1>1 DEF Queue!Create
<1>5. /\ life'[new] = "queued" /\ new # current
      /\ \A i \in Jobs \ {new} : life'[i] = life[i]
  BY <1>2, <1>3, <1>4 DEF IndInv, TypeOK
<1>6. session'[Worker] = [pc |-> "return", payment |-> session[Worker].payment,
                          base |-> session[Worker].base, mem |-> session[Worker].mem]
  BY WorkerSession DEF EnqueueRetry
<1>7. Pc' = "return"
  BY <1>6 DEF Pc
<1> HIDE DEF new
<1>8. Live(current) /\ \A i \in Jobs : Live(i)' => i # current /\ (i = new \/ Live(i))
  BY <1>2, <1>5, <1>7 DEF Live, Active
<1>9. HandlerIsUpToDate'
  BY <1>2, <1>5, <1>6 DEF HandlerIsUpToDate
<1>10. OneLiveJob'
  <2> SUFFICES ASSUME dbErrors = 0, NEW i \in Jobs, NEW j \in Jobs, i[1] = j[1],
                      IsOpen(i[1]), Live(i)', Live(j)'
               PROVE  i = j
    BY <1>2 DEF OneLiveJob, IsOpen
  <2>1. \A k \in Jobs : k[1] = p /\ IsOpen(p) /\ Live(k) => k = current
    BY <1>2, <1>8 DEF AloneInv, OneLiveJob
  <2> QED
    BY <1>3, <1>8, <2>1 DEF AloneInv, OneLiveJob
<1>11. LiveIsUncharged'
  BY <1>2, <1>3, <1>8 DEF AloneInv, LiveIsUncharged, IsOpen
<1>12. FirstAttemptIsFirst'
  BY <1>2, <1>3, <1>5, <1>7, Pairs DEF AloneInv, FirstAttemptIsFirst, IsOpen
<1>13. RetriesAreChecked'
  BY <1>7 DEF RetriesAreChecked
<1>14. OpenHasJob'
  <2> SUFFICES ASSUME NEW q \in Payments, IsOpen(q)
               PROVE  \E i \in Jobs : /\ i[1] = q
                                      /\ life'[i] \in {"queued", "running", "dead"}
                                      /\ current # i
    BY <1>2 DEF OpenHasJob, IsOpen
  <2>1. CASE q = p
    BY <1>3, <1>5, <2>1
  <2>2. CASE q # p
    <3>1. PICK i \in Jobs : i[1] = q /\ life[i] \in {"queued", "running", "dead"}
      BY DEF AloneInv, OpenHasJob
    <3> QED
      BY <1>3, <1>5, <2>2, <3>1
  <2> QED
    BY <2>1, <2>2
<1>15. ChargedHonestly' /\ RetryCountIsExact'
  BY <1>2 DEF AloneInv, ChargedHonestly, RetryCountIsExact
<1> QED
  BY <1>9, <1>10, <1>11, <1>12, <1>13, <1>14, <1>15 DEF AloneInv

(* After a database error a job may run again: then only the exact count   *)
(* and the job in reserve are promised.                                    *)
LEMMA DbErrorAlone ==
  ASSUME PaymentProcessingAssumption, IndInv, AloneInv, DbError(Worker)
  PROVE  AloneInv'
<1>1. /\ Goto(Worker, "idle") /\ Queue!Raise(current) /\ current \in Jobs
      /\ dbErrors' = dbErrors + 1 /\ dbErrors \in Nat
      /\ UNCHANGED <<payments, current, confirms>>
  BY DEF IndInv, TypeOK, DbError, Raises, After, PaymentProcessingAssumption
<1>2. /\ life'[current] \in {"queued", "dead"}
      /\ \A i \in Jobs \ {current} : life'[i] = life[i]
  BY <1>1 DEF Queue!Raise, IndInv, TypeOK
<1>3. Pc' = "idle"
  <2>1. session'[Worker] = [pc |-> "idle", payment |-> session[Worker].payment,
                            base |-> session[Worker].base, mem |-> session[Worker].mem]
    BY <1>1, WorkerSession
  <2> QED
    BY <2>1 DEF Pc
<1>4. dbErrors' # 0
  BY <1>1
<1>5. HandlerIsUpToDate' /\ RetriesAreChecked'
  BY <1>3 DEF HandlerIsUpToDate, RetriesAreChecked, Active
<1>6. OneLiveJob' /\ FirstAttemptIsFirst' /\ LiveIsUncharged' /\ ChargedHonestly'
  BY <1>4 DEF OneLiveJob, FirstAttemptIsFirst, LiveIsUncharged, ChargedHonestly
<1>7. OpenHasJob'
  <2> SUFFICES ASSUME NEW p \in Payments, IsOpen(p)
               PROVE  \E i \in Jobs : /\ i[1] = p
                                      /\ life'[i] \in {"queued", "running", "dead"}
    BY <1>1, <1>3 DEF OpenHasJob, IsOpen
  <2>1. PICK i \in Jobs : i[1] = p /\ life[i] \in {"queued", "running", "dead"}
    BY DEF AloneInv, OpenHasJob
  <2> QED
    BY <1>2, <2>1
<1>8. RetryCountIsExact'
  BY <1>1, <1>4 DEF AloneInv, RetryCountIsExact
<1> QED
  BY <1>5, <1>6, <1>7, <1>8 DEF AloneInv

(* A consumer task that ends leaves its job as it is.                      *)
LEMMA ConsumerEndsAlone ==
  ASSUME PaymentProcessingAssumption, IndInv, AloneInv, ConsumerEnds
  PROVE  AloneInv'
<1>1. /\ Goto(Worker, "ended") /\ dbErrors' = dbErrors + 1 /\ dbErrors \in Nat
      /\ UNCHANGED <<payments, current, life, confirms>>
  BY DEF IndInv, TypeOK, ConsumerEnds, jobVars, PaymentProcessingAssumption
<1>2. Pc' = "ended"
  <2>1. session'[Worker] = [pc |-> "ended", payment |-> session[Worker].payment,
                            base |-> session[Worker].base, mem |-> session[Worker].mem]
    BY <1>1, WorkerSession
  <2> QED
    BY <2>1 DEF Pc
<1>3. dbErrors' # 0
  BY <1>1
<1>4. HandlerIsUpToDate' /\ RetriesAreChecked'
  BY <1>2 DEF HandlerIsUpToDate, RetriesAreChecked, Active
<1>5. OneLiveJob' /\ FirstAttemptIsFirst' /\ LiveIsUncharged' /\ ChargedHonestly'
  BY <1>3 DEF OneLiveJob, FirstAttemptIsFirst, LiveIsUncharged, ChargedHonestly
<1>6. OpenHasJob' /\ RetryCountIsExact'
  BY <1>1, <1>2, <1>3 DEF AloneInv, OpenHasJob, RetryCountIsExact, IsOpen
<1> QED
  BY <1>4, <1>5, <1>6 DEF AloneInv

(* What a crash can do to a payment: the answer that was under way is lost *)
LEMMA CrashEffect ==
  ASSUME Clients = {}, IndInv, AloneInv, Crash
  PROVE  /\ Pc' = "idle"
         /\ UNCHANGED <<payments, current, life, confirms, dbErrors>>
         /\ \/ authorized' = authorized
            \/ /\ Pc = "held" /\ current[1] \in Payments /\ IsOpen(current[1])
               /\ authorized' = [authorized EXCEPT ![current[1]] = @ + 1]
<1>1. UNCHANGED <<payments, current, life, confirms, dbErrors>>
  BY DEF Crash, LifeAfterCrash
<1>2. Pc' = "idle"
  <2>1. Worker \in Sessions
    BY WorkerSession
  <2>2. session'[Worker] =
          [pc |-> IF session[Worker].pc = "idle" THEN "idle" ELSE After(Worker, "idle"),
           payment |-> session[Worker].payment, base |-> session[Worker].base,
           mem |-> session[Worker].mem]
    BY <2>1, CrashedSession DEF IndInv
  <2>3. session'[Worker].pc = IF session[Worker].pc = "idle" THEN "idle"
                              ELSE After(Worker, "idle")
    BY <2>2
  <2> QED
    BY <2>3 DEF Pc, After
<1>3. PICK lost \in SUBSET {session[s].payment : s \in
                              {t \in Sessions : session[t].pc = "held"}} :
        authorized' = [p \in Payments |-> authorized[p] + (IF p \in lost THEN 1 ELSE 0)]
  BY DEF Crash
<1>4. authorized \in [Payments -> Nat]
  BY DEF IndInv, TypeOK
<1>5. CASE lost = {}
  BY <1>1, <1>2, <1>3, <1>4, <1>5
<1>6. CASE lost # {}
  <2>1. Sessions = {Worker}
    BY DEF Sessions
  <2>2. Pc = "held" /\ lost = {session[Worker].payment}
    BY <1>6, <2>1 DEF Pc
  <2>3. session[Worker].payment = current[1] /\ current[1] \in Payments
    BY <2>2, WorkerSession DEF AloneInv, HandlerIsUpToDate, Active
  <2>4. IsOpen(current[1])
    BY <2>1, <2>2, <2>3
    DEF IndInv, CopiesFollowReads, AloneInv, HandlerIsUpToDate, IsOpen, Pc, Active
  <2>5. authorized' = [authorized EXCEPT ![current[1]] = @ + 1]
    <3> DEFINE p == current[1]
    <3>1. lost = {p} /\ p \in Payments
      BY <2>2, <2>3
    <3> HIDE DEF p
    <3>2. authorized' \in [Payments -> Nat]
      BY <1>3, <1>4
    <3>3. \A q \in Payments :
            authorized'[q] = authorized[q] + (IF q = p THEN 1 ELSE 0)
      BY <1>3, <3>1
    <3>4. authorized' = [authorized EXCEPT ![p] = @ + 1]
      BY <1>4, <3>1, <3>2, <3>3
    <3> QED
      BY <3>4 DEF p
  <2> QED
    BY <1>1, <1>2, <2>2, <2>3, <2>4, <2>5
<1> QED
  BY <1>5, <1>6

(* The job whose answer is lost is no longer live.                         *)
LEMMA CrashAlone ==
  ASSUME PaymentProcessingAssumption, Clients = {}, IndInv, AloneInv, Crash
  PROVE  AloneInv'
<1> DEFINE p == current[1]
<1>1. /\ Pc' = "idle"
      /\ UNCHANGED <<payments, current, life, confirms, dbErrors>>
      /\ \/ authorized' = authorized
         \/ /\ Pc = "held" /\ p \in Payments /\ IsOpen(p)
            /\ authorized' = [authorized EXCEPT ![p] = @ + 1]
  BY CrashEffect
<1>2. \A i \in Jobs : Live(i)' => Live(i) /\ life[i] = "queued"
  BY <1>1 DEF Live, Active
<1>3. HandlerIsUpToDate' /\ RetriesAreChecked'
  BY <1>1 DEF HandlerIsUpToDate, RetriesAreChecked, Active
<1>4. OneLiveJob' /\ FirstAttemptIsFirst' /\ OpenHasJob' /\ RetryCountIsExact'
  BY <1>1, <1>2 DEF AloneInv, OneLiveJob, FirstAttemptIsFirst, OpenHasJob,
     RetryCountIsExact, IsOpen
<1>5. CASE authorized' = authorized
  <2>1. LiveIsUncharged' /\ ChargedHonestly'
    BY <1>1, <1>2, <1>5 DEF AloneInv, LiveIsUncharged, ChargedHonestly, IsOpen
  <2> QED
    BY <1>3, <1>4, <2>1 DEF AloneInv
<1>6. CASE /\ Pc = "held" /\ p \in Payments /\ IsOpen(p)
           /\ authorized' = [authorized EXCEPT ![p] = @ + 1]
  <2>1. /\ current \in Jobs /\ Live(current) /\ life[current] = "running"
        /\ authorized \in [Payments -> Nat]
    BY <1>6 DEF IndInv, TypeOK, AloneInv, HandlerIsUpToDate, Live, Active
  <2>2. /\ authorized'[p] = authorized[p] + 1
        /\ \A q \in Payments \ {p} : authorized'[q] = authorized[q]
    BY <1>6, <2>1
  <2>3. LiveIsUncharged'
    <3> SUFFICES ASSUME dbErrors = 0, NEW j \in Jobs, IsOpen(j[1]), Live(j)'
                 PROVE  authorized'[j[1]] = 0
      BY <1>1 DEF LiveIsUncharged, IsOpen
    <3>1. Live(j) /\ j # current
      BY <1>2, <2>1
    <3>2. j[1] # p
      BY <2>1, <3>1 DEF AloneInv, OneLiveJob
    <3> QED
      BY <2>2, <3>1, <3>2, Pairs DEF AloneInv, LiveIsUncharged
  <2>4. ChargedHonestly'
    <3>1. dbErrors = 0 => authorized[p] = 0
      BY <1>6, <2>1 DEF AloneInv, LiveIsUncharged
    <3>2. payments[p].status \notin Terminal
      BY <1>6 DEF IsOpen, Open
    <3> QED
      BY <1>1, <2>1, <2>2, <3>1, <3>2 DEF AloneInv, ChargedHonestly, Terminal
  <2> QED
    BY <1>3, <1>4, <2>3, <2>4 DEF AloneInv
<1> QED
  BY <1>1, <1>5, <1>6

-----------------------------------------------------------------------------
(* The invariant of the worker alone.                                      *)

LEMMA AloneInit == PaymentProcessingAssumption /\ Init => AloneInv
<1> SUFFICES ASSUME PaymentProcessingAssumption, Init
             PROVE  AloneInv
  OBVIOUS
<1>1. /\ Worker \in Sessions /\ MaxRetries \in Nat
      /\ Created.status = "pending" /\ Created.retry_count = 0
  BY DEF Sessions, PaymentProcessingAssumption, Created
<1>2. Pc = "idle" /\ dbErrors = 0
  BY <1>1 DEF Init, Pc
<1>3. /\ \A p \in Payments : /\ payments[p] = Created
                             /\ authorized[p] = 0 /\ confirms[p] = 0
      /\ \A j \in Jobs : life[j] = IF IsRetry(j) THEN "absent" ELSE "queued"
  BY DEF Init
<1>4. \A j \in Jobs : Live(j) => j = <<j[1], 0>>
  BY <1>2, <1>3, Pairs DEF Live, Active, IsRetry
<1>5. HandlerIsUpToDate /\ RetriesAreChecked
  BY <1>2 DEF HandlerIsUpToDate, RetriesAreChecked, Active
<1>6. OneLiveJob
  <2> SUFFICES ASSUME NEW i \in Jobs, NEW j \in Jobs, i[1] = j[1], Live(i), Live(j)
               PROVE  i = j
    BY DEF OneLiveJob
  <2>1. i = <<i[1], 0>> /\ j = <<j[1], 0>>
    BY <1>4
  <2> QED
    BY <2>1
<1>7. FirstAttemptIsFirst /\ LiveIsUncharged
  BY <1>1, <1>3, Pairs DEF FirstAttemptIsFirst, LiveIsUncharged
<1>8. OpenHasJob
  <2> SUFFICES ASSUME NEW p \in Payments
               PROVE  \E j \in Jobs : j[1] = p /\ life[j] = "queued"
    BY <1>2 DEF OpenHasJob
  <2>1. /\ <<p, 0>> \in Jobs /\ <<p, 0>>[1] = p /\ ~IsRetry(<<p, 0>>)
    BY Pairs DEF IsRetry
  <2> QED
    BY <1>3, <2>1
<1>9. ChargedHonestly /\ RetryCountIsExact
  BY <1>1, <1>3 DEF ChargedHonestly, RetryCountIsExact
<1> QED
  BY <1>5, <1>6, <1>7, <1>8, <1>9 DEF AloneInv

(* Without clients every step is the worker's, or a fault.                 *)
LEMMA AloneSteps ==
  ASSUME Clients = {}, Next
  PROVE  \/ \E j \in Jobs : TakeJob(j)
         \/ RefuseTerminal(Worker) \/ MarkTerminal(Worker) \/ FinishJob
         \/ FlushAttempt(Worker)
         \/ Authorize(Worker) \/ FailSoftly(Worker) \/ FailHard(Worker)
         \/ MarkFailed(Worker)
         \/ EnqueueRetry
         \/ DbError(Worker)
         \/ ConsumerEnds
         \/ Crash
BY DEF Next, WorkerStep, Confirmation, Sessions

LEMMA AloneStep ==
  PaymentProcessingAssumption /\ Clients = {} /\ IndInv /\ AloneInv /\ [Next]_vars
    => AloneInv'
<1> SUFFICES ASSUME PaymentProcessingAssumption, Clients = {}, IndInv, AloneInv,
                    [Next]_vars
             PROVE  AloneInv'
  OBVIOUS
<1>1. CASE Next
  BY <1>1, AloneSteps, TakeJobAlone, EndAlone, FlushAlone, AnswerAlone, MarkFailedAlone,
     EnqueueAlone, DbErrorAlone, ConsumerEndsAlone, CrashAlone
<1>2. CASE UNCHANGED vars
  BY <1>2 DEF AloneInv, HandlerIsUpToDate, OneLiveJob, FirstAttemptIsFirst,
     RetriesAreChecked, LiveIsUncharged, OpenHasJob, ChargedHonestly, RetryCountIsExact,
     Live, IsOpen, Pc, vars, jobVars, chargeVars, faultVars
<1> QED
  BY <1>1, <1>2

(* Alone, the worker has read what is in the table, and an open payment    *)
(* has one job that may attempt it as long as no database error occurs.    *)
THEOREM AloneInvariance ==
  ASSUME Clients = {}
  PROVE  Spec => [](IndInv /\ AloneInv)
<1>1. Init => AloneInv
  BY PaymentProcessingAssumption, AloneInit
<1>2. IndInv /\ AloneInv /\ [Next]_vars => AloneInv'
  BY PaymentProcessingAssumption, AloneStep
<1> QED
  BY <1>1, <1>2, Invariance, PTL DEF Spec

(* Without database errors the customer is charged exactly when told so:   *)
(* no crash makes a payment fail that was charged, or charges one twice.   *)
THEOREM CustomersAreChargedHonestly ==
  ASSUME Clients = {}
  PROVE  Spec => []ChargedHonestly
<1>1. AloneInv => ChargedHonestly
  BY DEF AloneInv
<1> QED
  BY <1>1, AloneInvariance, PTL

(* retry_count is the number of attempts committed, and within the setting *)
(* without database errors.                                                *)
THEOREM RetryCountsAreExact ==
  ASSUME Clients = {}
  PROVE  Spec => []RetryCountIsExact
<1>1. AloneInv => RetryCountIsExact
  BY DEF AloneInv
<1> QED
  BY <1>1, AloneInvariance, PTL

(* Through errors and crashes an open payment has a job that is queued,    *)
(* was under way or is listed among the dead.                              *)
THEOREM NoPaymentIsDropped ==
  ASSUME Clients = {}
  PROVE  Spec => []NeverDropped
<1>1. IndInv /\ AloneInv => NeverDropped
  BY DEF IndInv, TypeOK, Row, AloneInv, OpenHasJob, NeverDropped, IsOpen, Open
<1> QED
  BY <1>1, AloneInvariance, PTL

-----------------------------------------------------------------------------
(* The refinement of PaymentLifecycle.tla.                                 *)

(* A step that leaves rows and charges alone is a stutter.                 *)
LEMMA LifecycleStutters ==
  ASSUME UNCHANGED <<payments, authorized>>
  PROVE  UNCHANGED Lifecycle!vars
BY DEF Lifecycle!vars

(* An answer that is lost, of an open payment.                             *)
LEMMA AnswerIsLost ==
  ASSUME NEW p \in Payments, IsOpen(p), UNCHANGED payments,
         authorized' = [authorized EXCEPT ![p] = @ + 1]
  PROVE  Lifecycle!Next
<1>1. Lifecycle!LoseAnswer(p)
  BY DEF Lifecycle!LoseAnswer, Lifecycle!Open, IsOpen, Open, Statuses, Terminal
<1> QED
  BY <1>1 DEF Lifecycle!Next

(* A commit of the worker is an attempt, a charge or a failure.            *)
LEMMA CommitIsAStep ==
  ASSUME IndInv, NEW p \in Payments, IsOpen(p), NEW a \in Row,
         payments' = [payments EXCEPT ![p] = a],
         \/ /\ a.status = "success"
            /\ authorized' = [authorized EXCEPT ![p] = @ + 1]
         \/ a.status \in {"failed", "processing"} /\ authorized' = authorized
  PROVE  Lifecycle!Next
<1>1. [q \in Payments |-> payments'[q].status] =
        [[q \in Payments |-> payments[q].status] EXCEPT ![p] = a.status]
  BY DEF IndInv, TypeOK
<1>2. payments[p].status \in {"pending", "processing"}
  BY DEF IsOpen, Open, Statuses, Terminal
<1>3. CASE /\ a.status = "success"
           /\ authorized' = [authorized EXCEPT ![p] = @ + 1]
  <2>1. Lifecycle!Charge(p)
    BY <1>1, <1>2, <1>3 DEF Lifecycle!Charge, Lifecycle!Open
  <2> QED
    BY <2>1 DEF Lifecycle!Next
<1>4. CASE a.status = "failed" /\ authorized' = authorized
  <2>1. Lifecycle!Fail(p)
    BY <1>1, <1>2, <1>4 DEF Lifecycle!Fail, Lifecycle!Open
  <2> QED
    BY <2>1 DEF Lifecycle!Next
<1>5. CASE a.status = "processing" /\ authorized' = authorized
  <2>1. Lifecycle!Attempt(p)
    BY <1>1, <1>2, <1>5 DEF Lifecycle!Attempt, Lifecycle!Open
  <2> QED
    BY <2>1 DEF Lifecycle!Next
<1> QED
  BY <1>3, <1>4, <1>5

(* Every step of the worker alone is a step of the life cycle, or none.    *)
LEMMA LifecycleStep ==
  ASSUME PaymentProcessingAssumption, Clients = {}, IndInv, AloneInv, [Next]_vars
  PROVE  [Lifecycle!Next]_(Lifecycle!vars)
<1>1. HandlerIsUpToDate
  BY DEF AloneInv
<1>2. CASE \/ \E j \in Jobs : TakeJob(j)
           \/ RefuseTerminal(Worker) \/ MarkTerminal(Worker) \/ FinishJob
           \/ FlushAttempt(Worker) \/ EnqueueRetry \/ UNCHANGED vars
  <2>1. UNCHANGED <<payments, authorized>>
    BY <1>2 DEF TakeJob, RefuseTerminal, MarkTerminal, FinishJob, FlushAttempt,
       EnqueueRetry, vars, chargeVars
  <2> QED
    BY <2>1, LifecycleStutters
<1>3. CASE Authorize(Worker) \/ FailSoftly(Worker) \/ FailHard(Worker)
  <2>1. current[1] \in Payments /\ IsOpen(current[1])
    BY <1>1, <1>3, AnswerEffect
  <2>2. PICK a \in Row :
          /\ payments' = [payments EXCEPT ![current[1]] = a]
          /\ \/ /\ a.status = "success"
                /\ authorized' = [authorized EXCEPT ![current[1]] = @ + 1]
             \/ a.status \in {"failed", "processing"} /\ authorized' = authorized
    BY <1>1, <1>3, AnswerEffect
  <2> QED
    BY <2>1, <2>2, CommitIsAStep
<1>4. CASE MarkFailed(Worker)
  <2>1. current[1] \in Payments /\ IsOpen(current[1]) /\ authorized' = authorized
    BY <1>1, <1>4, MarkFailedEffect
  <2>2. PICK a \in Row : /\ payments' = [payments EXCEPT ![current[1]] = a]
                         /\ a.status = "failed"
    BY <1>1, <1>4, MarkFailedEffect
  <2> QED
    BY <2>1, <2>2, CommitIsAStep
<1>5. CASE DbError(Worker) \/ ConsumerEnds
  <2>1. /\ payments' = payments
        /\ \/ authorized' = authorized
           \/ /\ Pc = "held"
              /\ authorized' = [authorized EXCEPT ![session[Worker].payment] = @ + 1]
    BY <1>5 DEF DbError, ConsumerEnds, MayLoseAnswer, Pc
  <2>2. CASE authorized' = authorized
    BY <2>1, <2>2, LifecycleStutters
  <2>3. CASE /\ Pc = "held"
             /\ authorized' = [authorized EXCEPT ![session[Worker].payment] = @ + 1]
    <3>1. session[Worker].payment \in Payments /\ IsOpen(session[Worker].payment)
      BY <1>1, <2>3, WorkerSession
      DEF IndInv, CopiesFollowReads, HandlerIsUpToDate, IsOpen, Pc, Active
    <3> QED
      BY <2>1, <2>3, <3>1, AnswerIsLost DEF Pc
  <2> QED
    BY <2>1, <2>2, <2>3
<1>6. CASE Crash
  <2>1. CASE authorized' = authorized
    BY <1>6, <2>1, CrashEffect, LifecycleStutters
  <2>2. CASE authorized' # authorized
    BY <1>6, <2>2, CrashEffect, AnswerIsLost
  <2> QED
    BY <2>1, <2>2
<1> QED
  BY <1>2, <1>3, <1>4, <1>5, <1>6, AloneSteps

(* Confirmed by the worker alone, a payment lives as PaymentLifecycle.tla  *)
(* says: it is charged only while it is open, and settled once.            *)
THEOREM ImplementsLifecycle ==
  ASSUME Clients = {}
  PROVE  Spec => LifecycleSpec
<1>1. Init => Lifecycle!Init
  BY DEF Init, Lifecycle!Init, Created
<1>2. IndInv /\ AloneInv /\ [Next]_vars => [Lifecycle!Next]_(Lifecycle!vars)
  BY PaymentProcessingAssumption, LifecycleStep
<1>3. [](IndInv /\ AloneInv) /\ [][Next]_vars => [][Lifecycle!Next]_(Lifecycle!vars)
  BY <1>2, PTL
<1> QED
  BY <1>1, <1>3, AloneInvariance, PTL DEF Spec, LifecycleSpec, Lifecycle!Spec

(* So a settled payment never changes again, unless clients confirm, too.  *)
THEOREM AloneTerminalIsFinal ==
  ASSUME Clients = {}
  PROVE  Spec => TerminalIsFinal
<1> DEFINE Keeps == \A p \in Payments :
                      payments[p].status \in Terminal =>
                        /\ payments'[p].status = payments[p].status
                        /\ payments'[p].history = payments[p].history
<1>1. ASSUME IndInv, AloneInv, [Next]_vars
      PROVE  Keeps
  <2>1. payments \in [Payments -> Row] /\ HandlerIsUpToDate
    BY <1>1 DEF IndInv, TypeOK, AloneInv
  <2>2. CASE UNCHANGED payments
    BY <2>2
  <2>3. CASE /\ current[1] \in Payments /\ IsOpen(current[1])
             /\ \E a \in Row : payments' = [payments EXCEPT ![current[1]] = a]
    <3>1. \A p \in Payments \ {current[1]} : payments'[p] = payments[p]
      BY <2>1, <2>3
    <3>2. payments[current[1]].status \notin Terminal
      BY <2>3 DEF IsOpen, Open, Terminal
    <3> QED
      BY <3>1, <3>2
  <2>4. CASE Authorize(Worker) \/ FailSoftly(Worker) \/ FailHard(Worker)
    BY <1>1, <2>1, <2>3, <2>4, AnswerEffect, PaymentProcessingAssumption
  <2>5. CASE MarkFailed(Worker)
    BY <1>1, <2>1, <2>3, <2>5, MarkFailedEffect
  <2>6. CASE \/ \E j \in Jobs : TakeJob(j)
             \/ RefuseTerminal(Worker) \/ MarkTerminal(Worker) \/ FinishJob
             \/ FlushAttempt(Worker) \/ EnqueueRetry \/ DbError(Worker)
             \/ ConsumerEnds \/ Crash \/ UNCHANGED vars
    <3>1. UNCHANGED payments
      BY <2>6 DEF TakeJob, RefuseTerminal, MarkTerminal, FinishJob, FlushAttempt,
         EnqueueRetry, DbError, ConsumerEnds, Crash, vars
    <3> QED
      BY <2>2, <3>1
  <2> QED
    BY <1>1, <2>4, <2>5, <2>6, AloneSteps
<1>2. IndInv /\ AloneInv /\ [Next]_vars => [Keeps]_vars
  BY <1>1
<1>3. [](IndInv /\ AloneInv) /\ [][Next]_vars => [][Keeps]_vars
  BY <1>2, PTL
<1> QED
  BY <1>3, AloneInvariance, PTL DEF Spec, TerminalIsFinal

(* And state_history keeps all it has recorded: the worker alone commits   *)
(* on the row it has read.                                                 *)
THEOREM AloneHistoryOnlyGrows ==
  ASSUME Clients = {}
  PROVE  Spec => HistoryOnlyGrows
<1> DEFINE Grows == \A p \in Payments :
                      IsPrefix(payments[p].history, payments'[p].history)
<1>1. ASSUME IndInv, AloneInv, [Next]_vars
      PROVE  Grows
  <2>1. payments \in [Payments -> Row] /\ HandlerIsUpToDate
    BY <1>1 DEF IndInv, TypeOK, AloneInv
  <2>2. \A p \in Payments : IsPrefix(payments[p].history, payments[p].history)
    <3>1. \A p \in Payments : payments[p].history \in Seq(Statuses)
      BY <2>1 DEF Row
    <3> QED
      BY <3>1, Lengthened
  <2>3. CASE UNCHANGED payments
    BY <2>2, <2>3
  <2>4. CASE /\ current[1] \in Payments
             /\ \E a \in Row : /\ payments' = [payments EXCEPT ![current[1]] = a]
                              /\ IsPrefix(payments[current[1]].history, a.history)
    <3>1. PICK a \in Row : /\ payments' = [payments EXCEPT ![current[1]] = a]
                           /\ IsPrefix(payments[current[1]].history, a.history)
      BY <2>4
    <3>2. /\ payments'[current[1]] = a
          /\ \A p \in Payments \ {current[1]} : payments'[p] = payments[p]
      BY <2>1, <2>4, <3>1
    <3> QED
      BY <2>2, <3>1, <3>2
  <2>5. CASE Authorize(Worker) \/ FailSoftly(Worker) \/ FailHard(Worker)
    BY <1>1, <2>1, <2>4, <2>5, AnswerEffect, PaymentProcessingAssumption
  <2>6. CASE MarkFailed(Worker)
    BY <1>1, <2>1, <2>4, <2>6, MarkFailedEffect
  <2>7. CASE \/ \E j \in Jobs : TakeJob(j)
             \/ RefuseTerminal(Worker) \/ MarkTerminal(Worker) \/ FinishJob
             \/ FlushAttempt(Worker) \/ EnqueueRetry \/ DbError(Worker)
             \/ ConsumerEnds \/ Crash \/ UNCHANGED vars
    <3>1. UNCHANGED payments
      BY <2>7 DEF TakeJob, RefuseTerminal, MarkTerminal, FinishJob, FlushAttempt,
         EnqueueRetry, DbError, ConsumerEnds, Crash, vars
    <3> QED
      BY <2>3, <3>1
  <2> QED
    BY <1>1, <2>5, <2>6, <2>7, AloneSteps
<1>2. IndInv /\ AloneInv /\ [Next]_vars => [Grows]_vars
  BY <1>1
<1>3. [](IndInv /\ AloneInv) /\ [][Next]_vars => [][Grows]_vars
  BY <1>2, PTL
<1> QED
  BY <1>3, AloneInvariance, PTL DEF Spec, HistoryOnlyGrows

=============================================================================
