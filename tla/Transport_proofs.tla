-------------------------- MODULE Transport_proofs --------------------------
(***************************************************************************)
(* Safety of the request pipeline for any number of calls, any endpoints   *)
(* and any retry configuration.                                            *)
(*                                                                         *)
(* The properties are not inductive: what a call may report depends on     *)
(* where its attempts are.  IInv says so: an attempt that is not handed    *)
(* over yet is nowhere, one that is in the network is not executed, and    *)
(* only a call that is not on its last attempt sleeps.                     *)
(***************************************************************************)
EXTENDS Transport, TLAPS

Used(c) == network[c] \union executed[c]

AttemptInv(c) ==
  /\ pc[c] = "new" <=> attempt[c] = 0
  /\ attempt[c] <= Budget(route[c])
  /\ pc[c] = "backoff" => attempt[c] < Budget(route[c])
  /\ Used(c) \subseteq 1..attempt[c]
  /\ network[c] \intersect executed[c] = {}
  /\ pc[c] = "send" => attempt[c] \notin Used(c)

AnswerInv(c) ==
  /\ pc[c] = "done" <=> outcome[c] # "none"
  /\ pc[c] = "wait" /\ reply[c] # "none" => attempt[c] \notin network[c]
  /\ pc[c] = "wait" /\ reply[c] = "ok" => attempt[c] \in executed[c]
  /\ pc[c] = "wait" /\ reply[c] = "refused" => attempt[c] \notin Used(c)
  /\ outcome[c] = "ok" => attempt[c] \in executed[c]
  /\ outcome[c] \in {"refused", "client_closed"} => attempt[c] \notin Used(c)
  /\ outcome[c] \in {"busy", "transport_error"} => attempt[c] = Budget(route[c])

SleepInv(c) ==
  /\ pc[c] = "new" => slept[c] = 0
  /\ pc[c] \in {"send", "wait"} => slept[c] <= (attempt[c] - 1) * MaxDelay
  /\ pc[c] = "backoff" => slept[c] <= attempt[c] * MaxDelay
  /\ pc[c] = "done" => slept[c] <= (Budget(route[c]) - 1) * MaxDelay

RequestInv(c) == AttemptInv(c) /\ AnswerInv(c) /\ SleepInv(c)

IInv ==
  /\ TypeOK
  /\ \A c \in Calls : RequestInv(c)

\* A step that leaves everything of call d alone.
Untouched(d) ==
  /\ pc'[d] = pc[d] /\ route'[d] = route[d] /\ attempt'[d] = attempt[d]
  /\ outcome'[d] = outcome[d] /\ slept'[d] = slept[d]
  /\ network'[d] = network[d] /\ reply'[d] = reply[d] /\ executed'[d] = executed[d]

-----------------------------------------------------------------------------
(* Every delay the retry middleware sleeps lies between 0 and max_delay,   *)
(* whatever the Retry-After header says.                                   *)
LEMMA DelayBounds ==
  ASSUME NEW n \in 1..MaxAttempts, NEW d \in ResponseDelays(n) \union {BackoffDelay(n)}
  PROVE  d \in Nat /\ d <= MaxDelay
<1> USE RetryConfigIsSane
<1>1. CASE d = BackoffDelay(n)
  <2>1. BackoffMultiplier^(n - 1) \in Nat
    BY PowersAreNumbers
  <2> DEFINE delay == InitialDelay * BackoffMultiplier^(n - 1)
  <2>2. delay \in Nat
    BY <2>1
  <2>3. d = Least(delay, MaxDelay)
    BY <1>1 DEF BackoffDelay
  <2> HIDE DEF delay
  <2> QED
    BY <2>2, <2>3 DEF Least
<1>2. ASSUME NEW v \in RetryAfterHeaders, d = ParseRetryAfter(v)
      PROVE  d \in Nat /\ d <= MaxDelay
  BY <1>2 DEF ParseRetryAfter, Least
<1> QED
  BY <1>1, <1>2 DEF ResponseDelays

\* A call is entitled to at least one attempt.
LEMMA BudgetIsPositive ==
  ASSUME NEW r
  PROVE  Budget(r) \in Nat \ {0}
BY RetryConfigIsSane DEF Budget, SinglePass

\* A call is on its last attempt exactly when its budget is used up.
LEMMA LastAttemptIsBudget ==
  ASSUME NEW c \in Calls, attempt[c] \in 1..Budget(route[c])
  PROVE  IsLastAttempt(c) <=> attempt[c] = Budget(route[c])
BY RetryConfigIsSane DEF IsLastAttempt, Budget, SinglePass

\* The invariant holds before any call is made.
THEOREM InitInv == Init => IInv
<1> SUFFICES ASSUME Init PROVE IInv
  OBVIOUS
<1>1. TypeOK
  BY DEF Init, TypeOK
<1>2. ASSUME NEW c \in Calls
      PROVE  RequestInv(c)
  <2>1. Budget(route[c]) \in Nat
    BY BudgetIsPositive
  <2> QED
    BY <2>1 DEF Init, RequestInv, AttemptInv, AnswerInv, SleepInv, Used
<1> QED
  BY <1>1, <1>2 DEF IInv

-----------------------------------------------------------------------------
\* Multiplication the provers are told about: it is monotone, and distributes.
LEMMA Product ==
  ASSUME NEW a \in Nat, NEW b \in Nat, NEW m \in Nat
  PROVE  /\ a * m \in Nat
         /\ a * m = (a - 1) * m + m
         /\ a <= b => a * m <= b * m
BY SMT

\* What is left alone keeps its invariant.
LEMMA UntouchedStep ==
  ASSUME NEW d \in Calls, RequestInv(d), Untouched(d)
  PROVE  RequestInv(d)'
BY DEF RequestInv, AttemptInv, AnswerInv, SleepInv, Used, Untouched, Budget, SinglePass

(* The invariant of a call survives every step the call itself takes, or   *)
(* the network takes for it.                                               *)
\* The call enters the pipeline: its first attempt is not handed over yet.
LEMMA CallStep ==
  ASSUME IInv, NEW c \in Calls, Call(c)
  PROVE  TypeOK' /\ RequestInv(c)' /\ \A d \in Calls \ {c} : Untouched(d)
<1> USE DEF IInv, Call
<1>1. Budget(route[c]) \in Nat \ {0} /\ MaxDelay \in Nat /\ MaxAttempts \in Nat
  BY BudgetIsPositive, RetryConfigIsSane
<1>2. TypeOK'
  BY <1>1 DEF TypeOK, Outcomes, Statuses
<1>3. \A d \in Calls \ {c} : Untouched(d)
  BY DEF TypeOK, Untouched
<1>4. AttemptInv(c)'
  BY <1>1 DEF TypeOK, RequestInv, AttemptInv, Used, Budget, SinglePass
<1>5. AnswerInv(c)'
  BY <1>1 DEF TypeOK, RequestInv, AttemptInv, AnswerInv, Used, Budget, SinglePass
<1>6. SleepInv(c)'
  BY <1>1 DEF TypeOK, RequestInv, AttemptInv, SleepInv, Budget, SinglePass
<1> QED
  BY <1>2, <1>3, <1>4, <1>5, <1>6 DEF RequestInv

\* The attempt enters the network, and is not carried out yet.
LEMMA SendStep ==
  ASSUME IInv, NEW c \in Calls, Send(c)
  PROVE  TypeOK' /\ RequestInv(c)' /\ \A d \in Calls \ {c} : Untouched(d)
<1> USE DEF IInv, Send
<1>1. Budget(route[c]) \in Nat \ {0} /\ MaxDelay \in Nat /\ MaxAttempts \in Nat
  BY BudgetIsPositive, RetryConfigIsSane
<1>2. TypeOK'
  BY <1>1 DEF TypeOK, Outcomes, Statuses
<1>3. \A d \in Calls \ {c} : Untouched(d)
  BY DEF TypeOK, Untouched
<1>4. AttemptInv(c)'
  BY <1>1 DEF TypeOK, RequestInv, AttemptInv, Used, Budget, SinglePass
<1>5. AnswerInv(c)'
  BY <1>1 DEF TypeOK, RequestInv, AttemptInv, AnswerInv, Used, Budget, SinglePass
<1>6. SleepInv(c)'
  BY <1>1 DEF TypeOK, RequestInv, AttemptInv, SleepInv, Budget, SinglePass
<1> QED
  BY <1>2, <1>3, <1>4, <1>5, <1>6 DEF RequestInv

\* The attempt that is refused by the lifecycle check is nowhere.
LEMMA SendOnClosedClientStep ==
  ASSUME IInv, NEW c \in Calls, SendOnClosedClient(c)
  PROVE  TypeOK' /\ RequestInv(c)' /\ \A d \in Calls \ {c} : Untouched(d)
<1> USE DEF IInv, SendOnClosedClient, Return
<1>1. Budget(route[c]) \in Nat \ {0} /\ MaxDelay \in Nat /\ MaxAttempts \in Nat
  BY BudgetIsPositive, RetryConfigIsSane
<1>2. TypeOK'
  BY <1>1 DEF TypeOK, Outcomes, Statuses
<1>3. \A d \in Calls \ {c} : Untouched(d)
  BY DEF TypeOK, Untouched
<1>4. AttemptInv(c)'
  BY <1>1 DEF TypeOK, RequestInv, AttemptInv, Used, Budget, SinglePass
<1>5. AnswerInv(c)'
  BY <1>1 DEF TypeOK, RequestInv, AttemptInv, AnswerInv, Used, Budget, SinglePass
<1>6. SleepInv(c)'
  <2>1. attempt[c] - 1 \in Nat /\ Budget(route[c]) - 1 \in Nat /\ slept[c] \in Nat
    BY <1>1 DEF TypeOK, RequestInv, AttemptInv
  <2>0. attempt[c] - 1 <= Budget(route[c]) - 1
    BY <1>1, <2>1 DEF TypeOK, RequestInv, AttemptInv
  <2>2. (attempt[c] - 1) * MaxDelay <= (Budget(route[c]) - 1) * MaxDelay
    BY <1>1, <2>0, <2>1, Product
  <2>3. slept[c] <= (attempt[c] - 1) * MaxDelay
    BY DEF RequestInv, SleepInv
  <2>4. slept[c] <= (Budget(route[c]) - 1) * MaxDelay
    BY <1>1, <2>1, <2>2, <2>3, Product
  <2> QED
    BY <2>4 DEF TypeOK, SleepInv, Budget, SinglePass
<1> QED
  BY <1>2, <1>3, <1>4, <1>5, <1>6 DEF RequestInv

\* A retryable answer is returned only when the budget is used up.
LEMMA ReceiveFinalStep ==
  ASSUME IInv, NEW c \in Calls, ReceiveFinal(c)
  PROVE  TypeOK' /\ RequestInv(c)' /\ \A d \in Calls \ {c} : Untouched(d)
<1> USE DEF IInv, ReceiveFinal, Return
<1>1. Budget(route[c]) \in Nat \ {0} /\ MaxDelay \in Nat /\ MaxAttempts \in Nat
  BY BudgetIsPositive, RetryConfigIsSane
<1>a. IsLastAttempt(c) <=> attempt[c] = Budget(route[c])
  <2>1. attempt[c] \in 1..Budget(route[c])
    BY <1>1 DEF TypeOK, RequestInv, AttemptInv
  <2> QED
    BY <2>1, LastAttemptIsBudget
<1>2. TypeOK'
  BY <1>1 DEF TypeOK, Outcomes, Statuses
<1>3. \A d \in Calls \ {c} : Untouched(d)
  BY DEF TypeOK, Untouched
<1>4. AttemptInv(c)'
  BY <1>1 DEF TypeOK, RequestInv, AttemptInv, Used, Budget, SinglePass
<1>5. AnswerInv(c)'
  <2>1. reply[c] = "busy" => attempt[c] = Budget(route[c])
    BY <1>a DEF IsRetryableStatus
  <2> QED
    BY <1>1, <2>1 DEF TypeOK, RequestInv, AttemptInv, AnswerInv, Used, Budget, SinglePass,
                      Statuses
<1>6. SleepInv(c)'
  <2>1. attempt[c] - 1 \in Nat /\ Budget(route[c]) - 1 \in Nat /\ slept[c] \in Nat
    BY <1>1 DEF TypeOK, RequestInv, AttemptInv
  <2>0. attempt[c] - 1 <= Budget(route[c]) - 1
    BY <1>1, <2>1 DEF TypeOK, RequestInv, AttemptInv
  <2>2. (attempt[c] - 1) * MaxDelay <= (Budget(route[c]) - 1) * MaxDelay
    BY <1>1, <2>0, <2>1, Product
  <2>3. slept[c] <= (attempt[c] - 1) * MaxDelay
    BY DEF RequestInv, SleepInv
  <2>4. slept[c] <= (Budget(route[c]) - 1) * MaxDelay
    BY <1>1, <2>1, <2>2, <2>3, Product
  <2> QED
    BY <2>4 DEF TypeOK, SleepInv, Budget, SinglePass
<1> QED
  BY <1>2, <1>3, <1>4, <1>5, <1>6 DEF RequestInv

\* A call that sleeps after an answer has another attempt left.
LEMMA ReceiveAndRetryStep ==
  ASSUME IInv, NEW c \in Calls, ReceiveAndRetry(c)
  PROVE  TypeOK' /\ RequestInv(c)' /\ \A d \in Calls \ {c} : Untouched(d)
<1> USE DEF IInv, ReceiveAndRetry, SleepFor
<1>1. Budget(route[c]) \in Nat \ {0} /\ MaxDelay \in Nat /\ MaxAttempts \in Nat
  BY BudgetIsPositive, RetryConfigIsSane
<1>a. IsLastAttempt(c) <=> attempt[c] = Budget(route[c])
  <2>1. attempt[c] \in 1..Budget(route[c])
    BY <1>1 DEF TypeOK, RequestInv, AttemptInv
  <2> QED
    BY <2>1, LastAttemptIsBudget
<1>b. PICK delay \in ResponseDelays(attempt[c]) : SleepFor(c, delay)
  OBVIOUS
<1>c. attempt[c] \in 1..MaxAttempts /\ attempt[c] < Budget(route[c])
  BY <1>1, <1>a DEF TypeOK, RequestInv, AttemptInv, Budget, SinglePass, IsLastAttempt
<1>d. delay \in Nat /\ delay <= MaxDelay
  BY <1>b, <1>c, DelayBounds
<1>2. TypeOK'
  BY <1>1, <1>b, <1>d DEF TypeOK
<1>3. \A d \in Calls \ {c} : Untouched(d)
  BY <1>b DEF TypeOK, Untouched
<1>4. AttemptInv(c)'
  BY <1>1, <1>b, <1>c DEF TypeOK, RequestInv, AttemptInv, Used, Budget, SinglePass
<1>5. AnswerInv(c)'
  BY <1>1, <1>b DEF TypeOK, RequestInv, AttemptInv, AnswerInv, Used, Budget, SinglePass
<1>6. SleepInv(c)'
  <2>1. slept[c] \in Nat /\ attempt[c] \in Nat /\ slept'[c] = slept[c] + delay
    BY <1>b DEF TypeOK
  <2>2. slept[c] <= (attempt[c] - 1) * MaxDelay
    BY DEF RequestInv, SleepInv
  <2>3. /\ attempt[c] * MaxDelay = (attempt[c] - 1) * MaxDelay + MaxDelay
        /\ (attempt[c] - 1) * MaxDelay \in Nat
    BY <1>1, <1>c, <2>1, Product
  <2>4. slept'[c] <= attempt[c] * MaxDelay
    BY <1>1, <1>d, <2>1, <2>2, <2>3
  <2> QED
    BY <1>b, <2>4 DEF TypeOK, SleepInv
<1> QED
  BY <1>2, <1>3, <1>4, <1>5, <1>6 DEF RequestInv

\* A call gives up on a lost answer only on its last attempt.
LEMMA TransportFailureStep ==
  ASSUME IInv, NEW c \in Calls, TransportFailure(c)
  PROVE  TypeOK' /\ RequestInv(c)' /\ \A d \in Calls \ {c} : Untouched(d)
<1> USE DEF IInv, TransportFailure
<1>1. Budget(route[c]) \in Nat \ {0} /\ MaxDelay \in Nat /\ MaxAttempts \in Nat
  BY BudgetIsPositive, RetryConfigIsSane
<1>a. IsLastAttempt(c) <=> attempt[c] = Budget(route[c])
  <2>1. attempt[c] \in 1..Budget(route[c])
    BY <1>1 DEF TypeOK, RequestInv, AttemptInv
  <2> QED
    BY <2>1, LastAttemptIsBudget
<1>b. CASE IsLastAttempt(c)
  <2>2. TypeOK'
    BY <1>1, <1>b DEF TypeOK, Outcomes, Statuses, Return
  <2>3. \A d \in Calls \ {c} : Untouched(d)
    BY <1>b DEF TypeOK, Untouched, Return
  <2>4. AttemptInv(c)'
    BY <1>1, <1>b DEF TypeOK, RequestInv, AttemptInv, Used, Budget, SinglePass, Return
  <2>5. AnswerInv(c)'
    BY <1>1, <1>a, <1>b DEF TypeOK, RequestInv, AttemptInv, AnswerInv, Used, Budget, SinglePass, Return
  <2>6. SleepInv(c)'
    <3>1. attempt[c] - 1 \in Nat /\ Budget(route[c]) - 1 \in Nat /\ slept[c] \in Nat
      BY <1>1 DEF TypeOK, RequestInv, AttemptInv
    <3>0. attempt[c] - 1 <= Budget(route[c]) - 1
      BY <1>1, <3>1 DEF TypeOK, RequestInv, AttemptInv
    <3>2. (attempt[c] - 1) * MaxDelay <= (Budget(route[c]) - 1) * MaxDelay
      BY <1>1, <3>0, <3>1, Product
    <3>3. slept[c] <= (attempt[c] - 1) * MaxDelay
      BY DEF RequestInv, SleepInv
    <3>4. slept[c] <= (Budget(route[c]) - 1) * MaxDelay
      BY <1>1, <3>1, <3>2, <3>3, Product
    <3> QED
      BY <1>b, <3>4 DEF TypeOK, SleepInv, Return, Budget, SinglePass
  <2> QED
    BY <2>2, <2>3, <2>4, <2>5, <2>6 DEF RequestInv
<1>c. CASE ~IsLastAttempt(c)
  <2>0. attempt[c] \in 1..MaxAttempts /\ attempt[c] < Budget(route[c])
    BY <1>1, <1>a, <1>c DEF TypeOK, RequestInv, AttemptInv, Budget, SinglePass, IsLastAttempt
  <2> DEFINE delay == BackoffDelay(attempt[c])
  <2>7. delay \in Nat /\ delay <= MaxDelay
    BY <2>0, DelayBounds
  <2>8. SleepFor(c, delay)
    BY <1>c
  <2> HIDE DEF delay
  <2>2. TypeOK'
    BY <1>1, <2>8, <2>7 DEF SleepFor, TypeOK
  <2>3. \A d \in Calls \ {c} : Untouched(d)
    BY <2>8 DEF SleepFor, TypeOK, Untouched
  <2>4. AttemptInv(c)'
    BY <1>1, <2>8, <2>0 DEF SleepFor, TypeOK, RequestInv, AttemptInv, Used, Budget, SinglePass
  <2>5. AnswerInv(c)'
    BY <1>1, <2>8 DEF SleepFor, TypeOK, RequestInv, AttemptInv, AnswerInv, Used, Budget, SinglePass
  <2>6. SleepInv(c)'
    <3>1. slept[c] \in Nat /\ attempt[c] \in Nat /\ slept'[c] = slept[c] + delay
      BY <2>8 DEF SleepFor, TypeOK
    <3>2. slept[c] <= (attempt[c] - 1) * MaxDelay
      BY DEF SleepFor, RequestInv, SleepInv
    <3>3. /\ attempt[c] * MaxDelay = (attempt[c] - 1) * MaxDelay + MaxDelay
          /\ (attempt[c] - 1) * MaxDelay \in Nat
      BY <1>1, <2>0, <3>1, Product
    <3>4. slept'[c] <= attempt[c] * MaxDelay
      BY <1>1, <2>7, <3>1, <3>2, <3>3
    <3> QED
      BY <2>8, <3>4 DEF SleepFor, TypeOK, SleepInv
  <2> QED
    BY <2>2, <2>3, <2>4, <2>5, <2>6 DEF RequestInv
<1> QED
  BY <1>b, <1>c

\* The new attempt is within the budget, and fresh.
LEMMA WakeUpStep ==
  ASSUME IInv, NEW c \in Calls, WakeUp(c)
  PROVE  TypeOK' /\ RequestInv(c)' /\ \A d \in Calls \ {c} : Untouched(d)
<1> USE DEF IInv, WakeUp
<1>1. Budget(route[c]) \in Nat \ {0} /\ MaxDelay \in Nat /\ MaxAttempts \in Nat
  BY BudgetIsPositive, RetryConfigIsSane
<1>2. TypeOK'
  BY <1>1 DEF TypeOK, Outcomes, Statuses
<1>3. \A d \in Calls \ {c} : Untouched(d)
  BY DEF TypeOK, Untouched
<1>4. AttemptInv(c)'
  BY <1>1 DEF TypeOK, RequestInv, AttemptInv, Used, Budget, SinglePass
<1>5. AnswerInv(c)'
  BY <1>1 DEF TypeOK, RequestInv, AttemptInv, AnswerInv, Used, Budget, SinglePass
<1>6. SleepInv(c)'
  BY <1>1 DEF TypeOK, RequestInv, AttemptInv, SleepInv, Budget, SinglePass
<1> QED
  BY <1>2, <1>3, <1>4, <1>5, <1>6 DEF RequestInv

\* A cancelled call reports nothing about the server.
LEMMA CancelStep ==
  ASSUME IInv, NEW c \in Calls, Cancel(c)
  PROVE  TypeOK' /\ RequestInv(c)' /\ \A d \in Calls \ {c} : Untouched(d)
<1> USE DEF IInv, Cancel, Return
<1>1. Budget(route[c]) \in Nat \ {0} /\ MaxDelay \in Nat /\ MaxAttempts \in Nat
  BY BudgetIsPositive, RetryConfigIsSane
<1>2. TypeOK'
  BY <1>1 DEF TypeOK, Outcomes, Statuses
<1>3. \A d \in Calls \ {c} : Untouched(d)
  BY DEF TypeOK, Untouched
<1>4. AttemptInv(c)'
  BY <1>1 DEF TypeOK, RequestInv, AttemptInv, Used, Budget, SinglePass
<1>5. AnswerInv(c)'
  BY <1>1 DEF TypeOK, RequestInv, AttemptInv, AnswerInv, Used, Budget, SinglePass
<1>6. SleepInv(c)'
  <2>1. attempt[c] - 1 \in Nat /\ attempt[c] \in Nat /\ Budget(route[c]) - 1 \in Nat /\ slept[c] \in Nat
    BY <1>1 DEF TypeOK, RequestInv, AttemptInv
  <2>2. CASE pc[c] = "wait"
    <3>1. (attempt[c] - 1) * MaxDelay <= (Budget(route[c]) - 1) * MaxDelay
      BY <1>1, <2>1, Product DEF RequestInv, AttemptInv
    <3>2. slept[c] <= (attempt[c] - 1) * MaxDelay
      BY <2>2 DEF RequestInv, SleepInv
    <3>3. slept[c] <= (Budget(route[c]) - 1) * MaxDelay
      BY <1>1, <2>1, <3>1, <3>2, Product
    <3> QED
      BY <3>3 DEF TypeOK, SleepInv, Budget, SinglePass
  <2>3. CASE pc[c] = "backoff"
    <3>1. attempt[c] * MaxDelay <= (Budget(route[c]) - 1) * MaxDelay
      BY <1>1, <2>1, <2>3, Product DEF RequestInv, AttemptInv
    <3>2. slept[c] <= attempt[c] * MaxDelay
      BY <2>3 DEF RequestInv, SleepInv
    <3>3. slept[c] <= (Budget(route[c]) - 1) * MaxDelay
      BY <1>1, <2>1, <3>1, <3>2, Product
    <3> QED
      BY <3>3 DEF TypeOK, SleepInv, Budget, SinglePass
  <2> QED
    BY <2>2, <2>3
<1> QED
  BY <1>2, <1>3, <1>4, <1>5, <1>6 DEF RequestInv

\* An attempt leaves the network when it is carried out.
LEMMA ServerExecutesStep ==
  ASSUME IInv, NEW c \in Calls, ServerExecutes(c)
  PROVE  TypeOK' /\ RequestInv(c)' /\ \A d \in Calls \ {c} : Untouched(d)
<1> USE DEF IInv, ServerExecutes, Answer, clientVars
<1>1. Budget(route[c]) \in Nat \ {0} /\ MaxDelay \in Nat /\ MaxAttempts \in Nat
  BY BudgetIsPositive, RetryConfigIsSane
<1>2. TypeOK'
  BY <1>1 DEF TypeOK, Outcomes, Statuses
<1>3. \A d \in Calls \ {c} : Untouched(d)
  BY DEF TypeOK, Untouched
<1>4. AttemptInv(c)'
  BY <1>1 DEF TypeOK, RequestInv, AttemptInv, Used, Budget, SinglePass
<1>5. AnswerInv(c)'
  BY <1>1 DEF TypeOK, RequestInv, AttemptInv, AnswerInv, Used, Budget, SinglePass
<1>6. SleepInv(c)'
  BY <1>1 DEF TypeOK, RequestInv, AttemptInv, SleepInv, Budget, SinglePass
<1> QED
  BY <1>2, <1>3, <1>4, <1>5, <1>6 DEF RequestInv

\* A rejected attempt leaves the network without a trace.
LEMMA ServerRejectsStep ==
  ASSUME IInv, NEW c \in Calls, ServerRejects(c)
  PROVE  TypeOK' /\ RequestInv(c)' /\ \A d \in Calls \ {c} : Untouched(d)
<1> USE DEF IInv, ServerRejects, Answer, clientVars
<1>1. Budget(route[c]) \in Nat \ {0} /\ MaxDelay \in Nat /\ MaxAttempts \in Nat
  BY BudgetIsPositive, RetryConfigIsSane
<1>2. TypeOK'
  BY <1>1 DEF TypeOK, Outcomes, Statuses
<1>3. \A d \in Calls \ {c} : Untouched(d)
  BY DEF TypeOK, Untouched
<1>4. AttemptInv(c)'
  BY <1>1 DEF TypeOK, RequestInv, AttemptInv, Used, Budget, SinglePass
<1>5. AnswerInv(c)'
  BY <1>1 DEF TypeOK, RequestInv, AttemptInv, AnswerInv, Used, Budget, SinglePass
<1>6. SleepInv(c)'
  BY <1>1 DEF TypeOK, RequestInv, AttemptInv, SleepInv, Budget, SinglePass
<1> QED
  BY <1>2, <1>3, <1>4, <1>5, <1>6 DEF RequestInv

\* A lost attempt leaves the network without a trace.
LEMMA RequestLostStep ==
  ASSUME IInv, NEW c \in Calls, RequestLost(c)
  PROVE  TypeOK' /\ RequestInv(c)' /\ \A d \in Calls \ {c} : Untouched(d)
<1> USE DEF IInv, RequestLost, clientVars
<1>1. Budget(route[c]) \in Nat \ {0} /\ MaxDelay \in Nat /\ MaxAttempts \in Nat
  BY BudgetIsPositive, RetryConfigIsSane
<1>2. TypeOK'
  BY <1>1 DEF TypeOK, Outcomes, Statuses
<1>3. \A d \in Calls \ {c} : Untouched(d)
  BY DEF TypeOK, Untouched
<1>4. AttemptInv(c)'
  BY <1>1 DEF TypeOK, RequestInv, AttemptInv, Used, Budget, SinglePass
<1>5. AnswerInv(c)'
  BY <1>1 DEF TypeOK, RequestInv, AttemptInv, AnswerInv, Used, Budget, SinglePass
<1>6. SleepInv(c)'
  BY <1>1 DEF TypeOK, RequestInv, AttemptInv, SleepInv, Budget, SinglePass
<1> QED
  BY <1>2, <1>3, <1>4, <1>5, <1>6 DEF RequestInv

\* Closing the client disturbs no call.
LEMMA CloseStep ==
  ASSUME IInv, Close
  PROVE  TypeOK' /\ \A d \in Calls : Untouched(d)
BY DEF IInv, Close, TypeOK, Untouched

\* Every step of the pipeline and of the network preserves the invariant.
LEMMA NextInv == IInv /\ [Next]_vars => IInv'
<1> SUFFICES ASSUME IInv, [Next]_vars PROVE IInv'
  OBVIOUS
<1>1. ASSUME NEW c \in Calls, TypeOK', RequestInv(c)',
             \A d \in Calls \ {c} : Untouched(d)
      PROVE  IInv'
  BY <1>1, UntouchedStep DEF IInv
<1>2. ASSUME NEW c \in Calls, Call(c) \/ ClientStep(c) \/ Cancel(c)
      PROVE  IInv'
  <2>1. CASE Call(c)
    BY <2>1, <1>1, CallStep
  <2>2. CASE Send(c)
    BY <2>2, <1>1, SendStep
  <2>3. CASE SendOnClosedClient(c)
    BY <2>3, <1>1, SendOnClosedClientStep
  <2>4. CASE ReceiveFinal(c)
    BY <2>4, <1>1, ReceiveFinalStep
  <2>5. CASE ReceiveAndRetry(c)
    BY <2>5, <1>1, ReceiveAndRetryStep
  <2>6. CASE TransportFailure(c)
    BY <2>6, <1>1, TransportFailureStep
  <2>7. CASE WakeUp(c)
    BY <2>7, <1>1, WakeUpStep
  <2>8. CASE Cancel(c)
    BY <2>8, <1>1, CancelStep
  <2> QED
    BY <1>2, <2>1, <2>2, <2>3, <2>4, <2>5, <2>6, <2>7, <2>8 DEF ClientStep
<1>3. ASSUME NEW c \in Calls, ServerExecutes(c) \/ ServerRejects(c) \/ RequestLost(c)
      PROVE  IInv'
  BY <1>1, <1>3, ServerExecutesStep, ServerRejectsStep, RequestLostStep
<1>4. CASE Close
  BY <1>4, CloseStep, UntouchedStep DEF IInv
<1>5. CASE UNCHANGED vars
  <2>1. TypeOK'
    BY <1>5 DEF IInv, TypeOK, vars
  <2>2. \A d \in Calls : Untouched(d)
    BY <1>5 DEF vars, Untouched
  <2> QED
    BY <2>1, <2>2, UntouchedStep DEF IInv
<1> QED
  BY <1>2, <1>3, <1>4, <1>5 DEF Next, Terminated

\* The invariant holds in every reachable state of the pipeline.
THEOREM Inductive == Spec => []IInv
BY InitInv, NextInv, PTL DEF Spec

-----------------------------------------------------------------------------
(* The variables of the request pipeline keep their types, for every       *)
(* retry configuration.                                                    *)
THEOREM TypeCorrect == Spec => []TypeOK
<1>1. IInv => TypeOK
  BY DEF IInv
<1> QED
  BY <1>1, Inductive, PTL

(* A request outside GET, DELETE and the listed POSTs acts at most once on *)
(* the server, for any number of calls, attempts and lost messages.        *)
THEOREM ActsAtMostOnce == Spec => []AtMostOnce
<1>1. IInv => AtMostOnce
  <2> SUFFICES ASSUME IInv, NEW c \in Calls, ~IsRetryableRequest(route[c])
               PROVE  executed[c] \subseteq {1}
    BY DEF AtMostOnce
  <2>1. Budget(route[c]) = 1
    BY DEF Budget, SinglePass
  <2> QED
    BY <2>1 DEF IInv, TypeOK, RequestInv, AttemptInv, Used
<1> QED
  BY <1>1, Inductive, PTL

\* A response that is a success answers an attempt the server carried out.
THEOREM SuccessIsReal == Spec => []SuccessWasExecuted
<1>1. IInv => SuccessWasExecuted
  BY DEF IInv, RequestInv, AnswerInv, SuccessWasExecuted
<1> QED
  BY <1>1, Inductive, PTL

(* A single-shot request refused by the server, or stopped by the closed   *)
(* client, never acted and never will: it is safe to issue it again.       *)
THEOREM RefusedLeavesNoTrace == Spec => []ResubmitIsSafe
<1>1. IInv => ResubmitIsSafe
  <2> SUFFICES ASSUME IInv, NEW c \in Calls, ~IsRetryableRequest(route[c]),
                      outcome[c] \in {"refused", "client_closed"}
               PROVE  executed[c] = {} /\ network[c] = {}
    BY DEF ResubmitIsSafe
  <2>1. Budget(route[c]) = 1
    BY DEF Budget, SinglePass
  <2>2. attempt[c] \notin Used(c) /\ pc[c] = "done"
    BY DEF IInv, RequestInv, AnswerInv
  <2>3. attempt[c] = 1 /\ Used(c) \subseteq 1..1
    BY <2>1, <2>2 DEF IInv, TypeOK, RequestInv, AttemptInv
  <2> QED
    BY <2>2, <2>3 DEF Used
<1> QED
  BY <1>1, Inductive, PTL

(* A repeatable request reports a transient failure only after it has made *)
(* every attempt the configuration allows.                                 *)
THEOREM PersistsToTheEnd == Spec => []NeverGivesUpEarly
<1>1. IInv => NeverGivesUpEarly
  BY DEF IInv, RequestInv, AnswerInv, NeverGivesUpEarly, Budget
<1> QED
  BY <1>1, Inductive, PTL

(* The back-offs of a call never add up to more than max_delay for each    *)
(* attempt after the first.                                                *)
THEOREM TotalSleepBounded == Spec => []SleepBounded
<1>1. IInv => SleepBounded
  <2> SUFFICES ASSUME IInv, NEW c \in Calls
               PROVE  slept[c] <= (Budget(route[c]) - 1) * MaxDelay
    BY DEF SleepBounded
  <2>0. AttemptInv(c) /\ SleepInv(c)
    BY DEF IInv, RequestInv
  <2>1. /\ Budget(route[c]) \in Nat \ {0}
        /\ Budget(route[c]) - 1 \in Nat /\ MaxDelay \in Nat
        /\ attempt[c] \in Nat /\ slept[c] \in Nat /\ attempt[c] <= Budget(route[c])
    BY BudgetIsPositive, RetryConfigIsSane DEF IInv, TypeOK, RequestInv, AttemptInv
  <2>2. (Budget(route[c]) - 1) * MaxDelay \in Nat
    BY <2>1, Product
  <2>3. CASE pc[c] = "new"
    BY <2>1, <2>2, <2>3 DEF IInv, RequestInv, SleepInv
  <2>4. CASE pc[c] \in {"send", "wait"}
    <3>1. attempt[c] - 1 \in Nat /\ attempt[c] - 1 <= Budget(route[c]) - 1
      BY <2>0, <2>1, <2>4 DEF AttemptInv
    <3>2. /\ (attempt[c] - 1) * MaxDelay <= (Budget(route[c]) - 1) * MaxDelay
          /\ (attempt[c] - 1) * MaxDelay \in Nat
      BY <2>1, <3>1, Product
    <3>3. slept[c] <= (attempt[c] - 1) * MaxDelay
      BY <2>4 DEF IInv, RequestInv, SleepInv
    <3> QED
      BY <2>1, <2>2, <3>2, <3>3
  <2>5. CASE pc[c] = "backoff"
    <3>1. attempt[c] <= Budget(route[c]) - 1
      BY <2>0, <2>1, <2>5 DEF AttemptInv
    <3>2. /\ attempt[c] * MaxDelay <= (Budget(route[c]) - 1) * MaxDelay
          /\ attempt[c] * MaxDelay \in Nat
      BY <2>1, <3>1, Product
    <3>3. slept[c] <= attempt[c] * MaxDelay
      BY <2>5 DEF IInv, RequestInv, SleepInv
    <3> QED
      BY <2>1, <2>2, <3>2, <3>3
  <2>6. CASE pc[c] = "done"
    BY <2>6 DEF IInv, RequestInv, SleepInv
  <2> QED
    BY <2>3, <2>4, <2>5, <2>6 DEF IInv, TypeOK
<1> QED
  BY <1>1, Inductive, PTL

(* After the client is closed no attempt is handed to the HTTP client any  *)
(* more, not even the next attempt of a call that was sleeping.            *)
THEOREM ClosedMeansSilent == Spec => NothingSentAfterClose
<1>1. IInv /\ [Next]_vars => [closed => \A c \in Calls : network'[c] \subseteq network[c]]_vars
  <2> SUFFICES ASSUME IInv, Next, closed, NEW d \in Calls
               PROVE  network'[d] \subseteq network[d]
    OBVIOUS
  <2>1. ASSUME NEW c \in Calls, ServerExecutes(c) \/ ServerRejects(c) \/ RequestLost(c)
        PROVE  network'[d] \subseteq network[d]
    BY <2>1 DEF IInv, TypeOK, ServerExecutes, ServerRejects, RequestLost
  <2>2. ASSUME NEW c \in Calls, Call(c) \/ ClientStep(c) \/ Cancel(c)
        PROVE  network'[d] \subseteq network[d]
    BY <2>2 DEF Call, ClientStep, Send, SendOnClosedClient, ReceiveFinal,
                ReceiveAndRetry, TransportFailure, WakeUp, Cancel
  <2> QED
    BY <2>1, <2>2 DEF Next, Close, Terminated, vars
<1> QED
  BY <1>1, Inductive, PTL DEF Spec, NothingSentAfterClose

-----------------------------------------------------------------------------
(* The pipeline implements the safety part of the request contract: every  *)
(* step is a step of the contract on one call, or a stutter of it.         *)
LEMMA ContractInit == Init => Contract!Init
BY DEF Init, Contract!Init, CallStatus

\* Each step of the pipeline is a step of the contract, or stutters.
LEMMA ContractStep == IInv /\ [Next]_vars => [Contract!Next]_Contract!vars
<1> SUFFICES ASSUME IInv, [Next]_vars
             PROVE  Contract!Next \/ UNCHANGED Contract!vars
  OBVIOUS
<1> USE DEF IInv, TypeOK, Contract!vars, CallStatus
<1>1. ASSUME NEW c \in Calls, Call(c)
      PROVE  Contract!Begin(c)
  <2> USE <1>1 DEF Call
  <2>1. route[c] \in Routes /\ pc[c] = "new" /\ pc'[c] = "send"
    OBVIOUS
  <2>2. \A d \in Calls \ {c} : pc'[d] = pc[d]
    OBVIOUS
  <2> DEFINE entitled == [d \in Calls |-> IF pc[d] = "new" THEN 0 ELSE Budget(route[d])]
  <2>3. entitled' = [entitled EXCEPT ![c] = Budget(route[c])]
    BY <2>1, <2>2 DEF Budget, SinglePass
  <2>4. [d \in Calls |-> CallStatus(d)]'
          = [[d \in Calls |-> CallStatus(d)] EXCEPT ![c] = "pending"]
    BY <2>1, <2>2
  <2>5. UNCHANGED <<[d \in Calls |-> outcome[d] = "ok"], executed>>
    OBVIOUS
  <2>6. \E b \in {Budget(r) : r \in Routes} : entitled' = [entitled EXCEPT ![c] = b]
    BY <2>1, <2>3
  <2>7. [d \in Calls |-> CallStatus(d)][c] = "new"
    BY <2>1
  <2> QED
    BY <2>4, <2>5, <2>6, <2>7, Zenon DEF Contract!Begin
<1>2. ASSUME NEW c \in Calls, Send(c) \/ WakeUp(c)
      PROVE  UNCHANGED Contract!vars
  BY <1>2 DEF Send, WakeUp
<1>3. ASSUME NEW c \in Calls, NEW o \in Outcomes, Return(c, o),
             pc[c] \in {"send", "wait", "backoff"},
             o = "ok" => executed[c] # {},
             UNCHANGED <<route, executed>>
      PROVE  Contract!Return(c)
  BY <1>3 DEF Return, Contract!Return, RequestInv, AnswerInv
<1>4. ASSUME NEW c \in Calls, SendOnClosedClient(c)
      PROVE  Contract!Return(c)
  BY <1>4, <1>3 DEF SendOnClosedClient, Outcomes
<1>5. ASSUME NEW c \in Calls, ReceiveFinal(c)
      PROVE  Contract!Return(c)
  BY <1>5, <1>3 DEF ReceiveFinal, Outcomes, RequestInv, AnswerInv
<1>6. ASSUME NEW c \in Calls, Cancel(c)
      PROVE  Contract!Return(c)
  BY <1>6, <1>3 DEF Cancel, Outcomes
<1>7. ASSUME NEW c \in Calls, pc[c] = "wait", NEW delay, SleepFor(c, delay),
             UNCHANGED <<route, executed>>
      PROVE  UNCHANGED Contract!vars
  BY <1>7 DEF SleepFor
<1>8. ASSUME NEW c \in Calls, ReceiveAndRetry(c)
      PROVE  UNCHANGED Contract!vars
  BY <1>8, <1>7 DEF ReceiveAndRetry
<1>9. ASSUME NEW c \in Calls, TransportFailure(c)
      PROVE  Contract!Return(c) \/ UNCHANGED Contract!vars
  BY <1>9, <1>3, <1>7 DEF TransportFailure, Outcomes
<1>10. ASSUME NEW c \in Calls, ServerExecutes(c)
       PROVE  Contract!Act(c)
  <2>1. PICK n \in network[c] : executed' = [executed EXCEPT ![c] = @ \union {n}]
    BY <1>10 DEF ServerExecutes
  <2>2. /\ n \in 1..Budget(route[c])
        /\ n \notin executed[c]
        /\ pc[c] # "new"
    BY <2>1, BudgetIsPositive DEF RequestInv, AttemptInv, Used
  <2>3. UNCHANGED <<pc, route, outcome>>
    BY <1>10 DEF ServerExecutes, clientVars
  <2> QED
    BY <2>1, <2>2, <2>3 DEF Contract!Act
<1>11. ASSUME NEW c \in Calls, ServerRejects(c) \/ RequestLost(c)
       PROVE  UNCHANGED Contract!vars
  BY <1>11 DEF ServerRejects, RequestLost, clientVars
<1>12. CASE Close \/ Terminated \/ UNCHANGED vars
  BY <1>12 DEF Close, Terminated, vars
<1> QED
  BY <1>1, <1>2, <1>4, <1>5, <1>6, <1>8, <1>9, <1>10, <1>11, <1>12
  DEF Next, ClientStep, Contract!Next

(* What the callers of the pipeline may rely on is RequestContract: one    *)
(* return per call, a bounded number of effects, no success without one.   *)
THEOREM PipelineImplementsContract == Spec => ImplementsContract
BY ContractInit, ContractStep, Inductive, PTL DEF Spec, ImplementsContract, Contract!Spec
=============================================================================
