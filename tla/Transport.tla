----------------------------- MODULE Transport -----------------------------
(***************************************************************************)
(* The request pipeline every SDK client shares:                           *)
(*                                                                         *)
(*   KSeFExceptionMiddleware                                               *)
(*     -> RetryMiddleware -> ClientLifecycleMiddleware -> HttpTransport    *)
(*                                                                         *)
(* Several calls run at once on one client (asyncio tasks).  The network   *)
(* may lose a request or its answer, the server may carry a request out    *)
(* and still answer with a gateway error, an abandoned request may reach   *)
(* the server late, a caller may cancel, and the client may be closed      *)
(* between any two steps.  Delays are integers in a unit of the config.    *)
(***************************************************************************)
EXTENDS Integers

CONSTANTS
  Calls,                \* the calls of transport.request()
  Routes,               \* the endpoints they are made to
  Method,               \* Method[r]: the HTTP method of endpoint r
  RetryablePostPaths,   \* the POST endpoints that are repeated
  MaxAttempts,          \* RetryConfig.max_attempts
  InitialDelay,         \* RetryConfig.initial_delay
  BackoffMultiplier,    \* RetryConfig.backoff_multiplier
  MaxDelay,             \* RetryConfig.max_delay
  RetryAfterHeaders     \* the numbers a Retry-After header may carry

ASSUME RoutesHaveMethods == Method \in [Routes -> {"GET", "DELETE", "POST", "PUT"}]
ASSUME RetryConfigIsSane ==
  /\ MaxAttempts \in Nat
  /\ InitialDelay \in Nat
  /\ BackoffMultiplier \in Nat \ {0}
  /\ MaxDelay \in Nat
  /\ RetryAfterHeaders \subseteq Int

\* Arithmetic the provers do not know: a power of a number is a number.
ASSUME PowersAreNumbers == \A n \in 0..MaxAttempts : BackoffMultiplier^n \in Nat

VARIABLES
  pc,        \* pc[c]: "new", "send", "wait", "backoff" or "done"
  route,     \* route[c]: the endpoint of the call
  attempt,   \* attempt[c]: the number of the current attempt, 0 before the call
  outcome,   \* outcome[c]: what request() gave its caller
  closed,    \* ClientLifecycleState.closed
  slept,     \* slept[c]: the total delay the call has slept (history)
  network,   \* network[c]: the attempts handed to httpx and not yet at the server
  reply,     \* reply[c]: the status of the answer to the current attempt
  executed   \* executed[c]: the attempts the server has carried out

vars == <<pc, route, attempt, outcome, closed, slept, network, reply, executed>>

clientVars == <<pc, route, attempt, outcome, closed, slept>>

-----------------------------------------------------------------------------
(* A status is "ok" (2xx), "busy" (one of retryable_status_codes) or       *)
(* "refused" (any other error).  "none" is no answer yet.                  *)
Statuses == {"ok", "busy", "refused"}

\* A call ends with a response's status, or with the exception it raised.
Outcomes == Statuses \union {"transport_error", "client_closed", "cancelled"}

IsRetryableRequest(r) ==
  \/ Method[r] \in {"GET", "DELETE"}
  \/ Method[r] = "POST" /\ r \in RetryablePostPaths

IsRetryableStatus(s) == s = "busy"

\* Fault: the method and path of the request are not looked at.
SinglePassWhenDisabled(r) == MaxAttempts <= 1

\* The request is passed on once, outside the retry loop.
SinglePass(r) == MaxAttempts <= 1 \/ ~IsRetryableRequest(r)

\* Fault: one attempt too many.
IsAfterLastAttempt(c) == SinglePass(route[c]) \/ attempt[c] > MaxAttempts
IsLastAttempt(c) == SinglePass(route[c]) \/ attempt[c] >= MaxAttempts

Least(a, b) == IF a <= b THEN a ELSE b

BackoffDelay(n) == Least(InitialDelay * BackoffMultiplier^(n - 1), MaxDelay)

ParseRetryAfter(value) == IF value < 0 THEN 0 ELSE Least(value, MaxDelay)

\* The delays after a retryable answer: the server's wish, or the back-off.
ResponseDelays(n) ==
  {BackoffDelay(n)} \union {ParseRetryAfter(v) : v \in RetryAfterHeaders}

-----------------------------------------------------------------------------
Init ==
  /\ pc = [c \in Calls |-> "new"]
  /\ route \in [Calls -> Routes]
  /\ attempt = [c \in Calls |-> 0]
  /\ outcome = [c \in Calls |-> "none"]
  /\ closed = FALSE
  /\ slept = [c \in Calls |-> 0]
  /\ network = [c \in Calls |-> {}]
  /\ reply = [c \in Calls |-> "none"]
  /\ executed = [c \in Calls |-> {}]

Return(c, o) ==
  /\ pc' = [pc EXCEPT ![c] = "done"]
  /\ outcome' = [outcome EXCEPT ![c] = o]

\* sleep_for: the task is suspended before its next attempt.
SleepFor(c, delay) ==
  /\ pc' = [pc EXCEPT ![c] = "backoff"]
  /\ slept' = [slept EXCEPT ![c] = @ + delay]
  /\ UNCHANGED outcome

\* request() is called: the first attempt starts.
Call(c) ==
  /\ pc[c] = "new"
  /\ pc' = [pc EXCEPT ![c] = "send"]
  /\ attempt' = [attempt EXCEPT ![c] = 1]
  /\ UNCHANGED <<route, outcome, closed, slept, network, reply, executed>>

\* Fault: the lifecycle middleware wraps the retry middleware, so that only
\* the first attempt is checked.
SendCheckedOnce(c) ==
  /\ pc[c] = "send"
  /\ attempt[c] = 1 => ~closed
  /\ pc' = [pc EXCEPT ![c] = "wait"]
  /\ network' = [network EXCEPT ![c] = @ \union {attempt[c]}]
  /\ reply' = [reply EXCEPT ![c] = "none"]
  /\ UNCHANGED <<route, attempt, outcome, closed, slept, executed>>

\* The lifecycle check every attempt passes, then the hand-over to httpx.
Send(c) ==
  /\ pc[c] = "send"
  /\ ~closed
  /\ pc' = [pc EXCEPT ![c] = "wait"]
  /\ network' = [network EXCEPT ![c] = @ \union {attempt[c]}]
  /\ reply' = [reply EXCEPT ![c] = "none"]
  /\ UNCHANGED <<route, attempt, outcome, closed, slept, executed>>

\* KSeFClientClosedError is no TransportError: it leaves the retry loop.
SendOnClosedClient(c) ==
  /\ pc[c] = "send"
  /\ closed
  /\ Return(c, "client_closed")
  /\ UNCHANGED <<route, attempt, closed, slept, network, reply, executed>>

\* A response that is returned; the exception middleware raises unless "ok".
ReceiveFinal(c) ==
  /\ pc[c] = "wait"
  /\ reply[c] # "none"
  /\ ~IsRetryableStatus(reply[c]) \/ IsLastAttempt(c)
  /\ Return(c, reply[c])
  /\ UNCHANGED <<route, attempt, closed, slept, network, reply, executed>>

ReceiveAndRetry(c) ==
  /\ pc[c] = "wait"
  /\ IsRetryableStatus(reply[c])
  /\ ~IsLastAttempt(c)
  /\ \E delay \in ResponseDelays(attempt[c]) : SleepFor(c, delay)
  /\ UNCHANGED <<route, attempt, closed, network, reply, executed>>

\* httpx.TransportError: refused, reset, or one of the four timeouts.
TransportFailure(c) ==
  /\ pc[c] = "wait"
  /\ IF IsLastAttempt(c)
       THEN Return(c, "transport_error") /\ UNCHANGED slept
       ELSE SleepFor(c, BackoffDelay(attempt[c]))
  /\ UNCHANGED <<route, attempt, closed, network, reply, executed>>

\* Fault: the attempt is not counted.
WakeUpUncounted(c) ==
  /\ pc[c] = "backoff"
  /\ pc' = [pc EXCEPT ![c] = "send"]
  /\ UNCHANGED <<route, attempt, outcome, closed, slept, network, reply, executed>>

\* The back-off is over: the next round of the for loop.
WakeUp(c) ==
  /\ pc[c] = "backoff"
  /\ pc' = [pc EXCEPT ![c] = "send"]
  /\ attempt' = [attempt EXCEPT ![c] = @ + 1]
  /\ UNCHANGED <<route, outcome, closed, slept, network, reply, executed>>

\* CancelledError at an await: nothing in the pipeline catches it.
Cancel(c) ==
  /\ pc[c] \in {"wait", "backoff"}
  /\ Return(c, "cancelled")
  /\ UNCHANGED <<route, attempt, closed, slept, network, reply, executed>>

\* aclose() of the root client; a second aclose() returns at once.
Close ==
  /\ ~closed
  /\ closed' = TRUE
  /\ UNCHANGED <<pc, route, attempt, outcome, slept, network, reply, executed>>

-----------------------------------------------------------------------------
\* The answer reaches the call only while it waits on that same attempt.
Answer(c, n, s) ==
  reply' = [reply EXCEPT ![c] =
              IF pc[c] = "wait" /\ attempt[c] = n THEN s ELSE @]

\* The server carries an attempt out; a gateway may still answer 502 or 504.
ServerExecutes(c) ==
  \E n \in network[c], s \in {"ok", "busy"} :
    /\ network' = [network EXCEPT ![c] = @ \ {n}]
    /\ executed' = [executed EXCEPT ![c] = @ \union {n}]
    /\ Answer(c, n, s)
    /\ UNCHANGED clientVars

\* The server turns an attempt down without acting on it.
ServerRejects(c) ==
  \E n \in network[c], s \in {"busy", "refused"} :
    /\ network' = [network EXCEPT ![c] = @ \ {n}]
    /\ Answer(c, n, s)
    /\ UNCHANGED <<clientVars, executed>>

RequestLost(c) ==
  \E n \in network[c] :
    /\ network' = [network EXCEPT ![c] = @ \ {n}]
    /\ UNCHANGED <<clientVars, reply, executed>>

AllDone == \A c \in Calls : pc[c] = "done" /\ network[c] = {}

\* Every call has returned and the client is closed: nothing is left to do.
Terminated == AllDone /\ closed /\ UNCHANGED vars

ClientStep(c) ==
  \/ Send(c) \/ SendOnClosedClient(c)
  \/ ReceiveFinal(c) \/ ReceiveAndRetry(c) \/ TransportFailure(c)
  \/ WakeUp(c)

Next ==
  \/ \E c \in Calls :
       \/ Call(c) \/ ClientStep(c) \/ Cancel(c)
       \/ ServerExecutes(c) \/ ServerRejects(c) \/ RequestLost(c)
  \/ Close
  \/ Terminated

Spec == Init /\ [][Next]_vars

(* httpx is built with connect, read, write and pool timeouts, so a wait   *)
(* ends in a response or a TransportError; asyncio.sleep ends by itself.   *)
FairSpec == Spec /\ \A c \in Calls : WF_vars(ClientStep(c))

-----------------------------------------------------------------------------
\* The most attempts one call makes.
Budget(r) == IF SinglePass(r) THEN 1 ELSE MaxAttempts

CallStatus(c) ==
  IF pc[c] \in {"send", "wait", "backoff"} THEN "pending"
  ELSE IF pc[c] = "done" THEN "returned" ELSE "new"

Contract == INSTANCE RequestContract WITH
  Budgets <- {Budget(r) : r \in Routes},
  status <- [c \in Calls |-> CallStatus(c)],
  success <- [c \in Calls |-> outcome[c] = "ok"],
  budget <- [c \in Calls |-> IF pc[c] = "new" THEN 0 ELSE Budget(route[c])],
  acted <- executed

\* Every variable of the pipeline keeps its type; no delay is negative.
TypeOK ==
  /\ pc \in [Calls -> {"new", "send", "wait", "backoff", "done"}]
  /\ route \in [Calls -> Routes]
  /\ attempt \in [Calls -> Nat]
  /\ outcome \in [Calls -> Outcomes \union {"none"}]
  /\ closed \in BOOLEAN
  /\ slept \in [Calls -> Nat]
  /\ network \in [Calls -> SUBSET Nat]
  /\ reply \in [Calls -> Statuses \union {"none"}]
  /\ executed \in [Calls -> SUBSET Nat]

(* A request that is neither a GET, a DELETE nor one of the listed POSTs   *)
(* (open or close a session, send an invoice, upload a part) is carried    *)
(* out by the server at most once, however its answer is lost or delayed.  *)
AtMostOnce ==
  \A c \in Calls : ~IsRetryableRequest(route[c]) => executed[c] \subseteq {1}

(* A call that returns a response which is a success was carried out, and  *)
(* by the attempt that was answered, not by an earlier one.                *)
SuccessWasExecuted ==
  \A c \in Calls : outcome[c] = "ok" => attempt[c] \in executed[c]

(* A request that is not repeated and fails because the server refused it  *)
(* or because the client is closed has left no trace and never will: the   *)
(* caller may issue it again.  (After a TransportError it may not.)        *)
ResubmitIsSafe ==
  \A c \in Calls :
    ~IsRetryableRequest(route[c]) /\ outcome[c] \in {"refused", "client_closed"}
      => executed[c] = {} /\ network[c] = {}

(* A repeatable request reports a transient failure (a retryable status or *)
(* a TransportError) only after max_attempts attempts.                     *)
NeverGivesUpEarly ==
  \A c \in Calls :
    outcome[c] \in {"busy", "transport_error"} /\ ~SinglePass(route[c])
      => attempt[c] = MaxAttempts

(* The back-offs of one call add up to no more than max_delay for each     *)
(* attempt but the last, whatever Retry-After the server asks for.         *)
SleepBounded ==
  \A c \in Calls : slept[c] <= (Budget(route[c]) - 1) * MaxDelay

(* Once the client is closed nothing more is handed to the HTTP client,    *)
(* also by a call that slept between two attempts when it was closed.      *)
NothingSentAfterClose ==
  [][closed => \A c \in Calls : network'[c] \subseteq network[c]]_vars

(* Every call made returns or raises, whatever the network does and        *)
(* whenever the client is closed.                                          *)
EveryCallReturns ==
  \A c \in Calls : pc[c] = "send" ~> pc[c] = "done"

(* The pipeline implements the request contract: one return per call, a    *)
(* bounded number of effects, and no success without an effect.            *)
ImplementsContract == Contract!Spec
=============================================================================
