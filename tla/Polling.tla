------------------------------ MODULE Polling ------------------------------
(***************************************************************************)
(* core/polling.py and the seven places that poll with it: one task asks   *)
(* KSeF again and again how a job is doing, until the job is settled or    *)
(* the stop condition holds.  KSeF moves the job on at any moment, also    *)
(* between the moment it reads the status and the moment the answer        *)
(* arrives.  Time is counted in whole units from the first call.           *)
(***************************************************************************)
EXTENDS Integers

CONSTANTS
  Sites,           \* the call sites that are checked
  Timeouts,        \* the values of timeout_seconds
  AttemptLimits,   \* the values of max_attempts
  PollInterval,    \* poll_interval
  MaxOpTime,       \* the longest one operation takes, its HTTP retries included
  Horizon          \* bound: the clock is not followed beyond it

ASSUME SitesAreKnown ==
  Sites \subseteq {"auth", "token", "invoice", "batch", "download", "query", "export"}
ASSUME TimesAreNumbers ==
  /\ Timeouts \subseteq Nat /\ PollInterval \in Nat
  /\ MaxOpTime \in Nat /\ Horizon \in Nat
ASSUME LimitsAreNumbers == AttemptLimits \subseteq Int

VARIABLES
  site,       \* who polls
  stop,       \* the stop condition of the poll
  pc,         \* "start", "calling", "answered", "asleep" or "done"
  clock,      \* the time since the first call
  attempts,   \* the calls of operation made so far
  callAt,     \* when the last of them was made
  wakeAt,     \* when the sleep ends
  seen,       \* the job as the last answer shows it
  result,     \* how the poll ended
  job,        \* the job as it is at KSeF
  settledAt   \* since when the job is settled (history)

vars == <<site, stop, pc, clock, attempts, callAt, wakeAt, seen, result, job, settledAt>>

pollVars == <<pc, attempts, callAt, wakeAt, seen, result>>

(* "processing" is a code below 200, "success" is 200 or an active token,  *)
(* "failed" a code from 400 or a failed or revoked token.  The payload is  *)
(* what some sites wait for: a KSeF number, package parts, matching rows.  *)
Jobs ==
  [status : {"processing", "success", "revoking", "failed"}, payload : BOOLEAN]

StopConditions ==
  [kind : {"delay"}, bound : Timeouts] \union [kind : {"attempts"}, bound : AttemptLimits]

-----------------------------------------------------------------------------
(* What a call site makes of a status: poll again, raise, or return it.    *)

\* Fault: a failed authentication is taken for a finished one.
AuthUnchecked(j) == IF j.status = "processing" THEN "retry" ELSE "return"

AuthVerdict(j) ==
  IF j.status = "failed" THEN "raise"
  ELSE IF j.status = "processing" THEN "retry" ELSE "return"

TokenVerdict(j) ==
  IF j.status = "failed" THEN "raise"
  ELSE IF j.status = "success" THEN "return" ELSE "retry"

InvoiceVerdict(j) ==
  IF j.status = "failed" THEN "raise"
  ELSE IF j.payload THEN "return" ELSE "retry"

BatchVerdict(j) ==
  IF j.status = "failed" THEN "raise"
  ELSE IF j.status = "processing" THEN "retry" ELSE "return"

\* 400 with NOT_PROCESSED_YET is "processing", any other error "failed".
DownloadVerdict(j) ==
  IF j.status = "failed" THEN "raise"
  ELSE IF j.status = "processing" THEN "retry" ELSE "return"

QueryVerdict(j) == IF j.payload THEN "return" ELSE "retry"

\* The status code of the export is not looked at.
ExportVerdict(j) == IF j.payload THEN "return" ELSE "retry"

Verdict(s, j) ==
  CASE s = "auth"     -> AuthVerdict(j)
    [] s = "token"    -> TokenVerdict(j)
    [] s = "invoice"  -> InvoiceVerdict(j)
    [] s = "batch"    -> BatchVerdict(j)
    [] s = "download" -> DownloadVerdict(j)
    [] s = "query"    -> QueryVerdict(j)
    [] s = "export"   -> ExportVerdict(j)

-----------------------------------------------------------------------------
\* Fault: the poll stops only at the very moment.
StopExactly ==
  IF stop.kind = "delay" THEN clock = stop.bound ELSE attempts = stop.bound

\* stop_after_delay or stop_after_attempt, evaluated when an answer is in.
Exhausted ==
  IF stop.kind = "delay" THEN clock >= stop.bound ELSE attempts >= stop.bound

\* wait_fixed.
WakeTime == clock + PollInterval

Init ==
  /\ site \in Sites
  /\ stop \in StopConditions
  /\ pc = "start"
  /\ clock = 0
  /\ attempts = 0
  /\ callAt = 0
  /\ wakeAt = 0
  /\ job = [status |-> "processing", payload |-> FALSE]
  /\ seen = job
  /\ result = "none"
  /\ settledAt = 0

End(r) == pc' = "done" /\ result' = r

StartCall ==
  /\ pc' = "calling"
  /\ attempts' = attempts + 1
  /\ callAt' = clock

\* Fewer than one attempt: the timeout error is raised before any call.
ExhaustedAtOnce ==
  /\ pc = "start"
  /\ stop.kind = "attempts" /\ stop.bound < 1
  /\ End("timeout")
  /\ UNCHANGED <<site, stop, clock, attempts, callAt, wakeAt, seen, job, settledAt>>

Begin ==
  /\ pc = "start"
  /\ stop.kind = "attempts" => stop.bound >= 1
  /\ StartCall
  /\ UNCHANGED <<site, stop, clock, wakeAt, seen, result, job, settledAt>>

\* KSeF reads the status of the job; the answer is now on its way.
Observe ==
  /\ pc = "calling"
  /\ pc' = "answered"
  /\ seen' = job
  /\ UNCHANGED <<site, stop, clock, attempts, callAt, wakeAt, result, job, settledAt>>

\* An error of the request itself is no result: it leaves the retry loop.
OperationFails ==
  /\ pc \in {"calling", "answered"}
  /\ End("error")
  /\ UNCHANGED <<site, stop, clock, attempts, callAt, wakeAt, seen, job, settledAt>>

\* retry_predicate is false, or the operation raised: the poll is over.
Settle ==
  /\ pc = "answered"
  /\ Verdict(site, seen) # "retry"
  /\ End(IF Verdict(site, seen) = "return" THEN "returned" ELSE "raised")
  /\ UNCHANGED <<site, stop, clock, attempts, callAt, wakeAt, seen, job, settledAt>>

\* Fault: the stop condition alone decides.
TimeOutWhateverSeen ==
  /\ pc = "answered"
  /\ Exhausted
  /\ End("timeout")
  /\ UNCHANGED <<site, stop, clock, attempts, callAt, wakeAt, seen, job, settledAt>>

TimeOut ==
  /\ pc = "answered"
  /\ Verdict(site, seen) = "retry"
  /\ Exhausted
  /\ End("timeout")
  /\ UNCHANGED <<site, stop, clock, attempts, callAt, wakeAt, seen, job, settledAt>>

Sleep ==
  /\ pc = "answered"
  /\ Verdict(site, seen) = "retry"
  /\ ~Exhausted
  /\ pc' = "asleep"
  /\ wakeAt' = WakeTime
  /\ UNCHANGED <<site, stop, clock, attempts, callAt, seen, result, job, settledAt>>

\* The next call, without another look at the stop condition.
Wake ==
  /\ pc = "asleep"
  /\ clock >= wakeAt
  /\ StartCall
  /\ UNCHANGED <<site, stop, clock, wakeAt, seen, result, job, settledAt>>

Cancel ==
  /\ pc \in {"calling", "answered", "asleep"}
  /\ End("cancelled")
  /\ UNCHANGED <<site, stop, clock, attempts, callAt, wakeAt, seen, job, settledAt>>

-----------------------------------------------------------------------------
\* How a job may go on: a query has no failure, only a token is revoked.
Successors(j) ==
  CASE j.status = "processing" ->
         {[status |-> "success", payload |-> b] : b \in BOOLEAN}
           \union (IF site = "query" THEN {} ELSE {[j EXCEPT !.status = "failed"]})
    [] j.status = "success" ->
         (IF j.payload THEN {} ELSE {[j EXCEPT !.payload = TRUE]})
           \union (IF site = "token" THEN {[j EXCEPT !.status = "revoking"]} ELSE {})
    [] j.status = "revoking" -> {[j EXCEPT !.status = "failed"]}
    [] j.status = "failed" -> {}

JobMoves ==
  /\ pc # "done"
  /\ job' \in Successors(job)
  /\ settledAt' = IF Verdict(site, job) = "retry" THEN clock ELSE settledAt
  /\ UNCHANGED <<site, stop, clock, pollVars>>

(* Timers fire when due and an operation ends within MaxOpTime: time does  *)
(* not pass a wake-up or the end of an operation that is still to happen.  *)
MustActNow ==
  \/ pc \in {"start", "done"}
  \/ pc = "asleep" /\ clock >= wakeAt
  \/ pc \in {"calling", "answered"} /\ clock >= callAt + MaxOpTime

Tick ==
  /\ ~MustActNow
  /\ clock < Horizon
  /\ clock' = clock + 1
  /\ UNCHANGED <<site, stop, pollVars, job, settledAt>>

Terminated == pc = "done" /\ UNCHANGED vars

PollerStep ==
  \/ ExhaustedAtOnce \/ Begin \/ Settle \/ TimeOut \/ Sleep \/ Wake

Next ==
  \/ PollerStep
  \/ Observe \/ OperationFails \/ Cancel
  \/ JobMoves \/ Tick
  \/ Terminated

Spec == Init /\ [][Next]_vars

(* The loop itself always goes on, an operation ends because httpx has     *)
(* timeouts, and time passes.  Nothing makes KSeF finish the job.          *)
FairSpec ==
  Spec /\ WF_vars(PollerStep) /\ WF_vars(Observe \/ OperationFails) /\ WF_vars(Tick)

-----------------------------------------------------------------------------
Settled == Verdict(site, job) # "retry"

\* What the caller waits for has come true.
Reached(s, j) ==
  IF s \in {"invoice", "query", "export"} THEN j.payload ELSE j.status = "success"

\* The types, and a poll has a result exactly when it is over.
TypeOK ==
  /\ site \in Sites
  /\ stop \in StopConditions
  /\ pc \in {"start", "calling", "answered", "asleep", "done"}
  /\ clock \in Nat /\ attempts \in Nat /\ callAt \in Nat
  /\ wakeAt \in Nat /\ settledAt \in Nat
  /\ seen \in Jobs /\ job \in Jobs
  /\ result \in {"none", "returned", "raised", "timeout", "error", "cancelled"}
  /\ pc = "done" <=> result # "none"

(* A timeout is never raised for a job that was settled when the last call *)
(* was made, and with a delay that call was late enough: a job that settled *)
(* longer than one operation before the deadline is never missed.          *)
NoMissedCompletion ==
  result = "timeout" /\ attempts > 0 /\ Settled =>
    /\ settledAt >= callAt
    /\ stop.kind = "delay" => settledAt + MaxOpTime >= stop.bound

\* A timeout is raised only after the time or the attempts are used up.
TimeoutIsDue ==
  result = "timeout" =>
    IF stop.kind = "delay" THEN clock >= stop.bound ELSE attempts >= stop.bound

(* The wait outlasts the timeout it was given by less than one interval    *)
(* and one operation: the delay is only looked at when an answer is in.    *)
OverrunBounded ==
  pc = "done" /\ stop.kind = "delay" =>
    clock <= MaxOpTime \/ clock < stop.bound + PollInterval + MaxOpTime

(* What the poll reports is still true when it is reported, however late   *)
(* the answer: a failure is final, and a success can only be undone by the *)
(* revocation of a token.                                                  *)
ResultIsTrue ==
  /\ result = "raised" => job.status = "failed"
  /\ result = "returned" => Reached(site, seen)
  /\ result = "returned" /\ site # "token" => Reached(site, job)

\* Every poll ends, also one whose job never settles.
PollingEnds == <>(pc = "done")

=============================================================================
