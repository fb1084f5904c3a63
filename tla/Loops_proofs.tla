---------------------------- MODULE Loops_proofs ----------------------------
(***************************************************************************)
(* Proofs about the two loops of the client: the one that asks until a job *)
(* is done (Polling) and the one that asks until there are no more pages   *)
(* (MetadataPagination).                                                   *)
(*                                                                         *)
(* Polling is proved for every timeout, interval and length of an          *)
(* operation.  The inductive invariant adds to the properties what is true *)
(* in the middle of a poll: how the clock, the last call and the wake-up   *)
(* are ordered, and how the answer in hand relates to the job as it is.    *)
(*                                                                         *)
(* The iteration is proved for every set of invoices, page size, limit,    *)
(* offset and number of arrivals.  The inductive invariant compares what   *)
(* the caller has been given with the places of the records in the query   *)
(* at hand; places are counts, so the lemmas are about cardinalities.      *)
(***************************************************************************)
EXTENDS Polling, MetadataPagination, FiniteSetTheorems, TLAPS

-----------------------------------------------------------------------------
(* Part 1.  Polling.                                                       *)

\* Before the first call nothing has happened.
StartInv == pc = "start" => clock = 0 /\ attempts = 0 /\ callAt = 0

\* An operation is within its time; the job settled in the past.
ClockInv ==
  /\ callAt <= clock
  /\ settledAt <= clock
  /\ pc \in {"calling", "answered"} =>
       attempts > 0 /\ clock <= callAt + MaxOpTime
  /\ pc = "asleep" => clock <= wakeAt

\* With a delay, neither a call nor a wake-up is later than one interval.
DeadlineInv ==
  stop.kind = "delay" =>
    /\ callAt = 0 \/ callAt < stop.bound + PollInterval
    /\ pc = "asleep" => wakeAt < stop.bound + PollInterval

\* KSeF withdraws nothing but tokens and shows no payload while it works.
JobInv ==
  /\ job.status = "revoking" => site = "token"
  /\ seen.status = "revoking" => site = "token"
  /\ job.payload => job.status # "processing"

\* How the answer in hand relates to the job, which may have moved on.
AnswerInv ==
  pc = "answered" =>
    /\ seen.status = "failed" => job.status = "failed"
    /\ site # "token" /\ Reached(site, seen) => Reached(site, job)
    /\ Verdict(site, seen) = "retry" /\ Settled => settledAt >= callAt

IInv ==
  /\ TypeOK /\ StartInv /\ ClockInv /\ DeadlineInv /\ JobInv /\ AnswerInv
  /\ NoMissedCompletion /\ TimeoutIsDue /\ OverrunBounded /\ ResultIsTrue

-----------------------------------------------------------------------------
\* A call site polls again, raises or returns.
LEMMA VerdictIsOneOfThree ==
  ASSUME NEW s \in Sites, NEW j \in Jobs
  PROVE  Verdict(s, j) \in {"retry", "raise", "return"}
  BY SitesAreKnown DEF Verdict, AuthVerdict, TokenVerdict, InvoiceVerdict,
     BatchVerdict, DownloadVerdict, QueryVerdict, ExportVerdict

\* Only a failed job makes a call site raise.
LEMMA RaiseMeansFailed ==
  ASSUME NEW s \in Sites, NEW j \in Jobs, Verdict(s, j) = "raise"
  PROVE  j.status = "failed"
  BY SitesAreKnown DEF Verdict, AuthVerdict, TokenVerdict, InvoiceVerdict,
     BatchVerdict, DownloadVerdict, QueryVerdict, ExportVerdict

\* A call site returns only what its caller waits for.
LEMMA ReturnMeansReached ==
  ASSUME NEW s \in Sites, NEW j \in Jobs, Verdict(s, j) = "return",
         j.status = "revoking" => s = "token"
  PROVE  Reached(s, j)
  BY SitesAreKnown DEF Verdict, AuthVerdict, TokenVerdict, InvoiceVerdict,
     BatchVerdict, DownloadVerdict, QueryVerdict, ExportVerdict, Reached, Jobs

\* What a job keeps when KSeF moves it on.
LEMMA JobGoesOn ==
  ASSUME site \in Sites, job \in Jobs, job' \in Successors(job), site' = site, JobInv
  PROVE  /\ job' \in Jobs
         /\ job.status # "failed"
         /\ job'.status = "revoking" => site = "token"
         /\ job'.payload => job'.status # "processing"
         /\ \A s \in Sites : s = site /\ s # "token" /\ Reached(s, job) => Reached(s, job')
<1>1. job.status \in {"processing", "success", "revoking", "failed"} /\ job.payload \in BOOLEAN
  BY DEF Jobs
<1>2. job = [status |-> job.status, payload |-> job.payload]
  BY DEF Jobs
<1>3. CASE job.status = "processing"
  BY <1>1, <1>2, <1>3 DEF Successors, Jobs, JobInv, Reached
<1>4. CASE job.status = "success"
  BY <1>1, <1>2, <1>4 DEF Successors, Jobs, JobInv, Reached
<1>5. CASE job.status = "revoking"
  BY <1>1, <1>2, <1>5 DEF Successors, Jobs, JobInv, Reached
<1>6. CASE job.status = "failed"
  BY <1>6 DEF Successors
<1> QED BY <1>1, <1>3, <1>4, <1>5, <1>6

-----------------------------------------------------------------------------
LEMMA InitInv == Init => IInv
  BY TimesAreNumbers DEF Init, IInv, TypeOK, StartInv, ClockInv, DeadlineInv, JobInv,
     AnswerInv, NoMissedCompletion, TimeoutIsDue, OverrunBounded, ResultIsTrue, Jobs,
     StopConditions

\* The bound of a stop condition is a number.
LEMMA BoundIsANumber ==
  ASSUME TypeOK
  PROVE  /\ stop.kind \in {"delay", "attempts"}
         /\ stop.bound \in Int
         /\ stop.kind = "delay" => stop.bound \in Nat
<1>1. stop \in [kind : {"delay"}, bound : Timeouts]
        \/ stop \in [kind : {"attempts"}, bound : AttemptLimits]
  BY DEF TypeOK, StopConditions
<1>2. CASE stop \in [kind : {"delay"}, bound : Timeouts]
  <2>1. stop.kind = "delay" /\ stop.bound \in Timeouts
    BY <1>2
  <2>2. stop.bound \in Nat
    BY <2>1, TimesAreNumbers
  <2>3. stop.bound \in Int
    BY <2>2
  <2> QED BY <2>1, <2>2, <2>3
<1>3. CASE stop \in [kind : {"attempts"}, bound : AttemptLimits]
  <2>1. stop.kind = "attempts" /\ stop.bound \in AttemptLimits
    BY <1>3
  <2>2. stop.bound \in Int
    BY <2>1, LimitsAreNumbers
  <2> QED BY <2>1, <2>2
<1> QED BY <1>1, <1>2, <1>3

LEMMA NextInv == IInv /\ [Next]_vars => IInv'
<1> SUFFICES ASSUME IInv, [Next]_vars PROVE IInv'
  OBVIOUS
<1> USE TimesAreNumbers
<1>0. TypeOK /\ StartInv /\ ClockInv /\ DeadlineInv /\ JobInv /\ AnswerInv
      /\ NoMissedCompletion /\ TimeoutIsDue /\ OverrunBounded /\ ResultIsTrue
  BY DEF IInv
<1>b. /\ stop.kind \in {"delay", "attempts"}
      /\ stop.bound \in Int
      /\ stop.kind = "delay" => stop.bound \in Nat
  BY <1>0, BoundIsANumber
<1>v. ASSUME NEW s \in Sites, NEW j \in Jobs
      PROVE  Verdict(s, j) \in {"retry", "raise", "return"}
  BY <1>v, VerdictIsOneOfThree
<1>1. CASE ExhaustedAtOnce
  BY <1>0, <1>b, <1>1 DEF ExhaustedAtOnce, End, IInv, TypeOK, StartInv, ClockInv, DeadlineInv,
     JobInv, AnswerInv, NoMissedCompletion, TimeoutIsDue, OverrunBounded, ResultIsTrue
<1>2. CASE Begin
  BY <1>0, <1>b, <1>2 DEF Begin, StartCall, IInv, TypeOK, StartInv, ClockInv, DeadlineInv,
     JobInv, AnswerInv, NoMissedCompletion, TimeoutIsDue, OverrunBounded, ResultIsTrue
<1>3. CASE Observe
  BY <1>0, <1>b, <1>3 DEF Observe, IInv, TypeOK, StartInv, ClockInv, DeadlineInv,
     JobInv, AnswerInv, NoMissedCompletion, TimeoutIsDue, OverrunBounded, ResultIsTrue, Settled
<1>4. CASE OperationFails
  BY <1>0, <1>b, <1>4 DEF OperationFails, End, IInv, TypeOK, StartInv, ClockInv, DeadlineInv,
     JobInv, AnswerInv, NoMissedCompletion, TimeoutIsDue, OverrunBounded, ResultIsTrue
<1>5. CASE Settle
  <2>1. site \in Sites /\ seen \in Jobs /\ pc = "answered"
    BY <1>0, <1>5 DEF TypeOK, Settle
  <2>2. ResultIsTrue'
    <3>1. CASE Verdict(site, seen) = "return"
      <4>1. Reached(site, seen)
        BY <1>0, <2>1, <3>1, ReturnMeansReached DEF JobInv
      <4> QED BY <1>0, <1>5, <2>1, <3>1, <4>1
              DEF Settle, End, ResultIsTrue, AnswerInv, Reached
    <3>2. CASE Verdict(site, seen) = "raise"
      <4>1. seen.status = "failed"
        BY <2>1, <3>2, RaiseMeansFailed
      <4> QED BY <1>0, <1>5, <2>1, <3>2, <4>1 DEF Settle, End, ResultIsTrue, AnswerInv
    <3> QED BY <1>5, <1>v, <2>1, <3>1, <3>2 DEF Settle
  <2> QED BY <1>0, <1>b, <1>5, <2>2 DEF Settle, End, IInv, TypeOK, StartInv, ClockInv,
     DeadlineInv, JobInv, AnswerInv, NoMissedCompletion, TimeoutIsDue, OverrunBounded
<1>6. CASE TimeOut
  <2>1. NoMissedCompletion'
    <3>1. (Settled)' = Settled
      BY <1>6 DEF TimeOut, Settled
    <3> QED BY <1>0, <1>b, <1>6, <3>1
            DEF TimeOut, End, Exhausted, NoMissedCompletion, AnswerInv, ClockInv, TypeOK
  <2> QED BY <1>0, <1>b, <1>6, <2>1 DEF TimeOut, End, Exhausted, IInv, TypeOK, StartInv,
     ClockInv, DeadlineInv, JobInv, AnswerInv, TimeoutIsDue, OverrunBounded, ResultIsTrue
<1>7. CASE Sleep
  BY <1>0, <1>b, <1>7 DEF Sleep, Exhausted, WakeTime, IInv, TypeOK, StartInv, ClockInv,
     DeadlineInv, JobInv, AnswerInv, NoMissedCompletion, TimeoutIsDue, OverrunBounded,
     ResultIsTrue
<1>8. CASE Wake
  BY <1>0, <1>b, <1>8 DEF Wake, StartCall, IInv, TypeOK, StartInv, ClockInv, DeadlineInv,
     JobInv, AnswerInv, NoMissedCompletion, TimeoutIsDue, OverrunBounded, ResultIsTrue
<1>9. CASE Cancel
  BY <1>0, <1>b, <1>9 DEF Cancel, End, IInv, TypeOK, StartInv, ClockInv, DeadlineInv,
     JobInv, AnswerInv, NoMissedCompletion, TimeoutIsDue, OverrunBounded, ResultIsTrue
<1>10. CASE JobMoves
  <2>1. /\ pc # "done" /\ pc' = pc /\ site' = site /\ seen' = seen /\ callAt' = callAt
        /\ stop' = stop /\ clock' = clock /\ attempts' = attempts /\ wakeAt' = wakeAt
        /\ result' = result /\ job' \in Successors(job)
        /\ settledAt' = IF Verdict(site, job) = "retry" THEN clock ELSE settledAt
    BY <1>10 DEF JobMoves, pollVars
  <2>2. /\ job' \in Jobs
        /\ job.status # "failed"
        /\ job'.status = "revoking" => site = "token"
        /\ job'.payload => job'.status # "processing"
        /\ \A s \in Sites : s = site /\ s # "token" /\ Reached(s, job) => Reached(s, job')
    BY <1>0, <2>1, JobGoesOn DEF TypeOK
  <2>3. AnswerInv'
    <3> SUFFICES ASSUME pc = "answered"
                 PROVE  /\ seen.status = "failed" => job'.status = "failed"
                        /\ site # "token" /\ Reached(site, seen) => Reached(site, job')
                        /\ Verdict(site, seen) = "retry" /\ Verdict(site, job') # "retry"
                             => settledAt' >= callAt
      BY <2>1 DEF AnswerInv, Settled
    <3>1. seen.status # "failed"
      BY <1>0, <2>2 DEF AnswerInv
    <3>2. site # "token" /\ Reached(site, seen) => Reached(site, job')
      BY <1>0, <2>2 DEF AnswerInv, TypeOK
    <3>3. Verdict(site, seen) = "retry" => settledAt' >= callAt
      BY <1>0, <2>1 DEF AnswerInv, Settled, ClockInv, TypeOK
    <3> QED BY <3>1, <3>2, <3>3
  <2>4. ResultIsTrue' /\ NoMissedCompletion' /\ TimeoutIsDue' /\ OverrunBounded'
    BY <1>0, <2>1 DEF TypeOK, ResultIsTrue, NoMissedCompletion, TimeoutIsDue, OverrunBounded
  <2>5. TypeOK' /\ StartInv' /\ ClockInv' /\ DeadlineInv' /\ JobInv'
    BY <1>0, <2>1, <2>2 DEF TypeOK, StartInv, ClockInv, DeadlineInv, JobInv
  <2> QED BY <2>3, <2>4, <2>5 DEF IInv
<1>11. CASE Tick
  BY <1>0, <1>b, <1>11 DEF Tick, MustActNow, pollVars, IInv, TypeOK, StartInv, ClockInv,
     DeadlineInv, JobInv, AnswerInv, NoMissedCompletion, TimeoutIsDue, OverrunBounded,
     ResultIsTrue, Settled
<1>12. CASE UNCHANGED vars
  BY <1>0, <1>12 DEF vars, IInv, TypeOK, StartInv, ClockInv, DeadlineInv, JobInv, AnswerInv,
     NoMissedCompletion, TimeoutIsDue, OverrunBounded, ResultIsTrue, Settled
<1> QED BY <1>1, <1>2, <1>3, <1>4, <1>5, <1>6, <1>7, <1>8, <1>9, <1>10, <1>11, <1>12
        DEF Next, PollerStep, Terminated

LEMMA Invariance == Spec => []IInv
  BY InitInv, NextInv, PTL DEF Spec

(* Every variable of a poll keeps its type, and a poll has a result        *)
(* exactly when it is over.                                                *)
THEOREM TypeCorrect == Spec => []TypeOK
  BY Invariance, PTL DEF IInv

(* poll_until never reports a timeout for a job that was settled when the  *)
(* last call was made or longer than one operation before the deadline.    *)
THEOREM CompletionIsNotMissed == Spec => []NoMissedCompletion
  BY Invariance, PTL DEF IInv

\* poll_until never gives up before its time or its attempts are used up.
THEOREM NeverTimesOutEarly == Spec => []TimeoutIsDue
  BY Invariance, PTL DEF IInv

(* A wait is over less than one interval and one operation after its       *)
(* deadline.                                                               *)
THEOREM OverrunIsBounded == Spec => []OverrunBounded
  BY Invariance, PTL DEF IInv

\* What a poll returns or raises is still true of the job.
THEOREM ResultHolds == Spec => []ResultIsTrue
  BY Invariance, PTL DEF IInv

-----------------------------------------------------------------------------
(* Part 2.  Metadata pagination.                                           *)

\* The number of the first record that is past the page at hand.
PageEnd == (pageOffset + 1) * PageSize

\* What the caller is still to be given: due, and of no date that was cut off.
Owed == {i \in due \ delivered : ~(dateOf[i] \in boundaries /\ CutsOff(dateOf[i]))}

\* The dates follow KSeF's order; a narrowed range begins, or ends, with its boundary as it
\* was sent.
RangeInv ==
  /\ \A i, j \in Invoices : i < j => dateOf[i] <= dateOf[j]
  /\ previous # NoDate =>
       Sent(previous) = (IF sortOrder = "asc" THEN dateFrom ELSE dateTo)

\* What has not been delivered is not before the page that is asked for; without arrivals,
\* what has been is before it or of a boundary date.
QueryInv ==
  phase = "query" =>
    /\ pageOffset * PageSize < Limit
    /\ \A i \in Owed :
         i \in Matching /\ pageOffset * PageSize <= Rank(i, Matching)
    /\ arrivals = 0 =>
         \A i \in delivered \intersect Matching :
           Rank(i, Matching) < pageOffset * PageSize \/ dateOf[i] \in boundaries

\* The last record of the page, and no record that KSeF shows is past it.
EndsThePage(i) ==
  /\ i \in page.invoices
  /\ \A j \in page.invoices : ~Precedes(i, j)
  /\ Rank(i, Matching) >= Limit - 1

\* The same for a page that is at hand: what the page says of the rest of the query.
PageInv ==
  phase = "page" =>
    /\ page.invoices \subseteq Matching
    /\ \A i \in Owed : i \in Matching
    /\ ~page.hasMore => Owed = {}
    /\ page.hasMore /\ ~page.isTruncated =>
         /\ PageEnd < Limit
         /\ \A i \in Owed : PageEnd <= Rank(i, Matching)
    /\ page.isTruncated =>
         \E l \in page.invoices :
           EndsThePage(l) /\ \A i \in Owed : Precedes(l, i)
    /\ arrivals = 0 =>
         \A i \in delivered \intersect Matching :
           \/ Rank(i, Matching) < PageEnd /\ Rank(i, Matching) < Limit
           \/ dateOf[i] \in boundaries

PagingInv ==
  /\ PagingTypeOK /\ RangeInv /\ QueryInv /\ PageInv
  /\ NothingIsMissed /\ OnlyBoundariesRepeat /\ StallIsDue

-----------------------------------------------------------------------------
(* The places of the records of a query.                                   *)

\* One of two records precedes the other, and nothing precedes itself.
LEMMA OrderIsTotal ==
  ASSUME NEW i \in Nat, NEW j \in Nat
  PROVE  /\ ~Precedes(i, i)
         /\ Precedes(i, j) => ~Precedes(j, i)
         /\ i # j => Precedes(i, j) \/ Precedes(j, i)
         /\ \A k \in Nat : Precedes(i, j) /\ Precedes(j, k) => Precedes(i, k)
  BY DEF Precedes

\* A place is a number below the number of the records.
LEMMA RankIsAPlace ==
  ASSUME NEW S, S \subseteq Invoices, NEW i \in Invoices
  PROVE  /\ IsFiniteSet(S) /\ Cardinality(S) \in Nat
         /\ Rank(i, S) \in Nat
         /\ i \in S => Rank(i, S) < Cardinality(S)
<1> DEFINE Before == {j \in S : Precedes(j, i)}
<1>1. IsFiniteSet(S) /\ Cardinality(S) \in Nat
  BY InvoicesAreNumbers, FS_Subset, FS_CardinalityType
<1>2. /\ IsFiniteSet(Before) /\ Cardinality(Before) <= Cardinality(S)
      /\ Cardinality(S) = Cardinality(Before) => S = Before
  BY <1>1, FS_Subset
<1>3. Cardinality(Before) \in Nat
  BY <1>2, FS_CardinalityType
<1>4. i \notin Before
  BY InvoicesAreNumbers, OrderIsTotal
<1> QED BY <1>1, <1>2, <1>3, <1>4 DEF Rank

\* A record comes after those that precede it, here or among more records.
LEMMA RankGrows ==
  ASSUME NEW S, NEW T, S \subseteq T, T \subseteq Invoices, NEW i \in Invoices
  PROVE  Rank(i, S) <= Rank(i, T)
<1>1. IsFiniteSet({j \in T : Precedes(j, i)})
  BY InvoicesAreNumbers, FS_Subset
<1> QED BY <1>1, FS_Subset DEF Rank

LEMMA RankFollowsOrder ==
  ASSUME NEW S, S \subseteq Invoices, NEW i \in S, NEW j \in Invoices, Precedes(i, j)
  PROVE  Rank(i, S) < Rank(j, S)
<1> DEFINE Before(k) == {h \in S : Precedes(h, k)}
<1>1. IsFiniteSet(Before(i)) /\ IsFiniteSet(Before(j))
  BY InvoicesAreNumbers, FS_Subset
<1>2. Before(i) \subseteq Before(j)
  BY InvoicesAreNumbers, OrderIsTotal
<1>3. i \in Before(j) /\ i \notin Before(i)
  BY InvoicesAreNumbers, OrderIsTotal
<1>4. /\ Cardinality(Before(i)) <= Cardinality(Before(j))
      /\ Cardinality(Before(i)) # Cardinality(Before(j))
  BY <1>1, <1>2, <1>3, FS_Subset
<1>5. Cardinality(Before(i)) \in Nat /\ Cardinality(Before(j)) \in Nat
  BY <1>1, FS_CardinalityType
<1> QED BY <1>4, <1>5 DEF Rank

\* Conversely, the one with the lower place precedes the other.
LEMMA OrderFollowsRank ==
  ASSUME NEW S, S \subseteq Invoices, NEW i \in S, NEW j \in S, Rank(i, S) < Rank(j, S)
  PROVE  Precedes(i, j)
<1>1. Rank(i, S) \in Nat /\ Rank(j, S) \in Nat
  BY RankIsAPlace
<1>2. i # j
  BY <1>1
<1>3. CASE Precedes(j, i)
  BY <1>1, <1>3, RankFollowsOrder
<1> QED BY <1>2, <1>3, InvoicesAreNumbers, OrderIsTotal

\* Every place up to the number of the records is taken: places are different numbers, as
\* many as there are records.
LEMMA EveryPlaceIsTaken ==
  ASSUME NEW S, S \subseteq Invoices, NEW k \in Nat, k < Cardinality(S)
  PROVE  \E i \in S : Rank(i, S) = k
<1> DEFINE n == Cardinality(S)
           Places == 0..(n - 1)
           place == [i \in S |-> Rank(i, S)]
<1>1. n \in Nat /\ IsFiniteSet(S)
  BY InvoicesAreNumbers, FS_Subset, FS_CardinalityType
<1>2. \A i \in S : Rank(i, S) \in Nat /\ Rank(i, S) < n
  BY RankIsAPlace
<1>3. place \in [S -> Places]
  BY <1>1, <1>2
<1>4. \A i, j \in S : Rank(i, S) = Rank(j, S) => i = j
  <2> SUFFICES ASSUME NEW i \in S, NEW j \in S, Rank(i, S) = Rank(j, S), i # j
               PROVE  FALSE
    OBVIOUS
  <2>1. Precedes(i, j) \/ Precedes(j, i)
    BY InvoicesAreNumbers, OrderIsTotal
  <2>2. Rank(i, S) < Rank(j, S) \/ Rank(j, S) < Rank(i, S)
    BY <2>1, RankFollowsOrder
  <2> QED BY <2>2, <1>2
<1>5. place \in Injection(S, Places)
  BY <1>3, <1>4 DEF Injection, IsInjective
<1>6. IsFiniteSet(Places) /\ Cardinality(Places) = n
  <2>1. PICK b \in Int : b = n - 1
    BY <1>1
  <2>2. IsFiniteSet(0..b) /\ Cardinality(0..b) = IF 0 > b THEN 0 ELSE b - 0 + 1
    BY FS_Interval
  <2> QED BY <1>1, <2>1, <2>2
<1>7. place \in Surjection(S, Places)
  BY <1>5, <1>6, FS_Injection
<1>8. k \in Places
  BY <1>1
<1>9. \E i \in S : place[i] = k
  BY <1>7, <1>8 DEF Surjection
<1> QED BY <1>9

-----------------------------------------------------------------------------
(* What the invariant says of a state.                                     *)

\* A step that leaves the range, the dates and the order alone, and takes no invoice away,
\* puts no record of the query at an earlier place.
LEMMA PlacesOnlyGrow ==
  ASSUME PagingTypeOK, present \subseteq present', present' \subseteq Invoices,
         UNCHANGED <<dateOf, sortOrder, dateFrom, dateTo>>
  PROVE  /\ Matching \subseteq Matching' /\ Matching' \subseteq Invoices
         /\ \A i \in Invoices : Rank(i, Matching) <= Rank(i, Matching)'
         /\ \A i, j : Precedes(i, j)' = Precedes(i, j)
<1>1. Matching \subseteq Matching' /\ Matching' \subseteq Invoices
  BY DEF Matching, PagingTypeOK
<1>2. \A i, j : Precedes(i, j)' = Precedes(i, j)
  BY DEF Precedes
<1>3. ASSUME NEW i \in Invoices PROVE Rank(i, Matching) <= Rank(i, Matching)'
  <2>1. Rank(i, Matching)' = Rank(i, Matching')
    BY <1>2 DEF Rank
  <2> QED BY <1>1, <2>1, RankGrows
<1> QED BY <1>1, <1>2, <1>3

LEMMA MatchingAreInvoices ==
  ASSUME PagingTypeOK
  PROVE  Matching \subseteq Invoices /\ Matching \subseteq present
  BY DEF Matching, PagingTypeOK

\* The numbers that a state holds.
LEMMA NumbersOfAState ==
  ASSUME PagingTypeOK
  PROVE  /\ PageSize \in Nat /\ PageSize > 0 /\ Limit \in Nat /\ Limit > 0
         /\ pageOffset \in Nat /\ pageOffset * PageSize \in Nat
         /\ PageEnd \in Nat /\ PageEnd = pageOffset * PageSize + PageSize
         /\ \A i \in Invoices : Rank(i, Matching) \in Nat
         /\ Cardinality(Matching) \in Nat
<1>1. /\ PageSize \in Nat /\ PageSize > 0 /\ Limit \in Nat /\ Limit > 0
  BY SizesArePositive
<1>2. pageOffset \in Nat
  BY <1>1 DEF PagingTypeOK
<1>3. pageOffset * PageSize \in Nat
  BY <1>1, <1>2
<1>4. PageEnd \in Nat /\ PageEnd = pageOffset * PageSize + PageSize
  BY <1>1, <1>2, <1>3 DEF PageEnd
<1>5. \A i \in Invoices : Rank(i, Matching) \in Nat
  BY MatchingAreInvoices, RankIsAPlace
<1>6. Cardinality(Matching) \in Nat
  BY MatchingAreInvoices, InvoicesAreNumbers, FS_Subset, FS_CardinalityType
<1> QED BY <1>1, <1>2, <1>3, <1>4, <1>5, <1>6

\* A page that is cut by the limit ends with the last record KSeF shows.
LEMMA TruncatedPageHasAnEnd ==
  ASSUME PagingTypeOK, pageOffset * PageSize < Limit, Response.isTruncated
  PROVE  \E l \in Response.invoices :
           /\ \A j \in Response.invoices : ~Precedes(l, j)
           /\ Rank(l, Matching) = Limit - 1
<1>0. PICK end : end = PageEnd
  OBVIOUS
<1>1. end >= Limit /\ Cardinality(Matching) > Limit
  BY <1>0 DEF Response, PageEnd
<1>2. Response.invoices = {i \in Matching : /\ pageOffset * PageSize <= Rank(i, Matching)
                                            /\ Rank(i, Matching) < end
                                            /\ Rank(i, Matching) < Limit}
  BY <1>0 DEF Response, PageEnd
<1>3. Limit - 1 \in Nat /\ Limit - 1 < Cardinality(Matching)
  BY <1>1, NumbersOfAState
<1>4. PICK l \in Matching : Rank(l, Matching) = Limit - 1
  BY <1>3, MatchingAreInvoices, EveryPlaceIsTaken
<1>5. l \in Response.invoices
  BY <1>0, <1>1, <1>2, <1>4, NumbersOfAState
<1>6. ASSUME NEW j \in Response.invoices, Precedes(l, j) PROVE FALSE
  <2>1. j \in Matching /\ Rank(j, Matching) < Limit
    BY <1>2
  <2>2. Rank(l, Matching) < Rank(j, Matching)
    BY <1>6, <2>1, MatchingAreInvoices, RankFollowsOrder
  <2> QED BY <1>4, <2>1, <2>2, MatchingAreInvoices, NumbersOfAState
<1> QED BY <1>4, <1>5, <1>6

\* The boundary is the date of the record that ends the page.
LEMMA BoundaryEndsThePage ==
  ASSUME PagingTypeOK, page.invoices \subseteq Matching, NEW l, EndsThePage(l)
  PROVE  Boundary = dateOf[l] /\ Boundary \in Dates /\ l \in Matching
<1>1. page.invoices \subseteq Invoices
  BY MatchingAreInvoices
<1>2. l \in page.invoices /\ \A j \in page.invoices : ~Precedes(l, j)
  BY DEF EndsThePage
<1> DEFINE last == CHOOSE i \in page.invoices : \A j \in page.invoices : ~Precedes(i, j)
<1>3. last \in page.invoices /\ \A j \in page.invoices : ~Precedes(last, j)
  BY <1>2
<1>4. last = l
  BY <1>1, <1>2, <1>3, InvoicesAreNumbers, OrderIsTotal
<1> QED BY <1>1, <1>2, <1>4 DEF Boundary, PagingTypeOK

\* A date is sent as a moment less than a day off its midnight, and off to the wrong side
\* only if the date is cut off.
LEMMA SentIsNear ==
  ASSUME PagingTypeOK, NEW d \in Dates
  PROVE  /\ d \in Int /\ Midnight(d) = 24 * d
         /\ Sent(d) \in Int /\ Midnight(d) - 24 < Sent(d) /\ Sent(d) < Midnight(d) + 24
         /\ sortOrder = "asc" /\ ~CutsOff(d) => Sent(d) <= Midnight(d)
         /\ sortOrder = "desc" /\ ~CutsOff(d) => Midnight(d) <= Sent(d)
<1>1. zone \in [Dates -> -23..23]
  BY ZonesAreWithinADay DEF PagingTypeOK
<1>2. zone[d] \in -23..23
  BY <1>1
<1>3. d \in Int
  BY DEF Dates
<1> QED BY <1>2, <1>3 DEF Midnight, Sent, CutsOff

\* Where a step leaves the request alone a date is sent, or cut off, as before.
LEMMA SameAskSameDates ==
  ASSUME UNCHANGED <<sortOrder, dateType, zone>>
  PROVE  \A d : Sent(d)' = Sent(d) /\ (CutsOff(d)' <=> CutsOff(d))
  BY DEF Sent, CutsOff, Midnight

\* A step that leaves the query and what KSeF has alone changes no place.
LEMMA SameQuerySamePlaces ==
  ASSUME UNCHANGED <<present, dateOf, sortOrder, dateFrom, dateTo>>
  PROVE  /\ Matching' = Matching
         /\ \A i : Rank(i, Matching)' = Rank(i, Matching)
         /\ \A i, j : Precedes(i, j)' = Precedes(i, j)
  BY DEF Matching, Rank, Precedes

-----------------------------------------------------------------------------
(* The inductive invariant.                                                *)

LEMMA PagingStartsRight == PagingInit => PagingInv
<1> SUFFICES ASSUME PagingInit PROVE PagingInv
  OBVIOUS
<1> USE SizesArePositive, ArrivalsAreCounted DEF PagingInit
<1>1. pageOffset \in Nat /\ pageOffset * PageSize < Limit
  BY OffsetsAreBelowLimit
<1>2. pageOffset \in 0..Limit
  <2>1. pageOffset * PageSize >= pageOffset
    BY <1>1
  <2> QED BY <1>1, <2>1
<1>3. Midnight(1) \in Int /\ Midnight(LastDate) \in Int
  BY DEF Midnight
<1>4. PagingTypeOK
  <2>1. page \in Pages /\ ~page.isTruncated
    BY DEF NoPage, Pages
  <2> QED BY <1>2, <1>3, <2>1 DEF PagingTypeOK
<1>5. RangeInv
  BY DEF RangeInv, NoDate
<1>6. Matching = present
  BY DEF Matching, Dates, Midnight
<1>7. QueryInv
  BY <1>1, <1>6 DEF QueryInv, Owed
<1>8. PageInv /\ NothingIsMissed /\ OnlyBoundariesRepeat /\ StallIsDue
  BY DEF PageInv, NothingIsMissed, OnlyBoundariesRepeat, StallIsDue
<1> QED BY <1>4, <1>5, <1>7, <1>8 DEF PagingInv

\* The response is of the types the caller expects.
LEMMA ResponseIsAPage ==
  ASSUME PagingTypeOK, pageOffset * PageSize < Limit
  PROVE  /\ Response \in Pages
         /\ Response.invoices \subseteq Matching
         /\ Response.isTruncated => Response.hasMore /\ Response.invoices # {}
<1>1. Response.invoices \subseteq Matching
  BY DEF Response
<1>2. Response \in Pages
  BY MatchingAreInvoices DEF Response, Pages
<1>3. ASSUME Response.isTruncated PROVE Response.hasMore /\ Response.invoices # {}
  BY <1>3, TruncatedPageHasAnEnd DEF Response
<1> QED BY <1>1, <1>2, <1>3

\* The three ends of a page, in numbers.
LEMMA ReadingAResponse ==
  ASSUME PagingTypeOK
  PROVE  /\ \A i : i \in Response.invoices <=>
                     /\ i \in Matching
                     /\ pageOffset * PageSize <= Rank(i, Matching)
                     /\ Rank(i, Matching) < PageEnd /\ Rank(i, Matching) < Limit
         /\ Response.hasMore
              <=> Cardinality(Matching) > PageEnd \/ Cardinality(Matching) > Limit
         /\ Response.isTruncated <=> PageEnd >= Limit /\ Cardinality(Matching) > Limit
  BY DEF Response, PageEnd

LEMMA QueryKeepsInv == PagingInv /\ Query => PagingInv'
<1> SUFFICES ASSUME PagingInv, Query PROVE PagingInv'
  OBVIOUS
<1>1. PagingTypeOK /\ RangeInv /\ QueryInv /\ OnlyBoundariesRepeat /\ NothingIsMissed
  BY DEF PagingInv
<1>2. /\ phase = "query" /\ phase' = "page" /\ page' = Response
      /\ delivered' = delivered \union Response.invoices
      /\ repeated' = repeated \union (delivered \intersect Response.invoices)
      /\ UNCHANGED <<sortOrder, dateType, zone, dateFrom, dateTo, pageOffset, previous, outcome, due,
                     boundaries, dateOf, present, arrivals>>
  BY DEF Query, request, asked, ksef
<1>3. /\ Matching' = Matching
      /\ \A i : Rank(i, Matching)' = Rank(i, Matching)
      /\ \A i, j : Precedes(i, j)' = Precedes(i, j)
      /\ PageEnd' = PageEnd
      /\ \A d : Sent(d)' = Sent(d) /\ (CutsOff(d)' <=> CutsOff(d))
  BY <1>2, SameQuerySamePlaces, SameAskSameDates DEF PageEnd
<1>a. Owed' = Owed \ Response.invoices
  BY <1>2, <1>3 DEF Owed
<1>4. /\ pageOffset * PageSize < Limit
      /\ \A i \in Owed :
           i \in Matching /\ pageOffset * PageSize <= Rank(i, Matching)
      /\ arrivals = 0 =>
           \A i \in delivered \intersect Matching :
             Rank(i, Matching) < pageOffset * PageSize \/ dateOf[i] \in boundaries
  BY <1>1, <1>2 DEF QueryInv
<1>5. /\ Response \in Pages
      /\ Response.invoices \subseteq Matching
      /\ Response.isTruncated => Response.hasMore /\ Response.invoices # {}
  BY <1>1, <1>4, ResponseIsAPage
<1>6. /\ PageSize \in Nat /\ PageSize > 0 /\ Limit \in Nat
      /\ pageOffset * PageSize \in Nat
      /\ PageEnd \in Nat /\ PageEnd = pageOffset * PageSize + PageSize
      /\ \A i \in Matching : i \in Invoices /\ Rank(i, Matching) \in Nat
      /\ \A i \in Matching : Rank(i, Matching) < Cardinality(Matching)
      /\ Cardinality(Matching) \in Nat
  BY <1>1, NumbersOfAState, MatchingAreInvoices, RankIsAPlace
<1>7. PagingTypeOK'
  BY <1>1, <1>2, <1>5, MatchingAreInvoices DEF PagingTypeOK
<1>8. RangeInv' /\ QueryInv' /\ NothingIsMissed' /\ StallIsDue'
  BY <1>1, <1>2, <1>3 DEF RangeInv, QueryInv, NothingIsMissed, StallIsDue, PagingTypeOK
<1>9. OnlyBoundariesRepeat'
  <2> SUFFICES ASSUME arrivals = 0, NEW i \in delivered \intersect Response.invoices
               PROVE  dateOf[i] \in boundaries
    BY <1>1, <1>2 DEF OnlyBoundariesRepeat
  <2>1. i \in Matching /\ pageOffset * PageSize <= Rank(i, Matching)
    BY <1>1, ReadingAResponse
  <2> QED BY <1>4, <1>6, <2>1
<1>10. PageInv'
  <2>1. ASSUME NEW i \in Owed'
        PROVE  /\ i \in Matching
               /\ PageEnd <= Rank(i, Matching) \/ Limit <= Rank(i, Matching)
    BY <1>1, <1>a, <1>4, <1>6, <2>1, ReadingAResponse
  <2>2. ASSUME ~Response.hasMore PROVE Owed' = {}
    BY <1>1, <1>6, <2>1, <2>2, ReadingAResponse
  <2>3. ASSUME Response.hasMore, ~Response.isTruncated
        PROVE  PageEnd < Limit /\ \A i \in Owed' : PageEnd <= Rank(i, Matching)
    BY <1>1, <1>6, <2>1, <2>3, ReadingAResponse
  <2>4. ASSUME Response.isTruncated
        PROVE  \E l \in page'.invoices :
                 EndsThePage(l)' /\ \A i \in Owed' : Precedes(l, i)
    <3>1. PICK l \in Response.invoices :
            /\ \A j \in Response.invoices : ~Precedes(l, j)
            /\ Rank(l, Matching) = Limit - 1
      BY <1>1, <1>4, <2>4, TruncatedPageHasAnEnd
    <3>2. EndsThePage(l)'
      BY <1>2, <1>3, <1>6, <3>1 DEF EndsThePage
    <3>3. ASSUME NEW i \in Owed' PROVE Precedes(l, i)
      <4>1. i \in Matching /\ Limit <= Rank(i, Matching)
        BY <1>1, <1>6, <2>1, <2>4, ReadingAResponse
      <4>2. Rank(l, Matching) < Rank(i, Matching)
        BY <1>6, <3>1, <4>1
      <4> QED BY <1>1, <1>5, <4>1, <4>2, OrderFollowsRank, MatchingAreInvoices
    <3> QED BY <1>2, <3>1, <3>2, <3>3
  <2>5. ASSUME arrivals = 0, NEW i \in delivered' \intersect Matching
        PROVE  \/ Rank(i, Matching) < PageEnd /\ Rank(i, Matching) < Limit
               \/ dateOf[i] \in boundaries
    <3>1. CASE i \in Response.invoices
      BY <1>1, <3>1, ReadingAResponse
    <3>2. CASE i \in delivered
      BY <1>4, <1>6, <2>5, <3>2
    <3> QED BY <1>2, <2>5, <3>1, <3>2
  <2> QED BY <1>2, <1>3, <1>5, <2>1, <2>2, <2>3, <2>4, <2>5 DEF PageInv
<1> QED BY <1>1, <1>7, <1>8, <1>9, <1>10 DEF PagingInv

\* The ends of an iteration change nothing that the invariant speaks of but the outcome.
LEMMA EndKeepsInv == PagingInv /\ (QueryFails \/ Finish \/ Stall) => PagingInv'
<1> SUFFICES ASSUME PagingInv, QueryFails \/ Finish \/ Stall PROVE PagingInv'
  OBVIOUS
<1>1. PagingTypeOK /\ RangeInv /\ PageInv /\ OnlyBoundariesRepeat
  BY DEF PagingInv
<1>2. /\ phase' = "done" /\ outcome' \in {"error", "complete", "stalled"}
      /\ UNCHANGED <<sortOrder, dateType, zone, dateFrom, dateTo, pageOffset, previous, page, due, delivered,
                     repeated, boundaries, dateOf, present, arrivals>>
  BY DEF QueryFails, Finish, Stall, request, asked, given, ksef
<1>a. \A d : Sent(d)' = Sent(d) /\ (CutsOff(d)' <=> CutsOff(d))
  BY <1>2, SameAskSameDates
<1>3. PagingTypeOK' /\ RangeInv' /\ QueryInv' /\ PageInv' /\ OnlyBoundariesRepeat'
  BY <1>1, <1>2, <1>a DEF PagingTypeOK, RangeInv, QueryInv, PageInv, OnlyBoundariesRepeat
<1>4. NothingIsMissed'
  <2> SUFFICES ASSUME outcome' = "complete" PROVE Owed = {}
    BY <1>2, <1>a DEF NothingIsMissed, Owed
  <2>1. phase = "page" /\ ~page.hasMore
    BY DEF QueryFails, Finish, Stall
  <2> QED BY <1>1, <2>1 DEF PageInv
<1>5. StallIsDue'
  <2> SUFFICES ASSUME outcome' = "stalled"
               PROVE  Cardinality({i \in present : dateOf[i] = previous}) >= Limit
    BY <1>2 DEF StallIsDue
  <2>1. phase = "page" /\ page.isTruncated /\ Boundary = previous
    BY DEF QueryFails, Finish, Stall, Continues, DoesNotAdvance
  <2>2. page.invoices \subseteq Matching
    BY <1>1, <2>1 DEF PageInv
  <2>3. PICK l : EndsThePage(l)
    BY <1>1, <2>1 DEF PageInv
  <2>4. dateOf[l] = previous /\ previous \in Dates /\ l \in Matching /\ l \in Invoices
    BY <1>1, <2>1, <2>2, <2>3, BoundaryEndsThePage, MatchingAreInvoices
  <2>5. Sent(previous) = IF sortOrder = "asc" THEN dateFrom ELSE dateTo
    BY <1>1, <2>4 DEF RangeInv, NoDate, Dates
  <2>a. 24 * previous - 24 < Sent(previous) /\ Sent(previous) < 24 * previous + 24
        /\ Sent(previous) \in Int /\ previous \in Int
    BY <1>1, <2>4, SentIsNear
  <2> DEFINE Earlier == {j \in Matching : Precedes(j, l)}
             OfThatDate == {i \in present : dateOf[i] = previous}
  <2>6. ASSUME NEW j \in Earlier PROVE j \in OfThatDate
    <3>1. /\ j \in present /\ j \in Invoices /\ Precedes(j, l)
          /\ dateFrom <= 24 * dateOf[j] /\ 24 * dateOf[j] <= dateTo
      BY <1>1, MatchingAreInvoices DEF Matching, Midnight
    <3>2. dateOf[j] \in Int /\ dateOf[l] \in Int
      BY <1>1, <2>4, <3>1 DEF PagingTypeOK, Dates
    <3>3. CASE sortOrder = "asc"
      <4>1. dateOf[j] <= dateOf[l] /\ dateFrom = Sent(previous)
        BY <1>1, <2>4, <2>5, <3>1, <3>3 DEF RangeInv, Precedes
      <4> QED BY <2>4, <2>a, <3>1, <3>2, <4>1
    <3>4. CASE sortOrder = "desc"
      <4>1. dateOf[l] <= dateOf[j] /\ dateTo = Sent(previous)
        BY <1>1, <2>4, <2>5, <3>1, <3>4 DEF RangeInv, Precedes
      <4> QED BY <2>4, <2>a, <3>1, <3>2, <4>1
    <3> QED BY <1>1, <3>3, <3>4 DEF PagingTypeOK
  <2>7. l \in OfThatDate /\ l \notin Earlier
    BY <1>1, <2>4, MatchingAreInvoices, InvoicesAreNumbers, OrderIsTotal
  <2>8. IsFiniteSet(OfThatDate) /\ IsFiniteSet(Earlier)
    BY <1>1, InvoicesAreNumbers, MatchingAreInvoices, FS_Subset DEF PagingTypeOK
  <2>9. Cardinality(Earlier \union {l}) = Cardinality(Earlier) + 1
    BY <2>7, <2>8, FS_AddElement
  <2>10. Cardinality(Earlier \union {l}) <= Cardinality(OfThatDate)
    BY <2>6, <2>7, <2>8, FS_Subset
  <2>11. Cardinality(Earlier) >= Limit - 1
    BY <2>3 DEF EndsThePage, Rank
  <2>12. Cardinality(Earlier) \in Nat /\ Cardinality(OfThatDate) \in Nat /\ Limit \in Nat
    BY <2>8, FS_CardinalityType, SizesArePositive
  <2> QED BY <2>9, <2>10, <2>11, <2>12
<1> QED BY <1>3, <1>4, <1>5 DEF PagingInv

LEMMA NextPageKeepsInv == PagingInv /\ NextPage => PagingInv'
<1> SUFFICES ASSUME PagingInv, NextPage PROVE PagingInv'
  OBVIOUS
<1>1. PagingTypeOK /\ RangeInv /\ PageInv /\ OnlyBoundariesRepeat
  BY DEF PagingInv
<1>2. /\ phase = "page" /\ page.hasMore /\ ~page.isTruncated
      /\ phase' = "query" /\ pageOffset' = pageOffset + 1 /\ page' = NoPage
      /\ UNCHANGED <<sortOrder, dateType, zone, dateFrom, dateTo, previous, outcome, due, delivered,
                     repeated, boundaries, dateOf, present, arrivals>>
  BY DEF NextPage, Continues, Ask, asked, given, ksef
<1>3. /\ Matching' = Matching
      /\ \A i : Rank(i, Matching)' = Rank(i, Matching)
      /\ \A d : Sent(d)' = Sent(d) /\ (CutsOff(d)' <=> CutsOff(d))
      /\ Owed' = Owed
  BY <1>2, SameQuerySamePlaces, SameAskSameDates DEF Owed
<1>4. /\ PageEnd < Limit
      /\ \A i \in Owed : i \in Matching /\ PageEnd <= Rank(i, Matching)
      /\ arrivals = 0 =>
           \A i \in delivered \intersect Matching :
             Rank(i, Matching) < PageEnd \/ dateOf[i] \in boundaries
  BY <1>1, <1>2 DEF PageInv
<1>5. pageOffset' * PageSize = PageEnd
  BY <1>2 DEF PageEnd
<1>6. pageOffset' \in 0..Limit
  <2>1. PageSize \in Nat /\ PageSize > 0 /\ Limit \in Nat /\ pageOffset \in Nat
        /\ pageOffset * PageSize \in Nat /\ PageEnd = pageOffset * PageSize + PageSize
    BY <1>1, NumbersOfAState
  <2>2. pageOffset * PageSize >= pageOffset
    BY <2>1
  <2> QED BY <1>2, <1>4, <2>1, <2>2
<1>7. PagingTypeOK'
  <2>1. page' \in Pages /\ ~page'.isTruncated
    BY <1>2 DEF NoPage, Pages
  <2> QED BY <1>1, <1>2, <1>6, <2>1 DEF PagingTypeOK
<1>8. RangeInv' /\ PageInv' /\ OnlyBoundariesRepeat'
  BY <1>1, <1>2, <1>3 DEF RangeInv, PageInv, OnlyBoundariesRepeat
<1>9. QueryInv'
  BY <1>2, <1>3, <1>4, <1>5 DEF QueryInv
<1>10. NothingIsMissed' /\ StallIsDue'
  BY <1>1, <1>2 DEF NothingIsMissed, StallIsDue, PagingTypeOK
<1> QED BY <1>7, <1>8, <1>9, <1>10 DEF PagingInv

\* What has not been delivered is beyond the boundary, and of what has been the narrowed
\* range keeps only the boundary date.
LEMMA NarrowKeepsInv == PagingInv /\ Narrow => PagingInv'
<1> SUFFICES ASSUME PagingInv, Narrow PROVE PagingInv'
  OBVIOUS
<1>1. PagingTypeOK /\ RangeInv /\ PageInv /\ OnlyBoundariesRepeat
  BY DEF PagingInv
<1>2. /\ phase = "page" /\ page.hasMore /\ page.isTruncated
      /\ phase' = "query" /\ pageOffset' = 0 /\ page' = NoPage
      /\ previous' = Boundary /\ boundaries' = boundaries \union {Boundary}
      /\ UNCHANGED <<sortOrder, dateType, zone, outcome, due, delivered, repeated, dateOf, present, arrivals>>
  BY DEF Narrow, Continues, Ask, asked, given, ksef
<1>3. PICK l : EndsThePage(l) /\ \A i \in Owed : Precedes(l, i)
  BY <1>1, <1>2 DEF PageInv
<1>4. Boundary = dateOf[l] /\ Boundary \in Dates /\ l \in Matching /\ l \in Invoices
  BY <1>1, <1>2, <1>3, BoundaryEndsThePage, MatchingAreInvoices DEF PageInv
<1>5. \/ sortOrder = "asc" /\ dateFrom' = Sent(Boundary) /\ dateTo' = dateTo
      \/ sortOrder = "desc" /\ dateTo' = Sent(Boundary) /\ dateFrom' = dateFrom
  BY <1>1 DEF Narrow, NarrowFilters, PagingTypeOK
<1>a. \A d : Sent(d)' = Sent(d) /\ (CutsOff(d)' <=> CutsOff(d))
  BY <1>2, SameAskSameDates
<1>b. /\ Sent(Boundary) \in Int /\ Boundary \in Int
      /\ 24 * Boundary - 24 < Sent(Boundary) /\ Sent(Boundary) < 24 * Boundary + 24
      /\ sortOrder = "asc" /\ ~CutsOff(Boundary) => Sent(Boundary) <= 24 * Boundary
      /\ sortOrder = "desc" /\ ~CutsOff(Boundary) => 24 * Boundary <= Sent(Boundary)
  BY <1>1, <1>4, SentIsNear
<1>c. Owed' = {i \in Owed : ~(dateOf[i] = Boundary /\ CutsOff(Boundary))}
  BY <1>2, <1>a DEF Owed
<1>6. PageSize \in Nat /\ Limit \in Nat /\ Limit > 0
  BY SizesArePositive
<1>7. \A i \in Invoices : dateOf[i] \in Int
  BY <1>1 DEF PagingTypeOK, Dates
<1>8. PagingTypeOK'
  <2>1. page' \in Pages /\ ~page'.isTruncated
    BY <1>2 DEF NoPage, Pages
  <2>a. dateFrom' \in Int /\ dateTo' \in Int
    BY <1>1, <1>5, <1>b DEF PagingTypeOK
  <2>b. previous' \in Dates /\ boundaries' \subseteq Dates /\ pageOffset' \in 0..Limit
    BY <1>1, <1>2, <1>4, <1>6 DEF PagingTypeOK
  <2>2. dateFrom' \in Int /\ dateTo' \in Int /\ previous' \in Dates
        /\ boundaries' \subseteq Dates /\ pageOffset' \in 0..Limit
    BY <2>a, <2>b
  <2> QED BY <1>1, <1>2, <2>1, <2>2 DEF PagingTypeOK
<1>9. RangeInv'
  BY <1>1, <1>2, <1>5, <1>a DEF RangeInv
<1>10. QueryInv'
  <2>1. \A i \in Invoices : Rank(i, Matching)' \in Nat
    BY <1>8, MatchingAreInvoices, RankIsAPlace DEF Rank, Precedes, PagingTypeOK, Matching
  <2>2. ASSUME NEW i \in Owed' PROVE i \in Matching'
    <3>1. i \in Matching /\ i \in Invoices /\ Precedes(l, i)
      BY <1>1, <1>2, <1>3, <1>c, MatchingAreInvoices DEF PageInv
    <3>a. /\ dateOf[i] \in Int /\ dateOf[l] \in Int /\ dateFrom \in Int /\ dateTo \in Int
          /\ i \in present /\ dateFrom <= 24 * dateOf[i] /\ 24 * dateOf[i] <= dateTo
      BY <1>1, <1>4, <1>7, <3>1 DEF Matching, PagingTypeOK, Midnight
    <3>b. dateOf[i] = Boundary => ~CutsOff(Boundary)
      BY <1>c, <2>2
    <3>c. dateFrom' <= 24 * dateOf[i] /\ 24 * dateOf[i] <= dateTo' => i \in Matching'
      BY <1>2, <3>a DEF Matching, Midnight
    <3>2. CASE sortOrder = "asc"
      <4>1. dateOf[l] <= dateOf[i]
        BY <1>1, <1>4, <3>1, <3>2 DEF RangeInv, Precedes
      <4>a. PICK s \in Int : s = Sent(Boundary)
        BY <1>b
      <4>b. s < 24 * Boundary + 24 /\ (dateOf[i] = Boundary => s <= 24 * Boundary)
        BY <1>b, <3>2, <3>b, <4>a
      <4>2. Sent(Boundary) <= 24 * dateOf[i]
        BY <1>4, <3>a, <4>1, <4>a, <4>b
      <4> QED BY <1>5, <3>2, <3>a, <3>c, <4>2
    <3>3. CASE sortOrder = "desc"
      <4>1. dateOf[i] <= dateOf[l]
        BY <1>1, <1>4, <3>1, <3>3 DEF RangeInv, Precedes
      <4>a. PICK s \in Int : s = Sent(Boundary)
        BY <1>b
      <4>b. 24 * Boundary - 24 < s /\ (dateOf[i] = Boundary => 24 * Boundary <= s)
        BY <1>b, <3>3, <3>b, <4>a
      <4>2. 24 * dateOf[i] <= Sent(Boundary)
        BY <1>4, <3>a, <4>1, <4>a, <4>b
      <4> QED BY <1>5, <3>3, <3>a, <3>c, <4>2
    <3> QED BY <1>1, <3>2, <3>3 DEF PagingTypeOK
  <2>3. ASSUME arrivals = 0, NEW i \in delivered \intersect Matching'
        PROVE  dateOf[i] \in boundaries'
    <3>1. /\ i \in Invoices /\ i \in present
          /\ dateFrom' <= 24 * dateOf[i] /\ 24 * dateOf[i] <= dateTo'
      BY <1>1, <1>2 DEF Matching, PagingTypeOK, Midnight
    <3>2. CASE dateOf[i] = Boundary
      BY <1>2, <3>2
    <3>3. CASE dateOf[i] # Boundary
      <4>1. i \in Matching
        <5>1. dateFrom <= 24 * dateOf[l] /\ 24 * dateOf[l] <= dateTo
          BY <1>4 DEF Matching, Midnight
        <5>2. dateFrom \in Int /\ dateTo \in Int /\ dateOf[l] \in Int /\ dateOf[i] \in Int
          BY <1>1, <1>4, <1>7, <3>1 DEF PagingTypeOK, Dates
        <5>3. dateFrom <= 24 * dateOf[i] /\ 24 * dateOf[i] <= dateTo
          BY <1>4, <1>5, <1>b, <3>1, <5>1, <5>2
        <5> QED BY <3>1, <5>3 DEF Matching, Midnight
      <4>2. Precedes(l, i)
        <5>1. i \in Nat /\ l \in Nat
          BY <1>4, <3>1, InvoicesAreNumbers
        <5>2. dateOf[l] \in Int /\ dateOf[i] \in Int
          BY <1>4, <1>7, <3>1
        <5>3. CASE sortOrder = "asc"
          <6>1. dateOf[l] < dateOf[i]
            BY <1>4, <1>5, <1>b, <3>1, <3>3, <5>2, <5>3
          <6>2. ~(i < l) /\ i # l
            BY <1>1, <1>4, <3>1, <5>2, <6>1 DEF RangeInv
          <6> QED BY <5>1, <5>3, <6>2 DEF Precedes
        <5>4. CASE sortOrder = "desc"
          <6>1. dateOf[i] < dateOf[l]
            BY <1>4, <1>5, <1>b, <3>1, <3>3, <5>2, <5>4
          <6>2. ~(l < i) /\ i # l
            BY <1>1, <1>4, <3>1, <5>2, <6>1 DEF RangeInv
          <6> QED BY <5>1, <5>4, <6>2 DEF Precedes
        <5> QED BY <1>1, <5>3, <5>4 DEF PagingTypeOK
      <4>3. Rank(l, Matching) < Rank(i, Matching) /\ Rank(l, Matching) >= Limit - 1
        BY <1>1, <1>3, <1>4, <3>1, <4>1, <4>2, RankFollowsOrder, MatchingAreInvoices
           DEF EndsThePage
      <4>4. Rank(l, Matching) \in Nat /\ Rank(i, Matching) \in Nat
        BY <1>1, <1>4, <3>1, NumbersOfAState
      <4>5. ~(Rank(i, Matching) < Limit)
        BY <1>6, <4>3, <4>4
      <4> QED BY <1>1, <1>2, <2>3, <4>1, <4>5 DEF PageInv
    <3> QED BY <3>2, <3>3
  <2>4. pageOffset' * PageSize = 0
    BY <1>2, <1>6
  <2>5. Matching' \subseteq Invoices
    BY <1>8 DEF Matching, PagingTypeOK
  <2> QED BY <1>2, <1>6, <2>1, <2>2, <2>3, <2>4, <2>5 DEF QueryInv
<1>11. PageInv' /\ OnlyBoundariesRepeat' /\ NothingIsMissed' /\ StallIsDue'
  BY <1>1, <1>2 DEF PageInv, OnlyBoundariesRepeat, NothingIsMissed, StallIsDue, PagingTypeOK
<1> QED BY <1>8, <1>9, <1>10, <1>11 DEF PagingInv

\* An arrival moves records to later places, never to earlier ones.
LEMMA ArriveKeepsInv ==
  ASSUME NEW a \in Invoices \ present
  PROVE  PagingInv /\ Arrive(a) => PagingInv'
<1> SUFFICES ASSUME PagingInv, Arrive(a) PROVE PagingInv'
  OBVIOUS
<1>1. PagingTypeOK /\ RangeInv /\ QueryInv /\ PageInv
  BY DEF PagingInv
<1>2. /\ phase # "done" /\ present' = present \union {a} /\ arrivals' = arrivals + 1
      /\ arrivals < MaxArrivals
      /\ UNCHANGED <<sortOrder, dateType, zone, dateFrom, dateTo, pageOffset, previous, phase, page, outcome,
                     due, delivered, repeated, boundaries, dateOf>>
  BY DEF Arrive, request, asked, given
<1>3. /\ Matching \subseteq Matching' /\ Matching' \subseteq Invoices
      /\ \A i \in Invoices : Rank(i, Matching) <= Rank(i, Matching)'
      /\ \A i, j : Precedes(i, j)' = Precedes(i, j)
  BY <1>1, <1>2, PlacesOnlyGrow DEF PagingTypeOK
<1>4. /\ \A i \in Invoices : Rank(i, Matching) \in Nat
      /\ pageOffset * PageSize \in Nat /\ PageEnd \in Nat /\ Limit \in Nat
  BY <1>1, NumbersOfAState
<1>5. \A i \in Invoices : Rank(i, Matching)' \in Nat
  <2>1. \A i : Rank(i, Matching)' = Rank(i, Matching')
    BY <1>3 DEF Rank
  <2> QED BY <1>3, <2>1, RankIsAPlace
<1>6. arrivals' # 0
  BY <1>1, <1>2 DEF PagingTypeOK
<1>7. PagingTypeOK'
  BY <1>1, <1>2, ArrivalsAreCounted DEF PagingTypeOK
<1>8. RangeInv' /\ OnlyBoundariesRepeat' /\ NothingIsMissed' /\ StallIsDue'
  BY <1>1, <1>2, <1>6, SameAskSameDates
     DEF RangeInv, OnlyBoundariesRepeat, NothingIsMissed, StallIsDue, PagingTypeOK
<1>a. Owed' = Owed /\ Owed \subseteq due
  BY <1>2, SameAskSameDates DEF Owed
<1>9. due \subseteq Invoices /\ page.invoices \subseteq Invoices
  BY <1>1 DEF PagingTypeOK, Pages
<1>10. QueryInv'
  BY <1>1, <1>2, <1>3, <1>4, <1>5, <1>6, <1>9, <1>a DEF QueryInv
<1>11. PageInv'
  <2> SUFFICES ASSUME phase = "page" PROVE PageInv'
    BY <1>2 DEF PageInv
  <2>1. PageEnd' = PageEnd
    BY <1>2 DEF PageEnd
  <2>2. \A i \in Owed : i \in Matching'
    BY <1>1, <1>3 DEF PageInv
  <2>3. ASSUME page.isTruncated
        PROVE  \E l \in page.invoices :
                 EndsThePage(l)' /\ \A i \in Owed : Precedes(l, i)
    <3>1. PICK l \in page.invoices :
            EndsThePage(l) /\ \A i \in Owed : Precedes(l, i)
      BY <1>1, <2>3 DEF PageInv
    <3>2. Rank(l, Matching)' >= Limit - 1
      BY <1>3, <1>4, <1>5, <1>9, <3>1 DEF EndsThePage
    <3>3. EndsThePage(l)'
      BY <1>2, <1>3, <3>1, <3>2 DEF EndsThePage
    <3> QED BY <3>1, <3>3
  <2>4. ASSUME page.hasMore, ~page.isTruncated
        PROVE  PageEnd < Limit /\ \A i \in Owed : PageEnd <= Rank(i, Matching)'
    BY <1>1, <1>3, <1>4, <1>5, <1>9, <1>a, <2>4 DEF PageInv
  <2>5. page.invoices \subseteq Matching' /\ (~page.hasMore => Owed = {})
    BY <1>1, <1>3 DEF PageInv
  <2> QED BY <1>2, <1>3, <1>6, <1>a, <2>1, <2>2, <2>3, <2>4, <2>5 DEF PageInv
<1> QED BY <1>7, <1>8, <1>10, <1>11 DEF PagingInv

LEMMA PagingNextInv == PagingInv /\ [PagingNext]_pagingVars => PagingInv'
<1> SUFFICES ASSUME PagingInv, [PagingNext]_pagingVars PROVE PagingInv'
  OBVIOUS
<1>1. CASE Iterate
  BY <1>1, QueryKeepsInv, EndKeepsInv, NextPageKeepsInv, NarrowKeepsInv DEF Iterate
<1>2. CASE \E i \in Invoices \ present : Arrive(i)
  BY <1>2, ArriveKeepsInv
<1>3. CASE UNCHANGED pagingVars
  <2>1. /\ Matching' = Matching
        /\ \A i : Rank(i, Matching)' = Rank(i, Matching)
        /\ \A i, j : Precedes(i, j)' = Precedes(i, j)
        /\ \A d : Sent(d)' = Sent(d) /\ (CutsOff(d)' <=> CutsOff(d))
        /\ Owed' = Owed
    BY <1>3, SameQuerySamePlaces, SameAskSameDates DEF pagingVars, Owed
  <2>2. PagingTypeOK' /\ RangeInv' /\ QueryInv'
    BY <1>3, <2>1 DEF PagingInv, pagingVars, PagingTypeOK, RangeInv, QueryInv
  <2>3. PageInv'
    BY <1>3, <2>1 DEF PagingInv, pagingVars, PageInv, EndsThePage, PageEnd
  <2>4. NothingIsMissed' /\ OnlyBoundariesRepeat' /\ StallIsDue'
    BY <1>3, <2>1 DEF PagingInv, pagingVars, NothingIsMissed, OnlyBoundariesRepeat, StallIsDue
  <2> QED BY <2>2, <2>3, <2>4 DEF PagingInv
<1> QED BY <1>1, <1>2, <1>3 DEF PagingNext, PagingOver

LEMMA PagingInvariance == PagingSpec => []PagingInv
  BY PagingStartsRight, PagingNextInv, PTL DEF PagingSpec

(* The state of an iteration keeps its types: above all the offset stays   *)
(* below the limit, and a truncated page is never empty, so that there is  *)
(* a last record to take the boundary from (_last_metadata_boundary).      *)
THEOREM PagingTypeCorrect == PagingSpec => []PagingTypeOK
  BY PagingInvariance, PTL DEF PagingInv

(* An iteration that ends by itself has given the caller every invoice     *)
(* that was there when it began, but for the rest of the issue dates a     *)
(* machine of another zone cuts off, for every size of page, limit,        *)
(* offset, zone, distribution of the dates and number of arrivals.         *)
THEOREM IterationIsComplete == PagingSpec => []NothingIsMissed
  BY PagingInvariance, PTL DEF PagingInv

\* Without arrivals only invoices of the dates the range was narrowed to come twice.
THEOREM RepeatsAreOfBoundaries == PagingSpec => []OnlyBoundariesRepeat
  BY PagingInvariance, PTL DEF PagingInv

(* KSeFMetadataPaginationError means that the invoices of one date fill    *)
(* all that KSeF shows of a query.                                         *)
THEOREM StallMeansAFullDate == PagingSpec => []StallIsDue
  BY PagingInvariance, PTL DEF PagingInv

-----------------------------------------------------------------------------
(* Why an iteration ends.  The dates are a finite range and a query shows  *)
(* a finite number of pages; a step of the iteration uses up one of them.  *)

NarrowingsLeft ==
  IF previous = NoDate THEN LastDate
  ELSE IF sortOrder = "asc" THEN LastDate - previous ELSE previous - 1

\* A request is answered, a page is followed by a later one of the same query or by a query
\* of fewer dates, or the iteration is over.
StepsForward ==
  \/ phase' = "done"
  \/ phase = "query" /\ phase' = "page"
     /\ NarrowingsLeft' = NarrowingsLeft /\ pageOffset' = pageOffset
  \/ phase = "page" /\ phase' = "query"
     /\ \/ NarrowingsLeft' < NarrowingsLeft
        \/ NarrowingsLeft' = NarrowingsLeft /\ pageOffset' > pageOffset

WorkIsBounded == NarrowingsLeft \in 0..LastDate /\ pageOffset \in 0..Limit

LEMMA WorkIsANumber ==
  ASSUME PagingTypeOK
  PROVE  WorkIsBounded
<1>1. /\ previous # NoDate => previous \in Nat /\ 1 <= previous /\ previous <= LastDate
      /\ LastDate \in Nat /\ pageOffset \in 0..Limit
  BY SizesArePositive DEF PagingTypeOK, Dates
<1> QED BY <1>1 DEF NarrowingsLeft, WorkIsBounded

\* The boundary of a truncated page is past the one before.
LEMMA NarrowUsesADate ==
  ASSUME PagingInv, Narrow
  PROVE  NarrowingsLeft' < NarrowingsLeft
<1>1. PagingTypeOK /\ RangeInv /\ PageInv
  BY DEF PagingInv
<1>2. /\ phase = "page" /\ page.isTruncated /\ Boundary # previous /\ previous' = Boundary
      /\ sortOrder' = sortOrder
  BY DEF Narrow, Continues, DoesNotAdvance, asked
<1>3. PICK l : EndsThePage(l)
  BY <1>1, <1>2 DEF PageInv
<1>4. Boundary = dateOf[l] /\ Boundary \in Dates /\ l \in Matching
  BY <1>1, <1>2, <1>3, BoundaryEndsThePage DEF PageInv
<1>5. /\ dateFrom <= 24 * Boundary /\ 24 * Boundary <= dateTo
      /\ Boundary \in Nat /\ Boundary # NoDate /\ 1 <= Boundary /\ Boundary <= LastDate
      /\ dateFrom \in Int /\ dateTo \in Int /\ LastDate \in Nat
  BY <1>1, <1>4, SizesArePositive DEF Matching, Midnight, Dates, NoDate, PagingTypeOK
<1>b. previous # NoDate =>
        /\ previous \in Int /\ Sent(previous) \in Int
        /\ 24 * previous - 24 < Sent(previous) /\ Sent(previous) < 24 * previous + 24
  BY <1>1, SentIsNear DEF PagingTypeOK
<1>6. CASE sortOrder = "asc"
  <2>1. previous # NoDate => dateFrom = Sent(previous)
    BY <1>1, <1>6 DEF RangeInv
  <2>2. previous # NoDate => previous < Boundary
    BY <1>2, <1>5, <1>b, <2>1
  <2> QED BY <1>2, <1>5, <1>6, <1>b, <2>2 DEF NarrowingsLeft
<1>7. CASE sortOrder = "desc"
  <2>1. previous # NoDate => dateTo = Sent(previous)
    BY <1>1, <1>7 DEF RangeInv
  <2>2. previous # NoDate => Boundary < previous
    BY <1>2, <1>5, <1>b, <2>1
  <2> QED BY <1>2, <1>5, <1>7, <1>b, <2>2 DEF NarrowingsLeft
<1> QED BY <1>1, <1>6, <1>7 DEF PagingTypeOK

(* Every step of the iteration is one towards its end: the number of dates *)
(* left to narrow to and the number of pages left of a query are bounded,  *)
(* and each page uses up one or the other.  This is the safety half of     *)
(* IterationEnds: what TLC adds is that the steps are taken.               *)
THEOREM IterationAdvances ==
  PagingSpec => []WorkIsBounded /\ [][Iterate => StepsForward]_pagingVars
<1>1. PagingInv => WorkIsBounded
  BY WorkIsANumber DEF PagingInv
<1>2. ASSUME PagingInv, Iterate PROVE StepsForward
  <2>1. pageOffset \in Nat
    BY <1>2, NumbersOfAState DEF PagingInv
  <2>2. CASE Query
    BY <2>2 DEF Query, request, asked, StepsForward, NarrowingsLeft
  <2>3. CASE QueryFails \/ Finish \/ Stall
    BY <2>3 DEF QueryFails, Finish, Stall, StepsForward
  <2>4. CASE NextPage
    BY <2>1, <2>4 DEF NextPage, Continues, Ask, asked, StepsForward, NarrowingsLeft
  <2>5. CASE Narrow
    BY <1>2, <2>5, NarrowUsesADate DEF Narrow, Continues, Ask, StepsForward
  <2> QED BY <1>2, <2>2, <2>3, <2>4, <2>5 DEF Iterate
<1>3. PagingInv /\ [PagingNext]_pagingVars => [Iterate => StepsForward]_pagingVars
  BY <1>2
<1> QED BY <1>1, <1>3, PagingInvariance, PTL DEF PagingSpec
=============================================================================
