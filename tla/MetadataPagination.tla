------------------------- MODULE MetadataPagination -------------------------
(***************************************************************************)
(* query_metadata_pages(): the iteration over the pages of a metadata      *)
(* query.  KSeF shows at most Limit records of a query; an iteration that  *)
(* gets there narrows the range of dates to the date of the last record it *)
(* has seen and starts again with the first page.  Invoices keep arriving  *)
(* at KSeF while the iteration goes on.                                    *)
(*                                                                         *)
(* The invoices are numbered in KSeF's order: by date, those of one date   *)
(* in an order that stays the same.                                        *)
(*                                                                         *)
(* A query's range is a pair of moments, counted in hours.  KSeF compares  *)
(* them with the moment of an invoice; that of an issue date, which is a   *)
(* day, is its midnight at KSeF.  An issue date the range is narrowed to   *)
(* is sent as midnight of the machine's own zone, another moment.          *)
(***************************************************************************)
EXTENDS Integers, FiniteSets

CONSTANTS
  Invoices,     \* the numbers of the invoices, a set of integers
  LastDate,     \* bound: the dates are 1 .. LastDate
  PageSize,     \* page_size
  Limit,        \* the most records KSeF shows of one query
  StartOffsets, \* values of the caller's page_offset
  Zones,        \* for each date, the hours from its midnight at KSeF to the machine's
  MaxArrivals   \* bound: the invoices that arrive during the iteration

Dates == 1..LastDate
NoDate == 0
DateTypes == {"issue_date", "invoicing_date"}  \* "permanent_storage" goes as the latter
Midnight(date) == 24 * date

ASSUME InvoicesAreNumbers == Invoices \subseteq Nat /\ IsFiniteSet(Invoices)
ASSUME SizesArePositive == {LastDate, PageSize, Limit} \subseteq Nat \ {0}
ASSUME ArrivalsAreCounted == MaxArrivals \in Nat
ASSUME ZonesAreWithinADay == Zones \subseteq [Dates -> -23..23]
ASSUME OffsetsAreBelowLimit == \A o \in StartOffsets : o \in Nat /\ o * PageSize < Limit

VARIABLES
  dateOf,      \* dateOf[i]: the date the query sorts and filters by
  present,     \* the invoices KSeF has
  sortOrder,   \* params.sort_order
  dateType,    \* filters.date_type
  zone,        \* where the machine is
  dateFrom,    \* filters.date_from, as it is sent
  dateTo,      \* filters.date_to, as it is sent
  pageOffset,  \* params.page_offset
  previous,    \* previous_truncation_boundary
  phase,       \* "query", "page" or "done"
  page,        \* the response at hand
  outcome,     \* how the iteration ended
  due,         \* the invoices there were from the start, the caller's offset on
  delivered,   \* the invoices the caller has been given
  repeated,    \* those it has been given more than once
  boundaries,  \* the dates the range was narrowed to
  arrivals     \* the invoices that have arrived during the iteration

pagingVars == <<dateOf, present, sortOrder, dateType, zone, dateFrom, dateTo, pageOffset,
                previous, phase, page, outcome, due, delivered, repeated, boundaries, arrivals>>

asked == <<sortOrder, dateType, zone>>
request == <<asked, dateFrom, dateTo, pageOffset, previous>>
given == <<delivered, repeated>>
ksef == <<dateOf, present, arrivals>>

Pages == [invoices : SUBSET Invoices, hasMore : BOOLEAN, isTruncated : BOOLEAN]
NoPage == [invoices |-> {}, hasMore |-> FALSE, isTruncated |-> FALSE]

-----------------------------------------------------------------------------
(* What KSeF answers.                                                      *)

Precedes(i, j) == IF sortOrder = "asc" THEN i < j ELSE j < i

Matching ==
  {i \in present : dateFrom <= Midnight(dateOf[i]) /\ Midnight(dateOf[i]) <= dateTo}

Rank(i, among) == Cardinality({j \in among : Precedes(j, i)})

\* The records of the page, none of them past the limit of the query.
Response ==
  LET end == (pageOffset + 1) * PageSize
  IN  [invoices    |-> {i \in Matching : /\ pageOffset * PageSize <= Rank(i, Matching)
                                         /\ Rank(i, Matching) < end
                                         /\ Rank(i, Matching) < Limit},
       hasMore     |-> Cardinality(Matching) > end \/ Cardinality(Matching) > Limit,
       isTruncated |-> end >= Limit /\ Cardinality(Matching) > Limit]

-----------------------------------------------------------------------------
PagingInit ==
  /\ dateOf \in {d \in [Invoices -> Dates] : \A i, j \in Invoices : i < j => d[i] <= d[j]}
  /\ present \in SUBSET Invoices
  /\ sortOrder \in {"asc", "desc"}
  /\ dateType \in DateTypes
  /\ zone \in Zones
  /\ dateFrom = Midnight(1)
  /\ dateTo = Midnight(LastDate)
  /\ pageOffset \in StartOffsets
  /\ previous = NoDate
  /\ phase = "query"
  /\ page = NoPage
  /\ outcome = "none"
  /\ due = {i \in present : Rank(i, present) >= pageOffset * PageSize}
  /\ delivered = {}
  /\ repeated = {}
  /\ boundaries = {}
  /\ arrivals = 0

\* The page is yielded before the next request is worked out.
Query ==
  /\ phase = "query"
  /\ page' = Response
  /\ phase' = "page"
  /\ delivered' = delivered \union page'.invoices
  /\ repeated' = repeated \union (delivered \intersect page'.invoices)
  /\ UNCHANGED <<request, outcome, due, boundaries, ksef>>

QueryFails ==
  /\ phase = "query"
  /\ phase' = "done"
  /\ outcome' = "error"
  /\ UNCHANGED <<request, page, due, given, boundaries, ksef>>

\* The date of the last record of the page.
Boundary ==
  dateOf[CHOOSE i \in page.invoices : \A j \in page.invoices : ~Precedes(i, j)]

Continues == phase = "page" /\ page.hasMore

Finish ==
  /\ phase = "page"
  /\ ~page.hasMore
  /\ phase' = "done"
  /\ outcome' = "complete"
  /\ UNCHANGED <<request, page, due, given, boundaries, ksef>>

\* The response at hand is used up.
Ask(offset) ==
  /\ pageOffset' = offset
  /\ page' = NoPage
  /\ phase' = "query"

\* Fault: the page after the next one.
NextPageSkipping ==
  /\ Continues
  /\ ~page.isTruncated
  /\ Ask(pageOffset + 2)
  /\ UNCHANGED <<asked, dateFrom, dateTo, previous, outcome, due, given, boundaries, ksef>>

NextPage ==
  /\ Continues
  /\ ~page.isTruncated
  /\ Ask(pageOffset + 1)
  /\ UNCHANGED <<asked, dateFrom, dateTo, previous, outcome, due, given, boundaries, ksef>>

\* Faults: the boundary is not compared with the previous one, or too early.
NeverStalls == FALSE
StallsAnywhere == Midnight(Boundary) \in {dateFrom, dateTo}

\* The narrowed range has not got past its boundary.
DoesNotAdvance == Boundary = previous

\* Fault: no end of the range is narrowed.
NarrowNothing(date) == UNCHANGED <<dateFrom, dateTo>>

\* to_aware_datetime(): a moment is sent as it is, a bare date as the machine's midnight.
Sent(date) == Midnight(date) + (IF dateType = "issue_date" THEN zone[date] ELSE 0)

NarrowFilters(date) ==
  IF sortOrder = "asc" THEN dateFrom' = Sent(date) /\ UNCHANGED dateTo
                       ELSE dateTo' = Sent(date) /\ UNCHANGED dateFrom

\* Fault: the narrowed query goes on with the offset of the wide one.
NarrowKeepingOffset ==
  /\ Continues
  /\ page.isTruncated
  /\ ~DoesNotAdvance
  /\ NarrowFilters(Boundary)
  /\ Ask(pageOffset)
  /\ previous' = Boundary
  /\ boundaries' = boundaries \union {Boundary}
  /\ UNCHANGED <<asked, outcome, due, given, ksef>>

Narrow ==
  /\ Continues
  /\ page.isTruncated
  /\ ~DoesNotAdvance
  /\ NarrowFilters(Boundary)
  /\ Ask(0)
  /\ previous' = Boundary
  /\ boundaries' = boundaries \union {Boundary}
  /\ UNCHANGED <<asked, outcome, due, given, ksef>>

\* KSeFMetadataPaginationError.
Stall ==
  /\ Continues
  /\ page.isTruncated
  /\ DoesNotAdvance
  /\ phase' = "done"
  /\ outcome' = "stalled"
  /\ UNCHANGED <<request, page, due, given, boundaries, ksef>>

\* An invoice becomes visible, wherever its date puts it.
Arrive(i) ==
  /\ phase # "done"
  /\ arrivals < MaxArrivals
  /\ present' = present \union {i}
  /\ arrivals' = arrivals + 1
  /\ UNCHANGED <<dateOf, request, phase, page, outcome, due, given, boundaries>>

PagingOver == phase = "done" /\ UNCHANGED pagingVars

Iterate == Query \/ QueryFails \/ Finish \/ NextPage \/ Narrow \/ Stall

PagingNext ==
  \/ Iterate
  \/ \E i \in Invoices \ present : Arrive(i)
  \/ PagingOver

PagingSpec == PagingInit /\ [][PagingNext]_pagingVars

(* The caller takes every page, and every request is answered or fails.    *)
FairPaging == PagingSpec /\ WF_pagingVars(Iterate)

-----------------------------------------------------------------------------
\* The types; a page is there when the next request is worked out.
PagingTypeOK ==
  /\ dateOf \in [Invoices -> Dates]
  /\ present \subseteq Invoices
  /\ sortOrder \in {"asc", "desc"}
  /\ dateType \in DateTypes
  /\ zone \in Zones
  /\ dateFrom \in Int /\ dateTo \in Int
  /\ pageOffset \in 0..Limit
  /\ previous \in Dates \union {NoDate}
  /\ phase \in {"query", "page", "done"}
  /\ page \in Pages
  /\ page.isTruncated => page.hasMore /\ page.invoices # {}
  /\ outcome \in {"none", "complete", "stalled", "error"}
  /\ phase = "done" <=> outcome # "none"
  /\ due \subseteq Invoices
  /\ repeated \subseteq delivered /\ delivered \subseteq present
  /\ boundaries \subseteq Dates
  /\ arrivals \in 0..MaxArrivals

\* The machine's midnight of the date is on the side of KSeF's that the range leaves out.
CutsOff(date) ==
  /\ dateType = "issue_date"
  /\ IF sortOrder = "asc" THEN zone[date] > 0 ELSE zone[date] < 0

(* An iteration that ends by itself has given the caller every invoice     *)
(* that was there when it began, whatever arrived in between and however   *)
(* often the range was narrowed, except for the rest of the issue dates it *)
(* was narrowed to by a machine whose midnight comes after KSeF's          *)
(* (ascending) or before it (descending): these are dropped in silence.    *)
NothingIsMissed ==
  outcome = "complete" =>
    \A i \in due \ delivered : dateOf[i] \in boundaries /\ CutsOff(dateOf[i])

(* Without arrivals an invoice is given twice only when its date is one    *)
(* the range was narrowed to.                                              *)
OnlyBoundariesRepeat ==
  arrivals = 0 => \A i \in repeated : dateOf[i] \in boundaries

(* The iteration gives up only when the invoices of one date fill all that *)
(* KSeF shows of a query.                                                  *)
StallIsDue ==
  outcome = "stalled" => Cardinality({i \in present : dateOf[i] = previous}) >= Limit

\* The iteration ends.
IterationEnds == <>(phase = "done")
=============================================================================
