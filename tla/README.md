# Formal models of the KSeF Python SDK

`ksef2` is a Python client of KSeF, the Polish national e-invoicing system. Much of
the package is data: generated schemas, mappers, renderers. Its own logic is the part
that meets a remote system which answers late, twice or not at all (the request
pipeline, the loops that wait, the session clients, authentication, exports, the
iteration over large results, the block that cleans up after itself, the profile file
shared by processes) and the part that turns what a caller says into what KSeF reads
(filters, permissions, invoice lines and their totals). This directory holds TLA+ models
of both, the TLC runs that check them, and TLAPS proofs of their safety properties.

The models are of the asynchronous classes (`async_*.py`), in which several tasks
share one client. The synchronous classes mirror them, largely generated by
`scripts/gen_sync.py`; with a single thread their behaviours are among those modelled.

`PROJECT.json` lists components, runs, the source lines each definition stands for,
hazards (with the code line where each bites and the properties about it), mutants (a
plausible bug for each checked property, which the run then reports) and theorems.
Paths below are relative to `src/ksef2/` of the repository.

## 1. The system

### Components

| Component | Code | State it keeps | Operations | Modelled in |
|---|---|---|---|---|
| Request pipeline | `core/middlewares/async_*.py`, `core/async_http.py`, `core/response_errors.py`, `core/routes.py`, `clients/async_base.py` | the closed flag shared by every branch of a root client; per call the attempt, the delay, the answer | `request`, `aclose` | `Transport`, `RequestContract` |
| Polling | `core/polling.py` and seven callers | per poll the attempts, the clock, the last answer | `async_poll_until` | `Polling` |
| Online session | `clients/async_online.py`, `clients/_async_session.py`, `clients/async_authenticated.py` | `_closed` per client; at KSeF the session and its invoices | open, resume, send, send-and-wait, status, `aclose`, `__aexit__` | `OnlineSession` |
| Batch session | `clients/async_batch.py`, `services/async_batch.py` | `_closed` per client; at KSeF the session, at the storage the parts | open, resume, `upload_parts`, `aclose`, `__aexit__`, `submit_prepared_batch` | `BatchSession` |
| Batch preparation | `services/batch_preparation.py` | none; sizes, offsets and ordinals of the parts | zip, split, encrypt | `BatchPackage` (the splitting) |
| Authentication | `clients/async_auth.py` | one-time authentication token; the pair of tokens KSeF gives out | challenge, start, poll, redeem, refresh | `AuthFlow` |
| Certificate store | `core/stores.py`, `clients/async_encryption.py`, `clients/async_authenticated.py` | the certificates, shared by all branches of a root client | load, `get_valid` | `AuthFlow` |
| Export and download | `services/async_invoices.py`, `services/export_parts.py` | the AES key of an export, the files written so far | schedule, wait, fetch to files or memory, `export_and_download` | `Exports`, `InvoiceFilters` |
| Metadata pagination | `clients/_metadata_pagination.py`, `clients/async_invoices.py` | the request in progress: date range, offset, previous boundary | `query_metadata_pages`, `next_metadata_page_request` | `MetadataPagination` |
| Temporal test data | `clients/async_testdata.py` | five lists of what has to be reverted | make, remove, `__aexit__` | `TemporalTestData` |
| Permissions | `clients/async_permissions.py`, `infra/mappers/permissions/` | none; operations and records are KSeF's | seven grants, two revocations, status, eight queries | `Permissions`, `PermissionMaps` |
| Invoice lines and totals | `domain/models/fa3/body/`, `domain/models/fa3/`, `infra/mappers/invoices/fa3/` | a document: its lines, and the totals of an imported one | build a line, an invoice, a correction; write, read back | `InvoiceLine`, `InvoiceTotals` |
| CLI profiles | `clients/profiles.py` | one TOML file shared by processes | save, use, delete | `ProfileStore`, `ProfileMap` |
| Tokens, listings, limits and PEPPOL, endpoints, cryptography, other mappers, schemas, renderers, tools | see `PROJECT.json` | none | one request, or pure data | not modelled (section 8) |

### How they interact

Every client object is a branch of one root client and shares its transport:
`KSeFExceptionMiddleware -> RetryMiddleware -> ClientLifecycleMiddleware -> HTTP`.
`authentication` gives an authenticated client, from which sessions, queries, exports,
permissions and test data hang; all of them read certificates from the root client's
store. Sessions, exports, authentication and tokens start a job at KSeF and wait for
it with `async_poll_until`, each request of the poll going through the pipeline.
Closing the root client sets the flag that the lifecycle middleware checks on every
attempt. A session is different from its clients: `get_state()` and
`resume_*_session()` make more clients for one session, each with its own `_closed`.

The other modules use what `Transport` establishes, without modelling the pipeline
again: a POST that is not in the list of repeatable endpoints is handed to the network
at most once (`AtMostOnce`), a success was carried out (`SuccessWasExecuted`), a refusal
left nothing behind (`ResubmitIsSafe`), and any other error says nothing.
`RequestContract` is the abstract form of that promise. `AuthFlow` has the one request
for which repetition matters to the caller, the redemption, attempt by attempt.
Waiting is `Polling`'s subject; elsewhere a wait may end at any time.

### What is hard, and what must hold

* **A request without an answer.** The server may have acted, may act later, or never.
  A caller must not be told that something happened which did not, nor that it did not
  happen when it did or still can.
* **Repetition.** Only requests that are safe to repeat may be repeated; the number of
  attempts and the time slept are bounded, whatever the server asks for in Retry-After.
  A redemption is repeated although KSeF gives its tokens out once.
* **Stale state.** A poll acts on a status that may be out of date when it arrives; a
  certificate list is kept for the life of the client.
* **Two tasks, one object.** Flags are tested before an `await` and set after it; keys
  and handles of several exports are about at once; files are shared.
* **Two processes, one file.** Read, change and rewrite without a lock, and a crash in
  between.
* **Partial failure.** `__aexit__` closes, reverts or logs, with or without an exception
  of the body in flight; a download stops half way; a listing breaks on one record.
* **A moving data set.** Pages are requested while rows arrive, across a limit on
  the number of rows a query shows.
* **Translation there and back.** Filters, permissions and invoice lines are put into
  KSeF's words and read back by tables of their own: a word that does not come back
  changes what the caller believes.
* **Rounding and signs.** Totals of an invoice and its corrections must add up.
* **Termination.** Every call, poll and iteration ends.

## 2. The modules

| Module | What it is |
|---|---|
| `RequestContract` | what the pipeline promises about one call, without attempts, network or delays |
| `Transport`, `MCTransport`, `Transport_proofs` | the pipeline |
| `Polling`, `MCPolling`, `Loops_proofs` | the polling loop at its seven call sites |
| `OnlineSession`, `MCOnlineSession`, `OnlineSession_proofs` | one online session |
| `BatchPackage`, `BatchSession`, `MCBatchSession`, `BatchSession_proofs` | a package cut into parts, and one batch session that uploads it |
| `AuthFlow`, `MCAuthFlow`, `Access_proofs` | authentication and the certificate store |
| `InvoiceFilters`, `Exports`, `MCExports`, `Exports_proofs` | what a filter selects, and the exports made with it |
| `MetadataPagination`, `MCMetadataPagination`, `Loops_proofs` | one iteration over a metadata query |
| `TemporalTestData`, `MCTemporalTestData`, `TemporalTestData_proofs` | one block that cleans up |
| `ProfileMap`, `ProfileStore`, `MCProfileStore`, `Documents_proofs` | the abstract store of profiles, and the file that implements it |
| `PermissionMaps`, `Permissions`, `MCPermissions`, `Access_proofs` | the words of permissions, and their life at KSeF |
| `InvoiceLine`, `InvoiceTotals`, `MCInvoiceTotals`, `Documents_proofs` | a line of an invoice, and the totals of documents made of lines |

Definitions marked *Fault* in a module are variants of the definition below them with
one plausible bug. No specification uses them; they are what the `mutants` of
`PROJECT.json` put in place of the right definition.

### Transport

A call is at `send`, `wait` or `backoff` of the loop in `async_retry.py`; `attempt[c]`
is the loop variable. `Send` and `SendOnClosedClient` are `ClientLifecycleMiddleware`
followed by `httpx`; `ReceiveFinal`, `ReceiveAndRetry` and `TransportFailure` are the
three ways the `await` in the loop ends; `WakeUp` is the end of `sleep_for`. A request
that is not repeatable, or a configuration with one attempt, takes the single pass
outside the loop (`SinglePass`). Statuses are `ok`, `busy` (one of the retryable
status codes) and `refused`; the exception middleware turns the last two into
exceptions, so they are the outcomes a caller sees. `network[c]` and `executed[c]`
hold attempt numbers: an attempt that is given up stays in the network and can still
be executed or lost, and an answer counts only for the attempt that is waited for.
Routes are three kinds: a GET, a repeatable POST, and a POST that is not.

### Polling

`stop` is the caller's stop condition (`stop_after_delay` or `stop_after_attempt`,
evaluated only when an answer is in), `Verdict` what each call site does with a status:
poll again, raise or return. `Observe` is the moment KSeF reads the job, `Settle`,
`TimeOut` and `Sleep` what happens once the answer has arrived: the job may move in
between. Time is counted in units; an operation, with its HTTP retries, takes at most
`MaxOpTime`. The job is a status and a payload: the things a site waits for apart from
the status (a KSeF number, package parts, matching rows).

### OnlineSession and BatchSession

`pc[t]` is where a task is, `client[c]` the `_closed` flag of a client object
(`none`: not made yet), `session`, `invoice`, `stored` what KSeF and its storage
have. Each operation is two steps, one before and one after its `await`. The owner
runs the `async with` block: `LeaveBlock` is `__aexit__` calling `aclose()`, and
`EndOfClose` what `__aexit__` makes of the result when the body raised: the online
session suppresses KSeF errors and transport errors of the closing in that case, the
batch session only KSeF errors. Other tasks work with the block's client or one resumed
from the saved state. `send_invoice_and_wait` asks `_ensure_open` again at every poll
(`AskStatus`); `upload_parts` asks it once and then sends every part.

`BatchSession` EXTENDS `BatchPackage`: `NumParts` is the length of the slicing loop of
`batch_preparation.py`, `RawPart(n)` the positions of the package that part `n`
carries. What KSeF processes is compared with the bytes of the package, so the property
spans the cutting, the upload and the close.

### AuthFlow

A task is at one of the waits of `with_token()` or `with_xades()`, or holds an
authenticated client and makes key material. `store` is the moment at which KSeF read
the list of certificates that the store holds: `_ensure_certificates` fills it only
while it is empty, an answer replaces what is in it by then, and the certificate is
chosen after the wait for the challenge. `wire[t]` holds the redeem requests under way;
`KSeFRedeems` gives the pair to the first of them that arrives in time and refuses the
others. `Tick` lets certificates expire.

### InvoiceFilters and Exports

`QueryFilters` is the body sent for a filter, with the time zone of Warsaw for moments
without one; `Selects` is what KSeF finds with it; `InvoiceMetadata` is what the caller
reads of an invoice, and `Meant` says whether that satisfies the filter in the caller's
own words. The two are translated from the request and from the response mappers, and
the property compares them. `Exports` has the life of an export: a key is made for
every `Schedule`, KSeF accepts the request or it is lost, prepares a package of some
`Layouts` or fails, and tasks fetch it into memory or into one directory. `OpenFile`
truncates, `WriteFile` writes, `WriteFails` leaves a file cut. A part name is a folder
and a base; `SafePartFilename` takes the folder and the suffix off. Tasks share handles
and packages, as an application may.

### MetadataPagination

Invoices are numbered in KSeF's order and have dates that never decrease along it.
A range is two moments, in hours. A boundary that is a moment is sent as it is; an issue
date is a bare `date`, put in by `model_copy` without validation, and goes out as midnight
of the machine's zone (`Sent`; `_metadata_pagination.py:79`, `:95`, `helpers.py:15-16`),
which KSeF compares with its own midnight of the invoice's day. `zone` is where the machine
is: for each date, the hours between the two (summer time may begin in between).
`Response` is KSeF's side; `Query` yields the page, `NextPage`, `Narrow`, `Stall` and
`Finish` are the four branches of `next_metadata_page_request`. A caller may start
with any offset below the limit and in either sort order. `phase` is where the iterator
is, `delivered` the pages it has yielded.

### TemporalTestData

The five lists are one set with the number of the operation that put an item there,
which gives the order inside a list; `Category` is the place of a list in the
clean-up. `Make` tracks and asks, `MakeFailsLocally` tracks and then cannot build the
request; `Remove` asks for the item to be removed or, of attachments, to end on a later
date (kind `schedule`), and `RemoveSucceeds` untracks in both cases. `LeaveBlock`,
`Revert`, the three `Revert...` outcomes and `Exit` are `__aexit__`. For an item of
`Malformed` no request can be built: pydantic's `ValidationError`, which is neither a
`KSeFException` nor an `httpx.HTTPError`, leaves `__aexit__` there and then
(`CleanUpBreaks`). A removal that fails like this changes nothing and is no step. `ending`
is what KSeF will end by itself. Four history variables (`made`, `abandoned`,
`overlapped`, `cancelled`) let properties say what the block caused, for which items it
cannot know, and whether the clean-up was allowed to end.

### ProfileMap and ProfileStore

`ProfileMap` is what a user expects: atomic save, use and delete. `ProfileStore` is
what `profiles.py` does: `Load` reads the whole file and changes it in memory, `Open`
truncates it, `Write` writes it, `WriteIsCut` leaves part of it (a full disk, a death),
`Return` sets the mode. `file` is what reading the file gives, `Garbled` when reading
raises. What is written need not be read again: strings and keys go through `json.dumps`
(`clients/profiles.py:474-481`), whose escapes for a character outside the basic plane, or for a
byte of a path that is no text, are halves of surrogate pairs that `tomllib` refuses
(`Surrogates`, `IsToml`, `Parsed`). Two writers at once leave any text behind
(`WrittenOver`). The refinement maps the file that is being rewritten to the configuration
its writer read. The abstract promise is off (`Upset`) once an overtaken process writes, a
write is cut, or one with such escapes has run (`escaped`).

### PermissionMaps and Permissions

Vocabularies are records from the SDK's words to KSeF's; `GrantBody` and `QueryBody`
are the request mappers, the `...Entry` operators the response mappers, with
`Readable` for their `assert_never`. `Permissions` is a caller who grants, asks for the
status, queries and revokes what a listing showed, a KSeF that carries operations out
late or refuses them, and other people who grant and revoke. A page is all records or
any `PageSize` of them. A query for personal permissions drops the owner of a list; a
record's author `System` is read as none; `entity_first_name` and `entity_last_name`
both come from `fullName`: these are as in the code and no property says otherwise. The
`ASSUME`s say what the request models accept, which is all a caller can send: a subject
is required, a target may be given by half.

### InvoiceLine and InvoiceTotals

`InvoiceRow` and `InvoiceOrderLine` are the validators of a line: they normalise the
three ways to name the tax, compute the amounts left out and refuse what contradicts
itself; the empty set is a ValueError. `AddLine` constructs a line for the next
document, `IssueOriginal` and `IssueCorrection` make a `KsefInvoiceBody` of the lines
drafted (behind the lines in force as they were, in a correction), and `ReadBack`
parses the last document, after which corrections are made of what was read.
`InBucket` and `Share` say what a line adds to a field; `Computed` is what the
properties of `KsefInvoiceBody` behind `P_13_*`, `P_14_*` and `P_15` add up,
`SummaryValue` what they report (an imported body its overrides), `VatTotalPln` the
VAT in PLN. `FakturaFa` is the mapper to the schema, `ReadBodies` the one back.
The history variables `standing` and `ledger` hold the lines in force and the sum of
the documents' fields; `lossy` says that reading has changed what a line adds. Amounts
are integers in thousandths with the code's rounding to grosze, rates hundredths; what a
caller gives is in whole grosze (`WholeGrosze`), as FA(3) demands of `P_11`.

## 3. The runs

| Run | Module, config | Distinct states | Question |
|---|---|---|---|
| `transport` | `MCTransport`, `Transport` | 443 053 | two calls and `aclose` at once: what acts twice, what a refusal proves, that calls return, refinement of `RequestContract` |
| `polling` | `MCPolling`, `Polling` | 76 689 | all sites and stop conditions against a job that moves at any moment |
| `online_session` | `MCOnlineSession`, `OnlineSession` | 524 732 | block, sender and closer over one session and two clients |
| `batch_session` | `MCBatchSession`, `BatchSession` | 65 088 | a cut package, uploads that fail and are repeated, closing from the side |
| `auth_flow` | `MCAuthFlow`, `AuthFlow` | 94 356 | redemption repeated, certificates that expire, two tasks over one store |
| `exports` | `MCExports`, `Exports` | 844 215 (symmetry) | two exports with ten filters, fetched and fetched again by two tasks |
| `metadata_pagination` | `MCMetadataPagination`, `MetadataPagination` | 974 052 | nothing missed, only boundaries repeated, stalls only when due; machines of other zones |
| `temporal_testdata` | `MCTemporalTestData`, `TemporalTestData` | 1 269 166 | what is made is tracked and reverted or logged, scheduled ends and broken clean-ups included |
| `profile_store` | `MCProfileStore`, `ProfileStore` | 400 666 (symmetry) | two processes, cut writes, deaths, text that is no TOML; refinement of `ProfileMap` |
| `permissions` | `MCPermissions`, `Permissions` | 133 189 | a grant of every kind against every listing |
| `invoice_totals` | `MCInvoiceTotals`, `InvoiceTotals` | 556 583 | totals of originals, corrections and documents read back |
| `invoice_totals_pln` | `MCInvoiceTotals`, `InvoiceTotalsPln` | violation | see findings |

Deadlock is checked, by a `Terminated` step that is enabled only when nothing is left
to do, except where stopping is normal: calls that are over (`auth_flow`), an
application that does no more (`exports`, `profile_store`) and a number of documents
that is used up (`invoice_totals`, `invoice_totals_pln`).

Each run checks the properties that say most about its module. Others that the proofs
establish for every value of the constants (the type invariants of the proved modules,
`SuccessWasExecuted`, `SleepBounded`, `OverrunBounded`, `ClosedMeansTerminated`,
`CompleteMeansStored` and so on) are not run again.

### What the passing runs show

* **Transport.** A request that must not be repeated acts at most once (`AtMostOnce`);
  a refused request or one stopped by a closed client may be submitted again
  (`ResubmitIsSafe`); nothing goes out after `aclose`, also from a call that was asleep
  (`NothingSentAfterClose`); every call returns (`EveryCallReturns`); the pipeline
  implements the contract (`ImplementsContract`).
* **Polling.** A job settled before the last request is never reported as timed out,
  and with a delay only a job that settled at most one operation before the deadline
  can be (`NoMissedCompletion`); what is reported is still true when it is reported
  (`ResultIsTrue`); every poll ends (`PollingEnds`).
* **OnlineSession.** Once any client counts itself closed KSeF takes no invoice, from
  any client (`ClosedSessionIsFinal`); a block left without an error is terminated, and
  the error of a body is not replaced (`ExitIsTruthful`); a sender is told the truth
  (`SenderToldTheTruth`).
* **BatchSession.** A block that is left without an error has submitted a package that
  is being processed (`SubmittedIsProcessing`); what is processed is the package, byte
  for byte and in order (`ProcessedIsThePackage`); a refused part is not followed by a
  processed package, although the close is requested (`RefusedUploadIsNotProcessed`).
* **AuthFlow.** A redemption is refused only because an earlier attempt of the same
  call got the pair, or because the operation expired (`RefusalIsExplained`); a call
  that reports that nobody was authenticated leaves no pair behind, now or later
  (`FailureLeavesNoPair`); a missing certificate means a list older than KSeF promises
  lists to be good for (`OnlyOldListsFail`).
* **Exports.** A handle holds the key of its own export (`HandlesOpenTheirExports`); an
  export is of the invoices its filter means, read back in the caller's words, except
  where the filter is sent less precisely (`ExportIsOfTheFilter`); what is returned in
  memory is the whole package in order (`ReturnedIsThePackage`); the files hold their
  parts whatever a failed fetch has left in them (`FilesHoldTheParts`).
* **MetadataPagination.** With arrivals at any moment, both orders and any number of
  narrowings, an iteration that ends by itself has delivered all that was there, except,
  on a machine whose midnight lies on the wrong side of KSeF's, other invoices of an issue
  date the range was narrowed to (`NothingIsMissed`); without arrivals, only invoices of
  a boundary date come twice (`OnlyBoundariesRepeat`); it gives up only when one date
  fills the whole limit (`StallIsDue`), and ends (`IterationEnds`).
* **TemporalTestData.** What exists because of the block is tracked
  (`NothingIsForgotten`), and after the block it is gone or named in the log
  (`LeftBehindIsLogged`), with three exceptions stated in both properties: an item whose
  end KSeF has scheduled, one a request was given up for on its way, and one two tasks
  worked on at the same time (so the damage of the race at `:283` is bounded to the items
  of the race, not excluded). Two things more let the clean-up leave items behind without
  a word: a cancellation, and an item no request can be built for, which takes with it
  exactly what comes after it.
* **ProfileStore.** Undisturbed, the file is an atomic map (`KeepsEveryChange`); also
  when processes overtake each other it parses and its active profile is defined
  (`NeverLocksOut`). The exceptions of both are a write that was cut, two at once, and
  text saved with surrogate escapes, after which the file cannot be read.
* **Permissions.** A listing shows of every grant what was asked for, in the same words
  (`ListsWhatWasAsked`); a grant whose status was read as done is in force until
  revoked (`ConfirmedIsInForce`); only a foreign record breaks a page
  (`OnlyForeignScopesBreakAPage`); KSeF is sent whole identifiers (`PermissionsTypeOK`).
* **InvoiceTotals.** An original and its corrections add up, field by field, to the
  lines in force (`LedgerFollowsLines`); the buckets make up the total
  (`BucketsMakeUpTheTotal`); a document shows the same totals after it was read back,
  but for one case of VAT in PLN (`ReadsBackTheSame`), what is lost of a line is known (`OnlyRegimesAreLost`), and so is
  which documents are refused (`RefusalIsKnown`).

### Finding

| Run | Code | What differs |
|---|---|---|
| `invoice_totals_pln` | `domain/models/fa3/body/root.py:549-555` | `P_14_xW` of a correcting invoice adds the VAT of the lines before the correction instead of subtracting it, so it is not "VAT total for the basic rate bucket converted to PLN" (`root.py:565`): a correction that cancels a line shows a negative `P_14_1` and a positive `P_14_1W` |

`OriginalsAreConverted` in `Documents_proofs` proves that in a document with no lines from
before a correction, as long as it was not read from XML, the VAT in PLN is the VAT converted.

### Differences noticed, without a run

Sessions, waiting, test data:

* An export KSeF reports as failed is polled to the end and reported as a timeout
  (`services/async_invoices.py:298`), and so is an export of no invoices.
* `send_invoice_and_wait` raises `KSeFClientClosedError` for an invoice KSeF has accepted
  when the session is closed between two polls (`clients/async_online.py:159`).
* A batch session is closed after a failed upload (`clients/async_batch.py:215`), while
  `endpoints/async_session.py:54` says "after all parts have been uploaded".
* A wait can outlast its `timeout` by an interval and an operation (`OverrunBounded` is
  the bound that holds); `aclose()` of a session closed elsewhere raises the refusal.
* The clean-up deletes an item that was there before and that KSeF refused to create
  (`clients/async_testdata.py:271`); a removal untracks an item another task has made
  again meanwhile (`:283`); lists are reverted one after the other, where the
  docstring says "reverse creation order".
* "Cleanup failures are logged and suppressed." (`clients/async_testdata.py:165`): a
  `ValidationError` is not (`:189` and the like catch `KSeFException` and
  `httpx.HTTPError`). `create_person(nip=...)` with a NIP of the wrong form tracks it
  (`:297`) and raises; when the block is left, `delete_person` raises the same error out
  of `__aexit__`, and the persons before it and all subjects stay, without a line in the
  log. TLC shows it when the exception is taken out of `LeftBehindIsLogged`.
* `revoke_attachments(expected_end_date=...)` untracks the attachments (`:349-358`),
  although KSeF will end them only on that date.

Pagination and profiles:

* With `date_type="issue_date"` on a machine outside KSeF's zone, the boundary is sent as
  another moment than KSeF's midnight (`_metadata_pagination.py:79`, `:95`,
  `helpers.py:15-16`): in ascending order west of it, in descending order east of it, the
  rest of the boundary's date is dropped without an error, and a date too full for a
  query is passed over instead of raising the stall. TLC shows it when the exception is
  taken out of `NothingIsMissed`.
* A complete `save` of a name or value with a character outside the basic plane, or of a
  path with undecodable bytes, returns normally and leaves a file no command reads
  (`clients/profiles.py:480-481`). TLC shows it when the exception is taken out of `NeverLocksOut`.

Exports and filters:

* A lost answer to `POST /invoices/exports` leaves an export whose key nobody has, and
  `export_and_download` loses its key on any failure.
* A form version is sent as its family (`FA2` and `FA3` are both `FA`); of several
  buyer identifiers only the first is sent; an empty list or string restricts nothing;
  `restrict_to_hwm` counts only for `permanent_storage`.
* Two part names that differ by folder or by `.aes` are one file, whose path is then
  returned twice; an unsafe name raises after earlier parts were written; hashes and
  sizes of parts are not compared. A failed download raises `KSeFApiError` where the
  docstrings (`services/async_invoices.py:194`, `:241`, `:326`) promise
  `httpx.HTTPStatusError`.

Permissions and invoices:

* An indirect grant with half a target is sent without one, which is good for every
  partner; the criterion `all_partners` of a query is never sent; a scope without a word
  in the SDK (`CollectiveIdentifierManage`) raises `AssertionError` for the whole page.
* Standard lines at 4 or 3 percent are in no bucket; Title XII lines with a category of
  their own are in two. An order line is not checked for gross = net + VAT, as a row
  is. Orders mixing lines with and without VAT that is written, and margin lines without
  the annotation, are written but refused on reading. The taxi regime is read back as a
  standard 4 percent, and VAT given with a line of a bucket without VAT is in `P_15` alone.
* A standard line that carries `vat_rate_xii` is written with both rates and read back as
  Title XII. If such lines make the VAT of a bucket in PLN come to nothing, nothing is
  written of it, and the body that is read computes it again from the lines
  (`domain/models/fa3/body/root.py:346`), without the line: the VAT in PLN is another one.
  This came up in the proof of `ReadsBackTheSame`, which now names the case; TLC shows it.
* A price or discount with a fraction of a grosz leaves the line with such an amount
  (`row.py:210`, `:232` round before the discount), which is written as it is, where the
  schema allows `P_11` two digits; totals are rounded when they are read.

## 4. Bounds, and why they are enough

* `Transport`: two calls, two attempts (a first and a last; `Transport_proofs` covers
  those between), delays of 1 up to `MaxDelay` 2, Retry-After negative, within the cap
  and far beyond. Calls interact only through the closed flag, so a third adds no pair.
* `Polling`: seven sites; timeouts 0 and 5, which no multiple of the interval 2 hits;
  limits of 0, 1 and 3 attempts; an operation of at most 2. No poll reaches `Horizon`:
  the latest ends at 10, so the clock bound of 20 cuts nothing off.
* `OnlineSession`: the owner, one sender, one closer, each of the latter two with
  the own or a resumed client. Senders do not interact with each other but through the
  client and the session; two tasks that close (owner and closer) are there.
* `BatchSession`: three bytes in parts of at most two, so that the last part is shorter,
  two uploads, so that one can repeat what another has half done, one closer.
* `AuthFlow`: a task with a token and one with a signature, three attempts, a second
  certificate published a moment before the first expires, time up to 2: a list read at
  the start is useless at the end.
* `Exports`: two tasks, two exports, ten filters that between them use every field,
  seven invoices of which each filter takes some and leaves some, four layouts: no
  parts, two, two of one file name, one that may not be written.
* `MetadataPagination`: six invoices on up to three dates, `PageSize` 2 and `Limit` 3,
  so that a page is cut short by the limit, one arrival, offsets 0 and 1, a machine six
  hours east of KSeF and one an hour west of it on the later dates only. Every
  distribution of the dates and every initial subset is enumerated, which gives several
  narrowings in a row, stalls, and dates that span pages.
* `TemporalTestData`: attachments and a subject, each there before or not, and between
  them in the clean-up a person no request can be built for; three operations, an owner
  and a helper: enough for make, remove and make again by two tasks.
* `ProfileStore`: two processes, two names, two ordinary values and one written with
  surrogate escapes, any initial configuration that can be read.
* `Permissions`: one grant of each of nine kinds, one revocation and one step of
  others, eleven queries over eight lists, pages of two, which the four records of an EU
  administration do not fit in.
* `InvoiceTotals`: 21 inputs, priced in each accepted way and taxed in each, some of
  them refused; three lines over an original and one correction; `VAT` and `ZAL`
  documents (`ROZ` has the rows of `VAT`), one exchange rate or none. Two of the inputs
  cancel each other's VAT in PLN, one of them with a Title XII rate beside its own.

## 5. Assumptions about the outside

* The network may lose, delay and reorder requests and answers; it does not duplicate.
* A gateway may answer with a retryable error for a request that was carried out. An
  error of KSeF itself (`refused`) means that it was not.
* KSeF's listing order is stable, invoices arrive and do not disappear, and the flag
  `isTruncated` is set on the last page the limit allows, when there is more.
* KSeF compares the moment it is sent with the midnight, in its own zone, of an invoice's
  issue date. Should it take the day of the moment instead, a machine east of it would
  ask for the day before, and the exception of `NothingIsMissed` would be another one.
* An end of attachments that KSeF has scheduled comes, at any time later; enabling the
  attachments again may or may not call it off.
* A job at KSeF goes from processing to success or failure; a failure is final, and
  only a token goes on from success, by revocation.
* A batch session is closed only while it is open and all declared parts are stored;
  a session may expire at any moment. KSeF may answer an opening with too few upload
  instructions.
* KSeF gives the tokens of one operation out once, and every list of certificates it
  gives out stays good for `Overlap` (`ListsAreGood`).
* The package of an export opens with the key of its request, and has no parts if and
  only if no invoice was selected. Two processes write a file as POSIX has it.
* A TOML parser refuses an escape that is half of a surrogate pair, as `tomllib` does.
* The tasks that work in a test-data block are over when it is left, as
  `asyncio.TaskGroup` or `gather` makes sure; in the session modules they need not be.

These are the definitions marked `external` in the map.

## 6. Fairness

| Specification | Fairness | Why the code justifies it |
|---|---|---|
| `Transport!FairSpec` | `WF` of the steps of each call | `httpx` is built with connect, read, write and pool timeouts, so a wait ends in a response or an error; `asyncio.sleep` ends by itself |
| `Polling!FairSpec` | `WF` of the loop, of the end of an operation, and of time | the same, and time passes; nothing makes KSeF finish the job |
| `MetadataPagination!FairPaging` | `WF` of the iteration | the caller takes every page; a request is answered or fails |

No fairness is assumed of KSeF, the network, cancellation or the callers' other tasks.
The other modules state safety only.

## 7. The proofs

`*_proofs.tla` prove, for every value of the constants that satisfies the named
assumptions, what TLC shows on the instances above, and more. In each, `IInv` is the
inductive invariant, `InitInv` and `NextInv` (one step per action) show that it is one,
and the theorems follow. `Loops_proofs`, `Access_proofs` and `Documents_proofs` each hold
the proofs of two components; the names of the second carry a prefix (`PagingInv`,
`PermissionsInv`, `TotalsInv`), so that one module can extend both. TLC has checked each invariant on its run's instance.

| Module | Proved for | What makes the invariant inductive | Assumptions |
|---|---|---|---|
| `Transport_proofs` | any calls, endpoints, retry configuration | where each attempt of a call can be: not yet handed over, in the network, executed; only a call that is not on its last attempt sleeps | `RoutesHaveMethods`, `RetryConfigIsSane`, `PowersAreNumbers` |
| `Loops_proofs`, polling | any timeouts, limits, interval, operation time | the order of clock, last request, wake-up and deadline; how the answer in hand relates to the job as it is now | `SitesAreKnown`, `TimesAreNumbers`, `LimitsAreNumbers` |
| `Loops_proofs`, pagination | any invoices, dates, page size, limit, offset, arrivals, either order | the place of a record in the query at hand is a count; what is placed before the current page, or left out by narrowing, has been given or is of an issue date cut off; a boundary that is sent lies less than a day from its date; a date that fills a query is the last one narrowed to | `InvoicesAreNumbers`, `SizesArePositive`, `ArrivalsAreCounted`, `ZonesAreWithinADay`, `OffsetsAreBelowLimit` |
| `OnlineSession_proofs` | any tasks and clients | a request that acts is there once and has not acted; an answer in hand was true and has stayed true | `TasksAreApart`, `BlockHasAClient` |
| `BatchSession_proofs` | any package and part size, uploads, tasks, clients | every part before the current one is stored; during the first upload none after it has been sent; a byte lies in exactly one part | `OwnerIsNoCloser`, `BlockHasAClient`, `PackageIsCut`, `UploadsAreCounted` |
| `Access_proofs`, authentication | any tasks, certificates, attempts, times | which requests can be on the wire and what an answer in hand says of who holds the pair; every list in use was read no later than now | the `ASSUME`s of `AuthFlow` |
| `Access_proofs`, permissions | any calls and queries the request models accept, any records of others, any number of operations | a record in KSeF is somebody else's or one of a grant that was carried out, whose records are in force or revoked, and nothing confirmed is not done | `CallsAreTyped`, `QueriesAreTyped`, `PartiesAreIdentified`, `ForeignRecordsAreOthers` |
| `Exports_proofs` | any tasks, filters, invoices, layouts, files, number of exports | keys are unique among requests, exports and calls; a call has got exactly the parts before its next one; a file that two calls do not share holds what its call wrote | `ExportsAreCounted`, `LayoutsNameFiles`, `FiltersAreTyped`, `InvoicesAreTyped`, `NoneIsNoValue` |
| `TemporalTestData_proofs` | any tasks, items, operations | which requests can still change an item: those waited for, and those given up, whose items are set apart; nothing malformed is asked for; a clean-up that stops early was cancelled or has come to something malformed, before which all is done | `OwnerIsNoHelper`, `ItemsHaveCategories`, `MalformedAreItems`, `OpsAreCounted` |
| `Documents_proofs`, profiles | any processes, names, values | a process that was not overtaken has read what is in the file, and what it has written, if it is TOML, is in it; while undisturbed at most one process has the file open | `NoneIsNoName`, `NoneIsNoValue`, `GarbledIsNoConfig` |
| `Documents_proofs`, invoices | any lines a caller may construct, any rates, numbers of lines and documents, all three kinds | the last document ends with the lines in force and, until it is read, has no overrides and an order value computed of its lines; every line was constructed, none in force is one before a correction | `InputsAreTyped`, `RatesAreIntegers`, `NoneIsNothing`, `KindsAreKinds`, `BoundsArePositive` |

Two refinements are proved, by mapping every step to a step of the abstract
specification or to a stutter: `Transport` implements `RequestContract`
(`PipelineImplementsContract`) and `ProfileStore` implements `ProfileMap`
(`StoreImplementsMap`). `ExportsAreMeant` is about the mappers: that `Selects` of the body
sent and `Meant` of the metadata read agree on every field, for any filter and invoice
in the vocabulary. `ListingsSayWhatWasAsked` does the same for permissions: a scope or an
identifier that is sent comes back as the word it was (`ScopeWordsComeBack`,
`IdentifierComesBack`), KSeF compares what the caller compares (`CriterionIsMeant`), so a
listing and a grant agree for every call and query, where the run has one of each kind.
`PowersAreNumbers` is arithmetic the provers lack; TLC evaluates it
with the other assumptions.

The proofs about invoices rest on two things. The first is sums. `SumOver` folds over a
set by choosing elements, and the library's induction over sets takes an operator,
which no prover here can instantiate; so `AllSubsetsAreGood` descends over the subsets of
a finite set with a *set* of good ones (`WFMin`), `SumsExist` and `SumsAgree` show that the
fold adds up in one way only, and from `SumTakesOut` follow the laws the totals need: sums of
parts, of sums, of renamed and negated terms. `BucketsAddUp` swaps the two sums of
`BucketsMakeUpTheTotal` (over lines and over fields), `CorrectionAddsUp` splits a correcting
invoice into its two halves. The second is the way of a line there and back:
`ConstructedRow` says what every constructor's result has in common, `RowIsRead` and
`OrderLineIsRead` that what was written of it constructs a line again, and which. So
`RefusalIsKnown` says of every document, not only of those the run's 21 inputs make,
that it is read unless one of the named reasons applies.

Only model-checked are the liveness properties `EveryCallReturns`, `PollingEnds` and
`IterationEnds`: liveness under fairness is beyond the prover. `IterationAdvances` proves
the safety half of the last: each step uses up one of a bounded number of dates or pages.

## 8. What is not modelled

* Tokens: `generate` waits in `Polling`; the rest is one local variable, whose secret is
  lost with a failed wait (`clients/async_tokens.py:101`).
* Continuation-token and offset listings, limits and PEPPOL branches, endpoint wrappers,
  raw facade: one request per method or a loop variable, no state. Nothing beyond
  `Transport` to say.
* Cryptography, XAdES, ZIP: bytes, in third-party libraries.
* Generated schemas (some 12 800 lines), other mappers, renderers: conversions and data
  without behaviour over time. The synchronous clients repeat the asynchronous ones.
  Together these are most of the package, which bounds the share of lines the map
  can cover.
* In exports: `PackageReader`, the expiry of a package, `compression_type`,
  `only_metadata`, and a cancellation that leaves a thread writing. `InvoicesFilter` takes
  moments, of which it makes a caller's bare date too, so `infra/mappers/helpers.py:16` is
  reached by the boundary of the pagination alone, where it is modelled.
* In invoices: settlement totals (`root.py:759-825`), fields outside the summary, and
  validators that only look at one attribute.
* In batch preparation: the checks of names and sizes, which come before any request.
* Inside modelled components: logging, headers (the bearer token), the texts of errors,
  names and descriptions, the delegation flag, the status of attachments.
* Opening a session and sending an invoice encrypt first; a failure there is before any
  request and leaves no state, so it is not an action of its own.

## 9. Plan

Done: all the modules of section 2, and proofs of every safety property their passing runs check.

Next, in order of what is at stake for a caller:

1. Composition: the requests of `OnlineSession`, `BatchSession` and `Exports` as calls of
   `RequestContract`, so that the delivery they assume is the one the pipeline provides;
   with it, the repeated DELETE of one object.
2. Settlement totals of invoices that settle advances.
3. `PackageReader`: what is read of a package whose parts were written by `Exports`.
4. `Listings`: continuation tokens and offsets, with arrivals between pages.
