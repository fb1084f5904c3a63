------------------------------- MODULE Exports -------------------------------
(***************************************************************************)
(* Exporting invoices.  A key is made for every export and sent to KSeF    *)
(* encrypted; the package KSeF prepares can be read with that key and no   *)
(* other.  Tasks of an application schedule exports, wait for their        *)
(* packages and fetch the parts, into memory or into one directory, and    *)
(* share the handles and packages they have got.                           *)
(***************************************************************************)
EXTENDS InvoiceFilters

CONSTANTS
  Tasks,       \* the tasks of the application
  Asks,        \* the filters the application may use, for each way to ask
  Invoices,    \* the invoices in KSeF
  Layouts,     \* the sequences of part names a package may come in
  Unnameable,  \* what is left of a part name that no local file may have
  Files,       \* the local files the part names stand for
  MaxExports   \* bound: how many exports are asked for

Filters == Asks["schedule_export"] \union Asks["export_and_download"]

ASSUME ExportsAreCounted == MaxExports \in Nat
ASSUME FiltersAreTyped ==
  \A f \in Filters :
    /\ f.role \in DOMAIN SubjectType
    /\ f.date_type \in DOMAIN DateType
    /\ f.amount_type \in DOMAIN AmountType
    /\ f.invoicing_mode \in {None} \union DOMAIN InvoicingMode
    /\ f.invoice_schema \in {None} \union DOMAIN FormType
    /\ f.invoice_types \subseteq DOMAIN InvoiceType
ASSUME InvoicesAreTyped ==
  \A i \in Invoices :
    /\ i.buyerIdentifier = [type |-> i.buyerIdentifier.type, value |-> i.buyerIdentifier.value]
    /\ i.buyerIdentifier.type \in DOMAIN ReadBuyerIdentifierType
    /\ i.invoicingMode \in DOMAIN ReadInvoicingMode
    /\ i.invoiceType \in DOMAIN ReadInvoiceType
    /\ i.form.schema \in DOMAIN SchemaValue
    /\ i.form.value = SchemaValue[i.form.schema]
ASSUME NoneIsNoValue ==
  /\ None \notin BOOLEAN
  /\ \A word \in DOMAIN InvoicingMode : None # InvoicingMode[word]
  /\ \A word \in DOMAIN FormType : None # FormType[word]
  /\ \A f \in Filters :
       /\ None # {InvoiceType[v] : v \in f.invoice_types}
       /\ None # [type |-> AmountType[f.amount_type], from |-> f.amount_min, to |-> f.amount_max]
       /\ \A type \in DOMAIN BuyerIdentifierType : None # Identifier(type, f[type])
ASSUME LayoutsNameFiles ==
  \A layout \in Layouts :
    /\ Len(layout) \in Nat
    /\ DOMAIN layout = 1..Len(layout)
    /\ \A i \in DOMAIN layout : layout[i].base \in Files \union Unnameable

VARIABLES
  keys,      \* how many keys have been made
  sent,      \* the requests for an export on their way to KSeF
  exports,   \* the exports KSeF has accepted, in order
  handles,   \* the handles the application holds
  packages,  \* the exports whose package the application knows
  pc,        \* where each task is
  call,      \* what each task is doing
  disk,      \* the content of each local file
  shared     \* the tasks whose files another task has opened too (history)

vars == <<keys, sent, exports, handles, packages, pc, call, disk, shared>>

Call(op, filter, handle) ==
  [op |-> op, filter |-> filter, key |-> handle.key, ref |-> handle.ref, got |-> <<>>]
NoHandle == [ref |-> 0, key |-> 0]
NoCall == Call("none", None, NoHandle)
NoPart == <<0, 0>>
Content(state, part) == [state |-> state, part |-> part]

Init ==
  /\ keys = 0
  /\ sent = {}
  /\ exports = <<>>
  /\ handles = {}
  /\ packages = {}
  /\ pc = [t \in Tasks |-> "idle"]
  /\ call = [t \in Tasks |-> NoCall]
  /\ disk = [f \in Files |-> Content("absent", NoPart)]
  /\ shared = {}

Goes(t, place) == pc' = [pc EXCEPT ![t] = place]
Gets(t, item) == call' = [call EXCEPT ![t].got = Append(@, item)]
GoesIdle(t) == Goes(t, "idle") /\ call' = [call EXCEPT ![t] = NoCall]

unchangedKSeF == UNCHANGED <<sent, exports>>
unchangedFiles == UNCHANGED <<disk, shared>>
unchangedApplication == UNCHANGED <<keys, handles, packages>>

-----------------------------------------------------------------------------
(* schedule_export, alone or as the first step of export_and_download.     *)

Schedule(t, op, filter) ==
  /\ pc[t] = "idle"
  /\ keys < MaxExports
  /\ keys' = keys + 1
  /\ sent' = sent \union {[key |-> keys', body |-> QueryFilters(filter)]}
  /\ Goes(t, "schedule")
  /\ call' = [call EXCEPT ![t] = Call(op, filter, [ref |-> 0, key |-> keys'])]
  /\ UNCHANGED <<exports, handles, packages>>
  /\ unchangedFiles

\* Fault: the key is kept in the service, where the next call replaces it.
HandleOfTheService(t, ref) == [ref |-> ref, key |-> keys]

ExportHandle(t, ref) == [ref |-> ref, key |-> call[t].key]

ScheduleAnswered(t) ==
  \E ref \in DOMAIN exports :
    LET handle == ExportHandle(t, ref) IN
    /\ pc[t] = "schedule"
    /\ exports[ref].key = call[t].key
    /\ \/ /\ call[t].op = "schedule_export"
          /\ handles' = handles \union {handle}
          /\ GoesIdle(t)
       \/ /\ call[t].op = "export_and_download"
          /\ Goes(t, "wait")
          /\ call' = [call EXCEPT ![t].ref = ref, ![t].key = handle.key]
          /\ UNCHANGED handles
    /\ UNCHANGED <<keys, packages>>
    /\ unchangedKSeF
    /\ unchangedFiles

\* The request is not repeated; its answer may be lost before or after KSeF acts.
ScheduleFails(t) ==
  /\ pc[t] = "schedule"
  /\ GoesIdle(t)
  /\ unchangedKSeF
  /\ unchangedApplication
  /\ unchangedFiles

-----------------------------------------------------------------------------
(* wait_for_export_package.                                                *)

Wait(t, handle) ==
  /\ pc[t] = "idle"
  /\ Goes(t, "wait")
  /\ call' = [call EXCEPT ![t] = Call("wait", None, handle)]
  /\ unchangedKSeF
  /\ unchangedApplication
  /\ unchangedFiles

IsReady(export) == export.parts # <<>>

PackageReady(t) ==
  /\ pc[t] = "wait"
  /\ IsReady(exports[call[t].ref])
  /\ \/ /\ call[t].op = "wait"
        /\ packages' = packages \union {call[t].ref}
        /\ GoesIdle(t)
     \/ /\ call[t].op = "export_and_download"
        /\ Goes(t, "fetch")
        /\ UNCHANGED <<packages, call>>
  /\ UNCHANGED <<keys, handles>>
  /\ unchangedKSeF
  /\ unchangedFiles

\* The time given is over, or a request for the status fails.
WaitFails(t) ==
  /\ pc[t] = "wait"
  /\ GoesIdle(t)
  /\ unchangedKSeF
  /\ unchangedApplication
  /\ unchangedFiles

-----------------------------------------------------------------------------
(* fetch_package and fetch_package_bytes.                                  *)

\* Folders, in either notation, and the suffix .aes are taken off the name.
SafePartFilename(name) == name.base

PartName(t) == exports[call[t].ref].parts[Len(call[t].got) + 1]
Part(t) == <<call[t].ref, Len(call[t].got) + 1>>
File(t) == SafePartFilename(PartName(t))

Fetch(t, op, handle) ==
  /\ pc[t] = "idle"
  /\ handle.ref \in packages
  /\ Goes(t, "fetch")
  /\ call' = [call EXCEPT ![t] = Call(op, None, handle)]
  /\ shared' = shared \ {t}
  /\ UNCHANGED disk
  /\ unchangedKSeF
  /\ unchangedApplication

\* A part that has arrived and could be decrypted.
PartArrives(t) ==
  /\ pc[t] = "fetch"
  /\ Len(call[t].got) < Len(exports[call[t].ref].parts)
  /\ call[t].key = exports[call[t].ref].key

DecryptToMemory(t) ==
  /\ PartArrives(t)
  /\ call[t].op # "fetch_package"
  /\ Gets(t, Part(t))
  /\ UNCHANGED pc
  /\ unchangedKSeF
  /\ unchangedApplication
  /\ unchangedFiles

IsWriting(u, file) == pc[u] = "write" /\ File(u) = file

HasSaved(u, file) ==
  /\ call[u].op = "fetch_package"
  /\ \E i \in DOMAIN call[u].got : call[u].got[i] = file

\* write_bytes empties the file first.
OpenFile(t) ==
  LET others == {u \in Tasks \ {t} : IsWriting(u, File(t)) \/ HasSaved(u, File(t))} IN
  /\ PartArrives(t)
  /\ call[t].op = "fetch_package"
  /\ PartName(t).base \notin Unnameable
  /\ disk' = [disk EXCEPT ![File(t)] = Content("cut", NoPart)]
  /\ shared' = shared \union others
                      \union {u \in {t} : \E v \in others : IsWriting(v, File(t))}
  /\ Goes(t, "write")
  /\ UNCHANGED call
  /\ unchangedKSeF
  /\ unchangedApplication

\* Bytes another task wrote since may stay behind the end of what is written now.
Overwritten(t) ==
  IF disk[File(t)].state \in {"absent", "cut"} \/ disk[File(t)].part = Part(t)
  THEN {Content("whole", Part(t))}
  ELSE {Content("whole", Part(t)), Content("mixed", NoPart)}

WriteFile(t) ==
  /\ pc[t] = "write"
  /\ \E content \in Overwritten(t) : disk' = [disk EXCEPT ![File(t)] = content]
  /\ Gets(t, File(t))
  /\ Goes(t, "fetch")
  /\ UNCHANGED shared
  /\ unchangedKSeF
  /\ unchangedApplication

\* Fault: a file that cannot be written is named with the others.
WriteFailsUnseen(t) ==
  /\ pc[t] = "write"
  /\ Gets(t, File(t))
  /\ Goes(t, "fetch")
  /\ unchangedFiles
  /\ unchangedKSeF
  /\ unchangedApplication

\* The write stops halfway; the files before it stay.
WriteFails(t) ==
  /\ pc[t] = "write"
  /\ \E content \in {disk[File(t)], Content("mixed", NoPart)} :
       disk' = [disk EXCEPT ![File(t)] = content]
  /\ GoesIdle(t)
  /\ UNCHANGED shared
  /\ unchangedKSeF
  /\ unchangedApplication

\* No directory, no answer, no decryption, or a name no file may have.
FetchFails(t) ==
  /\ pc[t] = "fetch"
  /\ GoesIdle(t)
  /\ unchangedKSeF
  /\ unchangedApplication
  /\ unchangedFiles

\* Fault: the loop ends before the last part.
ReturnsEarly(t) ==
  /\ pc[t] = "fetch"
  /\ Len(call[t].got) + 1 >= Len(exports[call[t].ref].parts)
  /\ Goes(t, "returned")
  /\ UNCHANGED call
  /\ unchangedKSeF
  /\ unchangedApplication
  /\ unchangedFiles

FetchReturns(t) ==
  /\ pc[t] = "fetch"
  /\ Len(call[t].got) = Len(exports[call[t].ref].parts)
  /\ Goes(t, "returned")
  /\ UNCHANGED call
  /\ unchangedKSeF
  /\ unchangedApplication
  /\ unchangedFiles

\* The application has used what was returned.
Done(t) ==
  /\ pc[t] = "returned"
  /\ GoesIdle(t)
  /\ shared' = shared \ {t}
  /\ UNCHANGED disk
  /\ unchangedKSeF
  /\ unchangedApplication

-----------------------------------------------------------------------------
(* KSeF.                                                                   *)

unchangedClient == UNCHANGED <<keys, handles, packages, pc, call, disk, shared>>

KSeFAccepts(request) ==
  /\ sent' = sent \ {request}
  /\ exports' = Append(exports, [key |-> request.key, status |-> "processing", parts |-> <<>>,
                                 of |-> {i \in Invoices : Selects(request.body, i)}])
  /\ unchangedClient

\* KSeF refuses the request, or it is lost.
RequestIsLost(request) ==
  /\ sent' = sent \ {request}
  /\ UNCHANGED exports
  /\ unchangedClient

\* An export of no invoices has a package without parts.
KSeFPrepares(ref, layout) ==
  /\ exports[ref].status = "processing"
  /\ layout = <<>> <=> exports[ref].of = {}
  /\ exports' = [exports EXCEPT ![ref].status = "ready", ![ref].parts = layout]
  /\ UNCHANGED sent
  /\ unchangedClient

KSeFFails(ref) ==
  /\ exports[ref].status = "processing"
  /\ exports' = [exports EXCEPT ![ref].status = "failed"]
  /\ UNCHANGED sent
  /\ unchangedClient

-----------------------------------------------------------------------------
Step(t) ==
  \/ \E op \in {"schedule_export", "export_and_download"} :
       \E filter \in Asks[op] : Schedule(t, op, filter)
  \/ ScheduleAnswered(t)
  \/ ScheduleFails(t)
  \/ \E handle \in handles : Wait(t, handle)
  \/ PackageReady(t)
  \/ WaitFails(t)
  \/ \E op \in {"fetch_package", "fetch_package_bytes"}, handle \in handles : Fetch(t, op, handle)
  \/ DecryptToMemory(t)
  \/ OpenFile(t)
  \/ WriteFile(t)
  \/ WriteFails(t)
  \/ FetchFails(t)
  \/ FetchReturns(t)
  \/ Done(t)

KSeF ==
  \/ \E request \in sent : KSeFAccepts(request) \/ RequestIsLost(request)
  \/ \E ref \in DOMAIN exports :
       KSeFFails(ref) \/ \E layout \in Layouts : KSeFPrepares(ref, layout)

Next == KSeF \/ \E t \in Tasks : Step(t)

Spec == Init /\ [][Next]_vars

-----------------------------------------------------------------------------
(* Properties.                                                             *)

Refs == 1..Len(exports)
Ops == {"schedule_export", "export_and_download", "wait", "fetch_package", "fetch_package_bytes"}
Bodies == {QueryFilters(f) : f \in Filters}
Statuses == {"processing", "ready", "failed"}
AllExports ==
  [key : Nat, status : Statuses, parts : Layouts \union {<<>>}, of : SUBSET Invoices]
AllCalls ==
  [op : Ops \union {"none"}, filter : Filters \union {None}, key : Nat, ref : Nat,
   got : Seq(Files \union Nat \X Nat)]
Contents == [state : {"absent", "cut", "mixed", "whole"}, part : Nat \X Nat]

\* The places where a task works on an export that KSeF has accepted.
HasExport == {"wait", "fetch", "write", "returned"}

Types ==
  /\ keys \in 0..MaxExports
  /\ sent \subseteq [key : Nat, body : Bodies]
  /\ exports \in Seq(AllExports)
  /\ handles \subseteq [ref : Nat, key : Nat]
  /\ packages \subseteq Nat
  /\ pc \in [Tasks -> {"idle", "schedule"} \union HasExport]
  /\ call \in [Tasks -> AllCalls]
  /\ disk \in [Files -> Contents]
  /\ shared \subseteq Tasks

(* The types of the state: handles, packages and calls name exports that   *)
(* exist, and only an export that is ready has a known package.            *)
TypeOK ==
  /\ Types
  /\ \A handle \in handles : handle.ref \in Refs
  /\ \A ref \in packages : ref \in Refs /\ exports[ref].status = "ready"
  /\ \A t \in Tasks : pc[t] \in HasExport => call[t].ref \in Refs

(* A key opens the export it was sent for: whatever other exports are      *)
(* being asked for at the same time, the handle the caller gets, or uses   *)
(* inside export_and_download, holds the key of its own export, and no two *)
(* exports have one key (schedule_export makes a key for every call).      *)
HandlesOpenTheirExports ==
  /\ \A handle \in handles : exports[handle.ref].key = handle.key
  /\ \A t \in Tasks : pc[t] \in HasExport => exports[call[t].ref].key = call[t].key
  /\ \A r, s \in Refs : exports[r].key = exports[s].key => r = s

(* An export contains every invoice that, read back in the words of the    *)
(* SDK, satisfies the filter, and no other, but where the filter is sent   *)
(* less precisely: a form version becomes its family of forms, and of      *)
(* several identifiers of the buyer only the first is sent.                *)
ExportIsOfTheFilter ==
  \A t \in Tasks : (call[t].op = "export_and_download" /\ call[t].ref # 0) =>
    LET of == exports[call[t].ref].of
        filter == call[t].filter
    IN /\ {i \in Invoices : Meant(filter, i)} \subseteq of
       /\ of \subseteq {i \in Invoices : NearlyMeant(filter, i)}
       /\ of # {i \in Invoices : Meant(filter, i)} => IsWidened(filter)

(* What is returned in memory is the package of the export that was asked  *)
(* for, whole and in order; an export that failed, or is not ready, is     *)
(* never passed off as one without invoices.                               *)
ReturnedIsThePackage ==
  \A t \in Tasks : pc[t] = "returned" =>
    LET export == exports[call[t].ref] IN
    /\ export.status = "ready"
    /\ export.of # {}
    /\ Len(call[t].got) = Len(export.parts)
    /\ call[t].op # "fetch_package" =>
         \A i \in DOMAIN call[t].got : call[t].got[i] = <<call[t].ref, i>>

(* The files fetch_package returns hold the parts of the package, whatever *)
(* an earlier, failed fetch left in them, as long as no other task opens   *)
(* them; a part that was overwritten by a later one of the same package    *)
(* shows in the list, where its file is named twice.                       *)
FilesHoldTheParts ==
  \A t \in Tasks :
    LET got == call[t].got
    IN (/\ pc[t] = "returned" /\ call[t].op = "fetch_package" /\ t \notin shared
        /\ \A i, j \in DOMAIN got : got[i] = got[j] => i = j)
       => \A i \in DOMAIN got : disk[got[i]] = Content("whole", <<call[t].ref, i>>)
=============================================================================
