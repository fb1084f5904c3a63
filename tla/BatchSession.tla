---------------------------- MODULE BatchSession ----------------------------
(***************************************************************************)
(* A batch session: the `async with` block that submit_prepared_batch()    *)
(* runs (open, upload the parts, close), blocks of callers that upload     *)
(* again after an error, and tasks that close the session from the side.   *)
(* Parts are PUT to presigned URLs one after the other and never repeated; *)
(* a PUT without an answer may still be stored later.  KSeF starts to      *)
(* process a package only when it is closed with all parts stored.         *)
(***************************************************************************)
EXTENDS BatchPackage

CONSTANTS
  Owner,        \* the task that runs the block
  Closers,      \* other tasks that call aclose()
  Clients,      \* the clients of the session
  OwnClient,    \* the client the block gets
  MaxUploads    \* bound: how often a block calls upload_parts()

Tasks == {Owner} \union Closers

ASSUME OwnerIsNoCloser == Owner \notin Closers
ASSUME BlockHasAClient == OwnClient \in Clients
ASSUME UploadsAreCounted == MaxUploads \in Nat

VARIABLES
  pc,          \* pc[t]: where the task is
  worksWith,   \* worksWith[t]: the client the task works with
  outcome,     \* outcome[t]: how the task's call ended
  error,       \* the exception that is leaving the body of the block
  uploads,     \* the calls of upload_parts() made so far
  complete,    \* one of them has returned
  at,          \* the part that is being uploaded
  client,      \* client[c]: "none", "open" or "closed" (its _closed flag)
  network,     \* the requests on their way
  reply,       \* reply[t]: the answer to the task's current request
  session,     \* the session at KSeF
  instructed,  \* the parts KSeF gave upload instructions for
  stored       \* the parts KSeF's storage holds

vars == <<pc, worksWith, outcome, error, uploads, complete, at, client, network, reply,
          session, instructed, stored>>

ksefVars == <<session, instructed, stored>>

Errors == {"refused", "busy", "transport_error", "client_closed", "validation", "other"}

Requests ==
  [task : Tasks, kind : {"open", "close"}]
    \union [task : {Owner}, kind : {"put"}, part : Parts]

Init ==
  /\ pc = [t \in Tasks |-> "new"]
  /\ worksWith \in [Tasks -> Clients] /\ worksWith[Owner] = OwnClient
  /\ outcome = [t \in Tasks |-> "none"]
  /\ error = "none"
  /\ uploads = 0
  /\ complete = FALSE
  /\ at = 0
  /\ client = [c \in Clients |-> "none"]
  /\ network = {}
  /\ reply = [t \in Tasks |-> "none"]
  /\ session = "none"
  /\ instructed = {}
  /\ stored = {}

Goto(t, where) == pc' = [pc EXCEPT ![t] = where]

Return(t, o) ==
  /\ Goto(t, "done")
  /\ outcome' = [outcome EXCEPT ![t] = o]

Send(t, request) ==
  /\ network' = network \union {request}
  /\ reply' = [reply EXCEPT ![t] = "none"]

\* _ensure_open.
IsOpen(t) == client[worksWith[t]] = "open"
IsClosed(t) == client[worksWith[t]] = "closed"

-----------------------------------------------------------------------------
(* Opening and resuming.                                                   *)

OpenSession ==
  /\ pc[Owner] = "new"
  /\ Goto(Owner, "opening")
  /\ Send(Owner, [task |-> Owner, kind |-> "open"])
  /\ UNCHANGED <<worksWith, outcome, error, uploads, complete, at, client, ksefVars>>

SessionOpened ==
  /\ pc[Owner] = "opening"
  /\ reply[Owner] = "ok"
  /\ Goto(Owner, "body")
  /\ client' = [client EXCEPT ![OwnClient] = "open"]
  /\ UNCHANGED <<worksWith, outcome, error, uploads, complete, at, network, reply, ksefVars>>

OpenFails ==
  /\ pc[Owner] = "opening"
  /\ \/ reply[Owner] \in {"refused", "busy"} /\ Return(Owner, reply[Owner])
     \/ Return(Owner, "transport_error")
  /\ UNCHANGED <<worksWith, error, uploads, complete, at, client, network, reply, ksefVars>>

ResumeSession(c) ==
  /\ client[OwnClient] # "none"
  /\ client[c] = "none"
  /\ client' = [client EXCEPT ![c] = "open"]
  /\ UNCHANGED <<pc, worksWith, outcome, error, uploads, complete, at, network, reply, ksefVars>>

-----------------------------------------------------------------------------
(* upload_parts().                                                         *)

PutPart(n) ==
  /\ at' = n
  /\ Goto(Owner, "putting")
  /\ Send(Owner, [task |-> Owner, kind |-> "put", part |-> n])

BodyFails(e) ==
  /\ error' = e
  /\ Goto(Owner, "body")

(* upload_parts() is called, again after an error the body has handled.    *)
(* The flag is looked at here and not between the parts.                   *)
UploadParts ==
  /\ pc[Owner] = "body"
  /\ error # "other"
  /\ uploads < MaxUploads
  /\ uploads' = uploads + 1
  /\ complete' = FALSE
  /\ IF IsClosed(Owner)
       THEN BodyFails("client_closed") /\ UNCHANGED <<at, network, reply>>
     ELSE IF instructed # Parts
       THEN BodyFails("validation") /\ UNCHANGED <<at, network, reply>>
     ELSE error' = "none" /\ PutPart(1)
  /\ UNCHANGED <<worksWith, outcome, client, ksefVars>>

\* The next part in the order of the ordinals, or the end of the upload.
PartAnswered ==
  /\ pc[Owner] = "putting"
  /\ reply[Owner] = "ok"
  /\ IF at < NumParts
       THEN PutPart(at + 1) /\ UNCHANGED complete
       ELSE Goto(Owner, "body") /\ complete' = TRUE /\ UNCHANGED <<at, network, reply>>
  /\ UNCHANGED <<worksWith, outcome, error, uploads, client, ksefVars>>

\* Fault: a refused part is sent again although the upload counts as failed.
PartFailsAndRepeats ==
  /\ pc[Owner] = "putting"
  /\ \/ /\ reply[Owner] \in {"refused", "busy"}
        /\ error' = reply[Owner]
        /\ PutPart(at)
     \/ BodyFails("transport_error") /\ UNCHANGED <<at, network, reply>>
  /\ UNCHANGED <<worksWith, outcome, uploads, complete, client, ksefVars>>

\* The first part that fails ends the upload.
PartFails ==
  /\ pc[Owner] = "putting"
  /\ \/ reply[Owner] \in {"refused", "busy"} /\ BodyFails(reply[Owner])
     \/ BodyFails("transport_error")
  /\ UNCHANGED <<worksWith, outcome, uploads, complete, at, client, network, reply, ksefVars>>

\* Anything else in the body that raises, a cancellation included.
BodyRaises ==
  /\ pc[Owner] \in {"body", "putting"}
  /\ BodyFails("other")
  /\ UNCHANGED <<worksWith, outcome, uploads, complete, at, client, network, reply, ksefVars>>

-----------------------------------------------------------------------------
(* aclose(), called by a task or by the end of the block.                  *)

\* Fault: an error of KSeF is never raised.
EndOfCloseSilent(t, o) ==
  Return(t, IF t = Owner /\ error # "none" THEN "body_error"
            ELSE IF t = Owner /\ o = "refused" THEN "ok" ELSE o)

(* __aexit__: an error of KSeF is logged when the body raised, a transport *)
(* error is not caught and takes the place of the body's.                  *)
EndOfClose(t, o) ==
  Return(t, IF t = Owner /\ error # "none" /\ o # "transport_error" THEN "body_error" ELSE o)

CloseSession(t) ==
  /\ Goto(t, "closing")
  /\ Send(t, [task |-> t, kind |-> "close"])
  /\ UNCHANGED <<outcome, client>>

\* A client that is already closed returns at once.
Aclose(t) ==
  /\ \/ IsOpen(t) /\ CloseSession(t)
     \/ IsClosed(t) /\ EndOfClose(t, "ok") /\ UNCHANGED <<client, network, reply>>
  /\ UNCHANGED <<worksWith, error, uploads, complete, at, ksefVars>>

Close(t) ==
  /\ t \in Closers
  /\ pc[t] = "new"
  /\ Aclose(t)

\* The block ends, normally or by the exception of its body.
LeaveBlock ==
  /\ pc[Owner] = "body"
  /\ Aclose(Owner)

CloseAnswered(t) ==
  /\ pc[t] = "closing"
  /\ reply[t] = "ok"
  /\ client' = [client EXCEPT ![worksWith[t]] = "closed"]
  /\ EndOfClose(t, "ok")
  /\ UNCHANGED <<worksWith, error, uploads, complete, at, network, reply, ksefVars>>

CloseFails(t) ==
  /\ pc[t] = "closing"
  /\ \/ reply[t] \in {"refused", "busy"} /\ EndOfClose(t, reply[t])
     \/ EndOfClose(t, "transport_error")
  /\ UNCHANGED <<worksWith, error, uploads, complete, at, client, network, reply, ksefVars>>

Cancel(t) ==
  /\ pc[t] \in {"opening", "closing"}
  /\ Return(t, "cancelled")
  /\ UNCHANGED <<worksWith, error, uploads, complete, at, client, network, reply, ksefVars>>

-----------------------------------------------------------------------------
(* KSeF and its storage.  An answer reaches the task while it waits.       *)
WaitsFor(r) ==
  \/ r.kind = "open" /\ pc[r.task] = "opening"
  \/ r.kind = "put" /\ pc[r.task] = "putting" /\ at = r.part
  \/ r.kind = "close" /\ pc[r.task] = "closing"

Answer(r, a) ==
  /\ network' = network \ {r}
  /\ reply' = [reply EXCEPT ![r.task] = IF WaitsFor(r) THEN a ELSE @]
  /\ UNCHANGED <<pc, worksWith, outcome, error, uploads, complete, at, client>>

\* KSeF answers with upload instructions, for all declared parts or fewer.
KSeFOpens(r) ==
  /\ r.kind = "open"
  /\ session' = "open"
  /\ instructed' \in {Parts, Parts \ {NumParts}}
  /\ \E a \in {"ok", "busy"} : Answer(r, a)
  /\ UNCHANGED stored

\* A PUT stores the part, again with the same content if it is there.
StorageStores(r) ==
  /\ r.kind = "put"
  /\ stored' = stored \union {r.part}
  /\ \E a \in {"ok", "busy"} : Answer(r, a)
  /\ UNCHANGED <<session, instructed>>

\* 21205: a declared part was not sent; 21180: the session is not open.
KSeFCloses(r) ==
  /\ r.kind = "close"
  /\ session = "open"
  /\ stored = Parts
  /\ session' = "processing"
  /\ \E a \in {"ok", "busy"} : Answer(r, a)
  /\ UNCHANGED <<instructed, stored>>

Refuses(r) == Answer(r, "refused") /\ UNCHANGED ksefVars

RequestLost(r) ==
  /\ network' = network \ {r}
  /\ UNCHANGED <<pc, worksWith, outcome, error, uploads, complete, at, client, reply, ksefVars>>

\* 21208: the time for uploading and closing is over.
SessionTimesOut ==
  /\ session = "open"
  /\ session' = "cancelled"
  /\ UNCHANGED <<pc, worksWith, outcome, error, uploads, complete, at, client, network, reply,
                 instructed, stored>>

KSeF ==
  \/ \E r \in network :
       KSeFOpens(r) \/ StorageStores(r) \/ KSeFCloses(r) \/ Refuses(r) \/ RequestLost(r)
  \/ SessionTimesOut

\* Every call is over, or has no client to work with.
Terminated ==
  /\ pc[Owner] = "done"
  /\ \A t \in Tasks : pc[t] = "done" \/ client[worksWith[t]] = "none"
  /\ UNCHANGED vars

Next ==
  \/ OpenSession \/ SessionOpened \/ OpenFails
  \/ \E c \in Clients : ResumeSession(c)
  \/ UploadParts \/ PartAnswered \/ PartFails \/ BodyRaises \/ LeaveBlock
  \/ \E t \in Tasks : Close(t) \/ CloseAnswered(t) \/ CloseFails(t) \/ Cancel(t)
  \/ KSeF
  \/ Terminated

Spec == Init /\ [][Next]_vars

-----------------------------------------------------------------------------
\* The types; a task has an outcome exactly when its call is over.
TypeOK ==
  /\ pc \in [Tasks -> {"new", "opening", "body", "putting", "closing", "done"}]
  /\ worksWith \in [Tasks -> Clients]
  /\ outcome \in [Tasks -> {"none", "ok", "refused", "busy", "transport_error", "body_error",
                            "cancelled"}]
  /\ error \in Errors \union {"none"}
  /\ uploads \in 0..MaxUploads
  /\ complete \in BOOLEAN
  /\ at \in 0..NumParts
  /\ client \in [Clients -> {"none", "open", "closed"}]
  /\ network \in SUBSET Requests
  /\ reply \in [Tasks -> {"none", "ok", "refused", "busy"}]
  /\ session \in {"none", "open", "processing", "cancelled"}
  /\ instructed \in SUBSET Parts
  /\ stored \in SUBSET Parts
  /\ \A t \in Tasks : pc[t] = "done" <=> outcome[t] # "none"

(* A client counts itself closed only when KSeF is processing the package: *)
(* it was closed in time and with all its parts.                           *)
ClosedMeansProcessing ==
  \A c \in Clients : client[c] = "closed" => session = "processing"

(* submit_prepared_batch() returns only for a package that is being        *)
(* processed, and never when its body raised.                              *)
SubmittedIsProcessing ==
  outcome[Owner] = "ok" => session = "processing" /\ error = "none"

(* When upload_parts() has returned, the storage holds every part, also    *)
(* those an earlier call had lost.                                         *)
CompleteMeansStored == complete => stored = Parts

(* A refused close never hides why the upload failed.  (A transport error  *)
(* of the close does.)                                                     *)
RefusalHidesNothing ==
  outcome[Owner] \in {"refused", "busy"} => error = "none"

(* An upload that failed because the storage refused a part, and that was  *)
(* the only one, leaves nothing behind that KSeF could process, although   *)
(* the block still requests the close.                                     *)
RefusedUploadIsNotProcessed ==
  error = "refused" /\ uploads = 1 => session # "processing"

(* What KSeF processes is the package: the parts in the storage, put       *)
(* together in the order of their ordinals, are its bytes, none missing,   *)
(* repeated or moved, whatever the size of the last part, and no part is   *)
(* larger than was allowed.                                                *)
ProcessedIsThePackage ==
  session = "processing" =>
    /\ \A b \in Bytes : \E n \in stored : b \in RawPart(n)
    /\ \A m, n \in stored : m < n => \A b \in RawPart(m), c \in RawPart(n) : b < c
    /\ \A n \in stored : \A b, c \in RawPart(n) : c - b < MaxPartSize
=============================================================================
