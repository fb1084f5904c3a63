--------------------------- MODULE OnlineSession ---------------------------
(***************************************************************************)
(* An online session and the clients bound to it.  One task owns an        *)
(* `async with auth.online_session()` block; other tasks send invoices or  *)
(* call aclose(), on the owner's client or on one made from the saved      *)
(* state with resume_online_session().  A client's _closed flag and the    *)
(* session at KSeF are different things: this module is about how they     *)
(* relate.  POSTs of a session are never repeated by the transport, so a   *)
(* request without an answer may still be carried out later.               *)
(***************************************************************************)
EXTENDS Integers

CONSTANTS
  Owner,        \* the task that runs the `async with` block
  Senders,      \* the tasks that send one invoice each
  Closers,      \* the tasks that call aclose()
  Clients,      \* the session clients, all of the same session
  OwnClient     \* the client the block gets

Tasks == {Owner} \union Senders \union Closers

ASSUME TasksAreApart ==
  /\ Owner \notin Senders /\ Owner \notin Closers
  /\ Senders \intersect Closers = {}
ASSUME BlockHasAClient == OwnClient \in Clients

VARIABLES
  pc,          \* pc[t]: where the task is
  worksWith,   \* worksWith[t]: the client the task works with
  waits,       \* waits[t]: the sender calls send_invoice_and_wait
  raised,      \* the body of the block raised
  outcome,     \* outcome[t]: how the task's call ended
  client,      \* client[c]: "none", "open" or "closed" (its _closed flag)
  network,     \* the requests on their way to KSeF
  reply,       \* reply[t]: the answer to the task's current request
  session,     \* the session at KSeF
  invoice      \* invoice[t]: the task's invoice at KSeF

vars == <<pc, worksWith, waits, raised, outcome, client, network, reply, session, invoice>>

taskVars == <<pc, worksWith, waits, raised, outcome, client>>

Requests == [task : Tasks, kind : {"open", "invoice", "status", "terminate"}]

Waiting == {"opening", "sending", "asking", "closing"}

Init ==
  /\ pc = [t \in Tasks |-> "new"]
  /\ worksWith \in [Tasks -> Clients] /\ worksWith[Owner] = OwnClient
  /\ waits \in [Senders -> BOOLEAN]
  /\ raised = FALSE
  /\ outcome = [t \in Tasks |-> "none"]
  /\ client = [c \in Clients |-> "none"]
  /\ network = {}
  /\ reply = [t \in Tasks |-> "none"]
  /\ session = "none"
  /\ invoice = [t \in Senders |-> "none"]

Goto(t, where) == pc' = [pc EXCEPT ![t] = where]

Return(t, o) ==
  /\ Goto(t, "done")
  /\ outcome' = [outcome EXCEPT ![t] = o]

Request(t, kind) ==
  /\ network' = network \union {[task |-> t, kind |-> kind]}
  /\ reply' = [reply EXCEPT ![t] = "none"]

\* _ensure_open.
IsOpen(t) == client[worksWith[t]] = "open"
IsClosed(t) == client[worksWith[t]] = "closed"

-----------------------------------------------------------------------------
(* Opening and resuming.                                                   *)

OpenSession ==
  /\ pc[Owner] = "new"
  /\ Goto(Owner, "opening")
  /\ Request(Owner, "open")
  /\ UNCHANGED <<worksWith, waits, raised, outcome, client, session, invoice>>

\* The block gets its client, or the error of the request.
SessionOpened ==
  /\ pc[Owner] = "opening"
  /\ reply[Owner] = "ok"
  /\ Goto(Owner, "body")
  /\ client' = [client EXCEPT ![OwnClient] = "open"]
  /\ UNCHANGED <<worksWith, waits, raised, outcome, network, reply, session, invoice>>

OpenRefused ==
  /\ pc[Owner] = "opening"
  /\ reply[Owner] \in {"refused", "busy"}
  /\ Return(Owner, reply[Owner])
  /\ UNCHANGED <<worksWith, waits, raised, client, network, reply, session, invoice>>

\* A second client from get_state(), which a closed client still answers.
ResumeSession(c) ==
  /\ client[OwnClient] # "none"
  /\ client[c] = "none"
  /\ client' = [client EXCEPT ![c] = "open"]
  /\ UNCHANGED <<pc, worksWith, waits, raised, outcome, network, reply, session, invoice>>

-----------------------------------------------------------------------------
(* Sending an invoice, and waiting for its result.                         *)

SendInvoice(t) ==
  /\ pc[t] = "new"
  /\ IsOpen(t)
  /\ Goto(t, "sending")
  /\ Request(t, "invoice")
  /\ UNCHANGED <<worksWith, waits, raised, outcome, client, session, invoice>>

\* Every operation asks _ensure_open, each poll of a wait again.
OperationOnClosedClient(t) ==
  /\ pc[t] \in {"new", "polling"}
  /\ IsClosed(t)
  /\ Return(t, "client_closed")
  /\ UNCHANGED <<worksWith, waits, raised, client, network, reply, session, invoice>>

\* Fault: the status of the answer is not looked at.
SendAnsweredUnchecked(t) ==
  /\ pc[t] = "sending"
  /\ reply[t] # "none"
  /\ IF waits[t] THEN Goto(t, "polling") /\ UNCHANGED outcome
                 ELSE Return(t, "sent")
  /\ UNCHANGED <<worksWith, waits, raised, client, network, reply, session, invoice>>

SendAnswered(t) ==
  /\ pc[t] = "sending"
  /\ reply[t] = "ok"
  /\ IF waits[t] THEN Goto(t, "polling") /\ UNCHANGED outcome
                 ELSE Return(t, "sent")
  /\ UNCHANGED <<worksWith, waits, raised, client, network, reply, session, invoice>>

SendRefused(t) ==
  /\ pc[t] = "sending"
  /\ reply[t] \in {"refused", "busy"}
  /\ Return(t, reply[t])
  /\ UNCHANGED <<worksWith, waits, raised, client, network, reply, session, invoice>>

AskStatus(t) ==
  /\ pc[t] = "polling"
  /\ IsOpen(t)
  /\ Goto(t, "asking")
  /\ Request(t, "status")
  /\ UNCHANGED <<worksWith, waits, raised, outcome, client, session, invoice>>

\* A KSeF number or a failure ends the wait, else it sleeps or times out.
StatusAnswered(t) ==
  /\ pc[t] = "asking"
  /\ reply[t] # "none"
  /\ \/ /\ reply[t] \in {"ready", "failed"}
        /\ Return(t, reply[t])
     \/ /\ reply[t] \in {"refused", "busy"}
        /\ Return(t, "status_error")
     \/ /\ reply[t] = "processing"
        /\ \/ Goto(t, "polling") /\ UNCHANGED outcome
           \/ Return(t, "timeout")
  /\ UNCHANGED <<worksWith, waits, raised, client, network, reply, session, invoice>>

-----------------------------------------------------------------------------
(* Closing: aclose(), called by a task or by the end of the block.         *)

\* Fault: a transport failure is logged and forgotten.
EndOfCloseForgiving(t, o) ==
  Return(t, IF t = Owner /\ raised THEN "body_error"
            ELSE IF t = Owner /\ o = "transport_error" THEN "ok" ELSE o)

(* How aclose() ends the call: __aexit__ logs its error when the body      *)
(* raised, and lets the error of the body through.                         *)
EndOfClose(t, o) == Return(t, IF t = Owner /\ raised THEN "body_error" ELSE o)

\* Fault: the flag is set before the request is made.
CloseFlaggedFirst(t) ==
  /\ Goto(t, "closing")
  /\ client' = [client EXCEPT ![worksWith[t]] = "closed"]
  /\ Request(t, "terminate")
  /\ UNCHANGED outcome

CloseSession(t) ==
  /\ Goto(t, "closing")
  /\ Request(t, "terminate")
  /\ UNCHANGED <<outcome, client>>

\* A client that is already closed returns at once.
Aclose(t) ==
  /\ \/ IsOpen(t) /\ CloseSession(t)
     \/ IsClosed(t) /\ EndOfClose(t, "ok") /\ UNCHANGED <<client, network, reply>>
  /\ UNCHANGED <<worksWith, waits, raised, session, invoice>>

Close(t) ==
  /\ t \in Closers
  /\ pc[t] = "new"
  /\ Aclose(t)

BodyRaises ==
  /\ pc[Owner] = "body"
  /\ ~raised
  /\ raised' = TRUE
  /\ UNCHANGED <<pc, worksWith, waits, outcome, client, network, reply, session, invoice>>

\* The block ends, normally or by the exception of its body.
LeaveBlock ==
  /\ pc[Owner] = "body"
  /\ Aclose(Owner)

CloseAnswered(t) ==
  /\ pc[t] = "closing"
  /\ reply[t] = "ok"
  /\ client' = [client EXCEPT ![worksWith[t]] = "closed"]
  /\ EndOfClose(t, "ok")
  /\ UNCHANGED <<worksWith, waits, raised, network, reply, session, invoice>>

CloseRefused(t) ==
  /\ pc[t] = "closing"
  /\ reply[t] \in {"refused", "busy"}
  /\ EndOfClose(t, reply[t])
  /\ UNCHANGED <<worksWith, waits, raised, client, network, reply, session, invoice>>

-----------------------------------------------------------------------------
(* httpx.HTTPError: __aexit__ treats it as an error of KSeF.               *)
TransportFailure(t) ==
  /\ pc[t] \in Waiting
  /\ IF pc[t] = "closing" THEN EndOfClose(t, "transport_error")
       ELSE Return(t, IF pc[t] = "asking" THEN "status_error" ELSE "transport_error")
  /\ UNCHANGED <<worksWith, waits, raised, client, network, reply, session, invoice>>

\* A cancelled task; a cancelled body is one that raises.
Cancel(t) ==
  /\ pc[t] \in Waiting \union {"polling"}
  /\ Return(t, "cancelled")
  /\ UNCHANGED <<worksWith, waits, raised, client, network, reply, session, invoice>>

TaskStep(t) ==
  \/ SendInvoice(t) /\ t \in Senders
  \/ OperationOnClosedClient(t) /\ t \in Senders
  \/ SendAnswered(t) \/ SendRefused(t) \/ AskStatus(t) \/ StatusAnswered(t)
  \/ Close(t) \/ CloseAnswered(t) \/ CloseRefused(t)
  \/ TransportFailure(t) \/ Cancel(t)

-----------------------------------------------------------------------------
(* KSeF.  The answer reaches the task while it waits for that request.     *)
WaitsFor(t, kind) ==
  \/ kind = "open" /\ pc[t] = "opening"
  \/ kind = "invoice" /\ pc[t] = "sending"
  \/ kind = "status" /\ pc[t] = "asking"
  \/ kind = "terminate" /\ pc[t] = "closing"

Answer(r, a) ==
  /\ network' = network \ {r}
  /\ reply' = [reply EXCEPT ![r.task] = IF WaitsFor(r.task, r.kind) THEN a ELSE @]

\* Carried out; a gateway may still answer 502 or 504.
KSeFOpens(r) ==
  /\ r.kind = "open"
  /\ session' = "open"
  /\ \E a \in {"ok", "busy"} : Answer(r, a)
  /\ UNCHANGED <<taskVars, invoice>>

KSeFAccepts(r) ==
  /\ r.kind = "invoice"
  /\ session = "open"
  /\ invoice' = [invoice EXCEPT ![r.task] = "accepted"]
  /\ \E a \in {"ok", "busy"} : Answer(r, a)
  /\ UNCHANGED <<taskVars, session>>

KSeFTerminates(r) ==
  /\ r.kind = "terminate"
  /\ session = "open"
  /\ session' = "closed"
  /\ \E a \in {"ok", "busy"} : Answer(r, a)
  /\ UNCHANGED <<taskVars, invoice>>

\* The status of an invoice can be asked for after the session is closed.
KSeFShows(r) ==
  /\ r.kind = "status"
  /\ Answer(r, IF invoice[r.task] = "accepted" THEN "processing" ELSE invoice[r.task])
  /\ UNCHANGED <<taskVars, session, invoice>>

\* A rate limit, maintenance, a bad invoice, a session in the wrong status.
KSeFRefuses(r) ==
  /\ Answer(r, "refused")
  /\ UNCHANGED <<taskVars, session, invoice>>

RequestLost(r) ==
  /\ network' = network \ {r}
  /\ UNCHANGED <<taskVars, reply, session, invoice>>

KSeFProcesses(t) ==
  /\ invoice[t] = "accepted"
  /\ \E s \in {"ready", "failed"} : invoice' = [invoice EXCEPT ![t] = s]
  /\ UNCHANGED <<taskVars, network, reply, session>>

\* The session's validity ends.
SessionExpires ==
  /\ session = "open"
  /\ session' = "closed"
  /\ UNCHANGED <<taskVars, network, reply, invoice>>

KSeF ==
  \/ \E r \in network :
       \/ KSeFOpens(r) \/ KSeFAccepts(r) \/ KSeFTerminates(r)
       \/ KSeFShows(r) \/ KSeFRefuses(r) \/ RequestLost(r)
  \/ \E t \in Senders : KSeFProcesses(t)
  \/ SessionExpires

\* Every call is over, or has no client to work with.
Terminated ==
  /\ pc[Owner] = "done"
  /\ \A t \in Tasks : pc[t] = "done" \/ client[worksWith[t]] = "none"
  /\ UNCHANGED vars

Next ==
  \/ OpenSession \/ SessionOpened \/ OpenRefused
  \/ LeaveBlock \/ BodyRaises
  \/ \E c \in Clients : ResumeSession(c)
  \/ \E t \in Tasks : TaskStep(t)
  \/ KSeF
  \/ Terminated

Spec == Init /\ [][Next]_vars

-----------------------------------------------------------------------------
\* The types; a task has an outcome exactly when its call is over.
TypeOK ==
  /\ pc \in [Tasks -> Waiting \union {"new", "body", "polling", "done"}]
  /\ worksWith \in [Tasks -> Clients]
  /\ waits \in [Senders -> BOOLEAN]
  /\ raised \in BOOLEAN
  /\ outcome \in [Tasks -> {"none", "ok", "sent", "ready", "failed", "timeout", "refused",
                            "busy", "status_error", "transport_error", "client_closed",
                            "body_error", "cancelled"}]
  /\ client \in [Clients -> {"none", "open", "closed"}]
  /\ network \in SUBSET Requests
  /\ reply \in [Tasks -> {"none", "ok", "refused", "busy", "processing", "ready", "failed"}]
  /\ session \in {"none", "open", "closed"}
  /\ invoice \in [Senders -> {"none", "accepted", "ready", "failed"}]
  /\ \A t \in Tasks : pc[t] = "done" <=> outcome[t] # "none"

(* A client counts itself closed only when KSeF has closed the session,    *)
(* also when several tasks close one client and answers are lost.  (The    *)
(* converse does not hold: a lost answer leaves the client open.)          *)
ClosedMeansTerminated ==
  \A c \in Clients : client[c] = "closed" => session = "closed"

(* Once any client counts itself closed KSeF accepts no invoice of the     *)
(* session, also none that another client has sent and that is on its way. *)
ClosedSessionIsFinal ==
  [][(\E c \in Clients : client[c] = "closed")
       => \A t \in Senders : invoice[t] = "none" => invoice'[t] = "none"]_vars

(* A block that is left without an exception has closed its session; one   *)
(* whose body raised passes that exception on, whatever closing met.       *)
ExitIsTruthful ==
  /\ outcome[Owner] = "ok" => ~raised /\ session = "closed"
  /\ pc[Owner] = "done" /\ raised => outcome[Owner] \in {"body_error", "cancelled"}

(* What a sender is told is true of its invoice: a result, a timeout or a  *)
(* plain success means KSeF has it, and a refusal that KSeF has not and    *)
(* will not get it.  (A gateway error, a transport error and a             *)
(* cancellation say neither.)                                              *)
SenderToldTheTruth ==
  \A t \in Senders :
    /\ outcome[t] \in {"sent", "ready", "failed", "timeout", "status_error"}
         => invoice[t] # "none"
    /\ outcome[t] \in {"ready", "failed"} => invoice[t] = outcome[t]
    /\ outcome[t] = "refused" =>
         invoice[t] = "none" /\ \A r \in network : ~(r.task = t /\ r.kind = "invoice")

(* A client that counts itself closed starts no request any more: a wait   *)
(* in another task stops polling.                                          *)
ClosedClientIsSilent ==
  [][\A t \in Tasks : IsClosed(t) =>
       \A r \in network' : r.task = t => r \in network]_vars

=============================================================================
