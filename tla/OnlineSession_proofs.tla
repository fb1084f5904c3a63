----------------------- MODULE OnlineSession_proofs -----------------------
(***************************************************************************)
(* Proofs about OnlineSession for any number of tasks and clients.  The    *)
(* inductive invariant says what a request on its way and an answer in     *)
(* hand tell about the session and the invoice: a request to open or to    *)
(* accept is there once and has not been carried out, and an answer was    *)
(* true when KSeF gave it and has stayed true.                             *)
(***************************************************************************)
EXTENDS OnlineSession, TLAPS

-----------------------------------------------------------------------------
\* Each kind of request has its sender, which has left its first step.
SenderInv ==
  \A r \in network :
    /\ pc[r.task] # "new"
    /\ r.kind \in {"invoice", "status"} => r.task \in Senders
    /\ r.kind = "open" => r.task = Owner

\* What acts is requested once.
OnceInv ==
  \A r, s \in network :
    r.task = s.task /\ r.kind = s.kind /\ r.kind \in {"open", "invoice"} => r = s

\* It has not been carried out while it is on its way.
PendingInv ==
  \A r \in network :
    /\ r.kind = "open" => session = "none"
    /\ r.kind = "invoice" => invoice[r.task] = "none"

\* A session that was not opened has no clients, an unsent invoice is new.
StartInv ==
  /\ pc[Owner] = "new" => session = "none"
  /\ \A t \in Senders : pc[t] = "new" => invoice[t] = "none"

\* What the answer in hand says of the session.
CloseInv ==
  \A t \in Tasks : pc[t] = "closing" /\ reply[t] = "ok" => session = "closed"

\* What the answer in hand says of the invoice.
AnswerInv ==
  \A t \in Senders :
    /\ pc[t] = "sending" /\ reply[t] = "ok" => invoice[t] # "none"
    /\ pc[t] = "sending" /\ reply[t] = "none" => invoice[t] = "none"
    /\ pc[t] = "sending" /\ reply[t] = "refused" =>
         invoice[t] = "none" /\ \A r \in network : ~(r.task = t /\ r.kind = "invoice")
    /\ pc[t] \in {"polling", "asking"} => invoice[t] # "none"
    /\ pc[t] = "asking" /\ reply[t] \in {"ready", "failed"} => invoice[t] = reply[t]

\* Only the owner opens a session and runs a block.
OwnerInv ==
  \A t \in Tasks : pc[t] \in {"opening", "body"} => t = Owner

\* Only senders send, poll and ask, and they close nothing.
RoleInv ==
  \A t \in Tasks :
    /\ pc[t] \in {"sending", "polling", "asking"} => t \in Senders
    /\ pc[t] = "closing" => t \notin Senders

\* The results of a call belong to those who make it.
OutcomeInv ==
  /\ outcome[Owner] = "ok" => ~raised
  /\ raised => pc[Owner] \in {"body", "closing", "done"}

IInv ==
  /\ TypeOK /\ SenderInv /\ OnceInv /\ PendingInv /\ StartInv /\ CloseInv
  /\ AnswerInv /\ OwnerInv /\ RoleInv /\ OutcomeInv
  /\ ClosedMeansTerminated /\ ExitIsTruthful /\ SenderToldTheTruth

-----------------------------------------------------------------------------
LEMMA InitInv == Init => IInv
  BY TasksAreApart, BlockHasAClient
  DEF Init, IInv, TypeOK, Waiting, SenderInv, OnceInv, PendingInv, StartInv, CloseInv,
      AnswerInv, OwnerInv, RoleInv, OutcomeInv, ClosedMeansTerminated, ExitIsTruthful,
      SenderToldTheTruth, Tasks

LEMMA NextInv == IInv /\ [Next]_vars => IInv'
<1> SUFFICES ASSUME IInv, [Next]_vars PROVE IInv'
  OBVIOUS
<1> USE TasksAreApart, BlockHasAClient
<1>0. TypeOK /\ SenderInv /\ OnceInv /\ PendingInv /\ StartInv /\ CloseInv
      /\ AnswerInv /\ OwnerInv /\ RoleInv /\ OutcomeInv
      /\ ClosedMeansTerminated /\ ExitIsTruthful /\ SenderToldTheTruth
  BY DEF IInv
<1>1. CASE OpenSession
  <2>1. TypeOK'
    BY <1>0, <1>1 DEF OpenSession, Goto, Request, TypeOK, Waiting, Requests, Tasks
  <2>2. SenderInv'
    BY <1>0, <1>1 DEF OpenSession, Goto, Request, TypeOK, SenderInv, Tasks
  <2>3. OnceInv'
    BY <1>0, <1>1 DEF OpenSession, Goto, Request, TypeOK, OnceInv, SenderInv, Waiting,
       Requests, Tasks
  <2>4. PendingInv'
    BY <1>0, <1>1 DEF OpenSession, Goto, Request, TypeOK, PendingInv, SenderInv, OnceInv,
       StartInv, Waiting, Requests, Tasks
  <2>5. StartInv'
    BY <1>0, <1>1 DEF OpenSession, Goto, Request, StartInv
  <2>6. CloseInv'
    BY <1>0, <1>1 DEF OpenSession, Goto, Request, CloseInv
  <2>7. AnswerInv'
    BY <1>0, <1>1 DEF OpenSession, Goto, Request, AnswerInv
  <2>8. OwnerInv'
    BY <1>0, <1>1 DEF OpenSession, Goto, Request, OwnerInv
  <2>9. RoleInv'
    BY <1>0, <1>1 DEF OpenSession, Goto, Request, RoleInv
  <2>10. OutcomeInv'
    BY <1>0, <1>1 DEF OpenSession, Goto, Request, OutcomeInv
  <2>11. ExitIsTruthful'
    BY <1>0, <1>1 DEF OpenSession, Goto, Request, ExitIsTruthful
  <2>12. SenderToldTheTruth'
    BY <1>0, <1>1 DEF OpenSession, Goto, Request, SenderToldTheTruth
  <2>13. ClosedMeansTerminated'
    BY <1>0, <1>1 DEF OpenSession, ClosedMeansTerminated
  <2> QED BY <2>1, <2>2, <2>3, <2>4, <2>5, <2>6, <2>7, <2>8, <2>9, <2>10, <2>11, <2>12, <2>13 DEF IInv
<1>2. CASE SessionOpened
  <2>1. TypeOK'
    BY <1>0, <1>2 DEF SessionOpened, Goto, TypeOK, Waiting, Requests
  <2>2. SenderInv'
    BY <1>0, <1>2 DEF SessionOpened, Goto, SenderInv
  <2>3. StartInv'
    BY <1>0, <1>2 DEF SessionOpened, Goto, StartInv
  <2>4. CloseInv'
    BY <1>0, <1>2 DEF SessionOpened, Goto, CloseInv
  <2>5. AnswerInv'
    BY <1>0, <1>2 DEF SessionOpened, Goto, AnswerInv
  <2>6. OwnerInv'
    BY <1>0, <1>2 DEF SessionOpened, Goto, OwnerInv
  <2>7. RoleInv'
    BY <1>0, <1>2 DEF SessionOpened, Goto, RoleInv
  <2>8. OutcomeInv'
    BY <1>0, <1>2 DEF SessionOpened, Goto, OutcomeInv
  <2>9. ClosedMeansTerminated'
    BY <1>0, <1>2 DEF SessionOpened, Goto, ClosedMeansTerminated
  <2>10. ExitIsTruthful'
    BY <1>0, <1>2 DEF SessionOpened, Goto, ExitIsTruthful
  <2>11. OnceInv' /\ PendingInv' /\ SenderToldTheTruth'
    BY <1>0, <1>2 DEF SessionOpened, OnceInv, PendingInv, SenderToldTheTruth
  <2> QED BY <2>1, <2>2, <2>3, <2>4, <2>5, <2>6, <2>7, <2>8, <2>9, <2>10, <2>11 DEF IInv
<1>3. CASE OpenRefused
  <2>1. TypeOK'
    BY <1>0, <1>3 DEF OpenRefused, Return, Goto, TypeOK, Waiting, Requests
  <2>2. SenderInv'
    BY <1>0, <1>3 DEF OpenRefused, Return, Goto, SenderInv
  <2>3. StartInv'
    BY <1>0, <1>3 DEF OpenRefused, Return, Goto, StartInv
  <2>4. CloseInv'
    BY <1>0, <1>3 DEF OpenRefused, Return, Goto, CloseInv
  <2>5. AnswerInv'
    BY <1>0, <1>3 DEF OpenRefused, Return, Goto, AnswerInv
  <2>6. OwnerInv'
    BY <1>0, <1>3 DEF OpenRefused, Return, Goto, OwnerInv
  <2>7. RoleInv'
    BY <1>0, <1>3 DEF OpenRefused, Return, Goto, RoleInv
  <2>8. OutcomeInv'
    BY <1>0, <1>3 DEF OpenRefused, Return, Goto, OutcomeInv
  <2>9. ExitIsTruthful'
    BY <1>0, <1>3 DEF OpenRefused, Return, Goto, TypeOK, ExitIsTruthful, CloseInv,
       ClosedMeansTerminated, OutcomeInv, PendingInv, OwnerInv, Waiting, Requests, Tasks
  <2>10. SenderToldTheTruth'
    BY <1>0, <1>3 DEF OpenRefused, Return, Goto, SenderToldTheTruth
  <2>11. OnceInv' /\ PendingInv' /\ ClosedMeansTerminated'
    BY <1>0, <1>3 DEF OpenRefused, OnceInv, PendingInv, ClosedMeansTerminated
  <2> QED BY <2>1, <2>2, <2>3, <2>4, <2>5, <2>6, <2>7, <2>8, <2>9, <2>10, <2>11 DEF IInv
<1>4. ASSUME NEW c \in Clients, ResumeSession(c) PROVE IInv'
  <2>1. TypeOK'
    BY <1>0, <1>4 DEF ResumeSession, TypeOK, Waiting, Requests
  <2>2. ClosedMeansTerminated'
    BY <1>0, <1>4 DEF ResumeSession, ClosedMeansTerminated
  <2>3. SenderInv' /\ OnceInv' /\ PendingInv' /\ StartInv' /\ CloseInv' /\ AnswerInv' /\ OwnerInv' /\
       RoleInv' /\ OutcomeInv' /\ ExitIsTruthful' /\ SenderToldTheTruth'
    BY <1>0, <1>4 DEF ResumeSession, SenderInv, OnceInv, PendingInv, StartInv, CloseInv,
       AnswerInv, OwnerInv, RoleInv, OutcomeInv, ExitIsTruthful, SenderToldTheTruth
  <2> QED BY <2>1, <2>2, <2>3 DEF IInv
<1>5. ASSUME NEW t \in Senders, SendInvoice(t) PROVE IInv'
  <2>1. TypeOK'
    BY <1>0, <1>5 DEF SendInvoice, Goto, Request, IsOpen, TypeOK, Waiting, Requests, Tasks
  <2>2. SenderInv'
    BY <1>0, <1>5 DEF SendInvoice, Goto, Request, IsOpen, TypeOK, SenderInv, Tasks
  <2>3. OnceInv'
    BY <1>0, <1>5 DEF SendInvoice, Goto, Request, IsOpen, TypeOK, OnceInv, SenderInv,
       Waiting, Requests, Tasks
  <2>4. PendingInv'
    BY <1>0, <1>5 DEF SendInvoice, Goto, Request, IsOpen, TypeOK, PendingInv, SenderInv,
       OnceInv, StartInv, Waiting, Requests, Tasks
  <2>5. StartInv'
    BY <1>0, <1>5 DEF SendInvoice, Goto, Request, IsOpen, StartInv
  <2>6. CloseInv'
    BY <1>0, <1>5 DEF SendInvoice, Goto, Request, IsOpen, CloseInv
  <2>7. AnswerInv'
    BY <1>0, <1>5 DEF SendInvoice, Goto, Request, IsOpen, TypeOK, AnswerInv, SenderInv,
       OnceInv, PendingInv, StartInv, RoleInv, Waiting, Requests, Tasks
  <2>8. OwnerInv'
    BY <1>0, <1>5 DEF SendInvoice, Goto, Request, IsOpen, OwnerInv
  <2>9. RoleInv'
    BY <1>0, <1>5 DEF SendInvoice, Goto, Request, IsOpen, RoleInv
  <2>10. OutcomeInv'
    BY <1>0, <1>5 DEF SendInvoice, Goto, Request, IsOpen, OutcomeInv
  <2>11. ExitIsTruthful'
    BY <1>0, <1>5 DEF SendInvoice, Goto, Request, IsOpen, ExitIsTruthful
  <2>12. SenderToldTheTruth'
    BY <1>0, <1>5 DEF SendInvoice, Goto, Request, IsOpen, TypeOK, SenderToldTheTruth, Tasks
  <2>13. ClosedMeansTerminated'
    BY <1>0, <1>5 DEF SendInvoice, ClosedMeansTerminated
  <2> QED BY <2>1, <2>2, <2>3, <2>4, <2>5, <2>6, <2>7, <2>8, <2>9, <2>10, <2>11, <2>12, <2>13 DEF IInv
<1>6. ASSUME NEW t \in Senders, OperationOnClosedClient(t) PROVE IInv'
  <2>1. TypeOK'
    BY <1>0, <1>6 DEF OperationOnClosedClient, Return, Goto, IsClosed, TypeOK, Waiting,
       Requests
  <2>2. SenderInv'
    BY <1>0, <1>6 DEF OperationOnClosedClient, Return, Goto, IsClosed, SenderInv
  <2>3. StartInv'
    BY <1>0, <1>6 DEF OperationOnClosedClient, Return, Goto, IsClosed, StartInv
  <2>4. CloseInv'
    BY <1>0, <1>6 DEF OperationOnClosedClient, Return, Goto, IsClosed, CloseInv
  <2>5. AnswerInv'
    BY <1>0, <1>6 DEF OperationOnClosedClient, Return, Goto, IsClosed, AnswerInv
  <2>6. OwnerInv'
    BY <1>0, <1>6 DEF OperationOnClosedClient, Return, Goto, IsClosed, OwnerInv
  <2>7. RoleInv'
    BY <1>0, <1>6 DEF OperationOnClosedClient, Return, Goto, IsClosed, RoleInv
  <2>8. OutcomeInv'
    BY <1>0, <1>6 DEF OperationOnClosedClient, Return, Goto, IsClosed, OutcomeInv
  <2>9. ExitIsTruthful'
    BY <1>0, <1>6 DEF OperationOnClosedClient, Return, Goto, IsClosed, ExitIsTruthful
  <2>10. SenderToldTheTruth'
    BY <1>0, <1>6 DEF OperationOnClosedClient, Return, Goto, IsClosed, SenderToldTheTruth
  <2>11. OnceInv' /\ PendingInv' /\ ClosedMeansTerminated'
    BY <1>0, <1>6 DEF OperationOnClosedClient, OnceInv, PendingInv, ClosedMeansTerminated
  <2> QED BY <2>1, <2>2, <2>3, <2>4, <2>5, <2>6, <2>7, <2>8, <2>9, <2>10, <2>11 DEF IInv
<1>7. ASSUME NEW t \in Tasks, SendAnswered(t) PROVE IInv'
  <2>1. TypeOK'
    BY <1>0, <1>7 DEF SendAnswered, Return, Goto, TypeOK, Waiting, Requests
  <2>2. SenderInv'
    BY <1>0, <1>7 DEF SendAnswered, Return, Goto, TypeOK, SenderInv, OwnerInv, RoleInv,
       Waiting, Requests, Tasks
  <2>3. StartInv'
    BY <1>0, <1>7 DEF SendAnswered, Return, Goto, TypeOK, StartInv, Tasks
  <2>4. CloseInv'
    BY <1>0, <1>7 DEF SendAnswered, Return, Goto, TypeOK, CloseInv, Tasks
  <2>5. AnswerInv'
    BY <1>0, <1>7 DEF SendAnswered, Return, Goto, TypeOK, AnswerInv, Tasks
  <2>6. OwnerInv'
    BY <1>0, <1>7 DEF SendAnswered, Return, Goto, TypeOK, OwnerInv, Tasks
  <2>7. RoleInv'
    BY <1>0, <1>7 DEF SendAnswered, Return, Goto, TypeOK, RoleInv, Tasks
  <2>8. OutcomeInv'
    BY <1>0, <1>7 DEF SendAnswered, Return, Goto, TypeOK, OutcomeInv, Tasks
  <2>9. ExitIsTruthful'
    BY <1>0, <1>7 DEF SendAnswered, Return, Goto, TypeOK, ExitIsTruthful, CloseInv,
       ClosedMeansTerminated, OutcomeInv, PendingInv, OwnerInv, Waiting, Requests, Tasks
  <2>10. SenderToldTheTruth'
    BY <1>0, <1>7 DEF SendAnswered, Return, Goto, TypeOK, SenderToldTheTruth, AnswerInv,
       PendingInv, RoleInv, OnceInv, SenderInv, StartInv, OwnerInv, Waiting, Requests, Tasks
  <2>11. OnceInv' /\ PendingInv' /\ ClosedMeansTerminated'
    BY <1>0, <1>7 DEF SendAnswered, OnceInv, PendingInv, ClosedMeansTerminated
  <2> QED BY <2>1, <2>2, <2>3, <2>4, <2>5, <2>6, <2>7, <2>8, <2>9, <2>10, <2>11 DEF IInv
<1>8. ASSUME NEW t \in Tasks, SendRefused(t) PROVE IInv'
  <2>1. TypeOK'
    BY <1>0, <1>8 DEF SendRefused, Return, Goto, TypeOK, Waiting, Requests
  <2>2. SenderInv'
    BY <1>0, <1>8 DEF SendRefused, Return, Goto, SenderInv
  <2>3. StartInv'
    BY <1>0, <1>8 DEF SendRefused, Return, Goto, StartInv
  <2>4. CloseInv'
    BY <1>0, <1>8 DEF SendRefused, Return, Goto, CloseInv
  <2>5. AnswerInv'
    BY <1>0, <1>8 DEF SendRefused, Return, Goto, AnswerInv
  <2>6. OwnerInv'
    BY <1>0, <1>8 DEF SendRefused, Return, Goto, OwnerInv
  <2>7. RoleInv'
    BY <1>0, <1>8 DEF SendRefused, Return, Goto, RoleInv
  <2>8. OutcomeInv'
    BY <1>0, <1>8 DEF SendRefused, Return, Goto, OutcomeInv
  <2>9. ExitIsTruthful'
    BY <1>0, <1>8 DEF SendRefused, Return, Goto, TypeOK, ExitIsTruthful, CloseInv,
       ClosedMeansTerminated, OutcomeInv, PendingInv, OwnerInv, Waiting, Requests, Tasks
  <2>10. SenderToldTheTruth'
    BY <1>0, <1>8 DEF SendRefused, Return, Goto, TypeOK, SenderToldTheTruth, AnswerInv,
       PendingInv, RoleInv, OnceInv, SenderInv, StartInv, OwnerInv, Waiting, Requests, Tasks
  <2>11. OnceInv' /\ PendingInv' /\ ClosedMeansTerminated'
    BY <1>0, <1>8 DEF SendRefused, OnceInv, PendingInv, ClosedMeansTerminated
  <2> QED BY <2>1, <2>2, <2>3, <2>4, <2>5, <2>6, <2>7, <2>8, <2>9, <2>10, <2>11 DEF IInv
<1>9. ASSUME NEW t \in Tasks, AskStatus(t) PROVE IInv'
  <2>1. TypeOK'
    BY <1>0, <1>9 DEF AskStatus, Goto, Request, IsOpen, TypeOK, Waiting, Requests
  <2>2. SenderInv'
    BY <1>0, <1>9 DEF AskStatus, Goto, Request, IsOpen, TypeOK, SenderInv, OwnerInv,
       RoleInv, Waiting, Requests, Tasks
  <2>3. OnceInv'
    BY <1>0, <1>9 DEF AskStatus, Goto, Request, IsOpen, OnceInv
  <2>4. PendingInv'
    BY <1>0, <1>9 DEF AskStatus, Goto, Request, IsOpen, PendingInv
  <2>5. StartInv'
    BY <1>0, <1>9 DEF AskStatus, Goto, Request, IsOpen, StartInv
  <2>6. CloseInv'
    BY <1>0, <1>9 DEF AskStatus, Goto, Request, IsOpen, CloseInv
  <2>7. AnswerInv'
    BY <1>0, <1>9 DEF AskStatus, Goto, Request, IsOpen, TypeOK, AnswerInv, Tasks
  <2>8. OwnerInv'
    BY <1>0, <1>9 DEF AskStatus, Goto, Request, IsOpen, OwnerInv
  <2>9. RoleInv'
    BY <1>0, <1>9 DEF AskStatus, Goto, Request, IsOpen, RoleInv
  <2>10. OutcomeInv'
    BY <1>0, <1>9 DEF AskStatus, Goto, Request, IsOpen, OutcomeInv
  <2>11. ExitIsTruthful'
    BY <1>0, <1>9 DEF AskStatus, Goto, Request, IsOpen, ExitIsTruthful
  <2>12. SenderToldTheTruth'
    BY <1>0, <1>9 DEF AskStatus, Goto, Request, IsOpen, SenderToldTheTruth
  <2>13. ClosedMeansTerminated'
    BY <1>0, <1>9 DEF AskStatus, ClosedMeansTerminated
  <2> QED BY <2>1, <2>2, <2>3, <2>4, <2>5, <2>6, <2>7, <2>8, <2>9, <2>10, <2>11, <2>12, <2>13 DEF IInv
<1>10. ASSUME NEW t \in Tasks, StatusAnswered(t) PROVE IInv'
  <2>1. TypeOK'
    BY <1>0, <1>10 DEF StatusAnswered, Return, Goto, TypeOK, Waiting, Requests
  <2>2. SenderInv'
    BY <1>0, <1>10 DEF StatusAnswered, Return, Goto, TypeOK, SenderInv, OwnerInv, RoleInv,
       Waiting, Requests, Tasks
  <2>3. StartInv'
    BY <1>0, <1>10 DEF StatusAnswered, Return, Goto, TypeOK, StartInv, Tasks
  <2>4. CloseInv'
    BY <1>0, <1>10 DEF StatusAnswered, Return, Goto, TypeOK, CloseInv, Tasks
  <2>5. AnswerInv'
    BY <1>0, <1>10 DEF StatusAnswered, Return, Goto, TypeOK, AnswerInv, Tasks
  <2>6. OwnerInv'
    BY <1>0, <1>10 DEF StatusAnswered, Return, Goto, TypeOK, OwnerInv, Tasks
  <2>7. RoleInv'
    BY <1>0, <1>10 DEF StatusAnswered, Return, Goto, TypeOK, RoleInv, Tasks
  <2>8. OutcomeInv'
    BY <1>0, <1>10 DEF StatusAnswered, Return, Goto, TypeOK, OutcomeInv, Tasks
  <2>9. ExitIsTruthful'
    BY <1>0, <1>10 DEF StatusAnswered, Return, Goto, TypeOK, ExitIsTruthful, CloseInv,
       ClosedMeansTerminated, OutcomeInv, PendingInv, OwnerInv, Waiting, Requests, Tasks
  <2>10. SenderToldTheTruth'
    BY <1>0, <1>10 DEF StatusAnswered, Return, Goto, TypeOK, SenderToldTheTruth, AnswerInv,
       PendingInv, RoleInv, OnceInv, SenderInv, StartInv, OwnerInv, Waiting, Requests, Tasks
  <2>11. OnceInv' /\ PendingInv' /\ ClosedMeansTerminated'
    BY <1>0, <1>10 DEF StatusAnswered, OnceInv, PendingInv, ClosedMeansTerminated
  <2> QED BY <2>1, <2>2, <2>3, <2>4, <2>5, <2>6, <2>7, <2>8, <2>9, <2>10, <2>11 DEF IInv
<1>11. ASSUME NEW t \in Tasks, Close(t) PROVE IInv'
  <2>1. TypeOK'
    BY <1>0, <1>11 DEF Close, Aclose, CloseSession, EndOfClose, Return, Goto, Request,
       IsOpen, IsClosed, TypeOK, Waiting, Requests
  <2>2. SenderInv'
    BY <1>0, <1>11 DEF Close, Aclose, CloseSession, EndOfClose, Return, Goto, Request,
       IsOpen, IsClosed, TypeOK, SenderInv, OwnerInv, RoleInv, Waiting, Requests, Tasks
  <2>3. OnceInv'
    BY <1>0, <1>11 DEF Close, Aclose, CloseSession, EndOfClose, Return, Goto, Request,
       IsOpen, IsClosed, OnceInv
  <2>4. PendingInv'
    BY <1>0, <1>11 DEF Close, Aclose, CloseSession, EndOfClose, Return, Goto, Request,
       IsOpen, IsClosed, PendingInv
  <2>5. StartInv'
    BY <1>0, <1>11 DEF Close, Aclose, CloseSession, EndOfClose, Return, Goto, Request,
       IsOpen, IsClosed, TypeOK, StartInv, Tasks
  <2>6. CloseInv'
    BY <1>0, <1>11 DEF Close, Aclose, CloseSession, EndOfClose, Return, Goto, Request,
       IsOpen, IsClosed, TypeOK, CloseInv, Tasks
  <2>7. AnswerInv'
    BY <1>0, <1>11 DEF Close, Aclose, CloseSession, EndOfClose, Return, Goto, Request,
       IsOpen, IsClosed, TypeOK, AnswerInv, Tasks
  <2>8. OwnerInv'
    BY <1>0, <1>11 DEF Close, Aclose, CloseSession, EndOfClose, Return, Goto, Request,
       IsOpen, IsClosed, TypeOK, OwnerInv, Tasks
  <2>9. RoleInv'
    BY <1>0, <1>11 DEF Close, Aclose, CloseSession, EndOfClose, Return, Goto, Request,
       IsOpen, IsClosed, TypeOK, RoleInv, Tasks
  <2>10. OutcomeInv'
    BY <1>0, <1>11 DEF Close, Aclose, CloseSession, EndOfClose, Return, Goto, Request,
       IsOpen, IsClosed, TypeOK, OutcomeInv, Tasks
  <2>11. ExitIsTruthful'
    BY <1>0, <1>11 DEF Close, Aclose, CloseSession, EndOfClose, Return, Goto, Request,
       IsOpen, IsClosed, TypeOK, ExitIsTruthful, Tasks
  <2>12. SenderToldTheTruth'
    BY <1>0, <1>11 DEF Close, Aclose, CloseSession, EndOfClose, Return, Goto, Request,
       IsOpen, IsClosed, TypeOK, SenderToldTheTruth, Tasks
  <2>13. ClosedMeansTerminated'
    BY <1>0, <1>11 DEF Close, Aclose, CloseSession, ClosedMeansTerminated
  <2> QED BY <2>1, <2>2, <2>3, <2>4, <2>5, <2>6, <2>7, <2>8, <2>9, <2>10, <2>11, <2>12, <2>13 DEF IInv
<1>12. CASE BodyRaises
  <2>1. TypeOK'
    BY <1>0, <1>12 DEF BodyRaises, TypeOK, Waiting, Requests
  <2>2. OutcomeInv'
    BY <1>0, <1>12 DEF BodyRaises, TypeOK, OutcomeInv, Tasks
  <2>3. ExitIsTruthful'
    BY <1>0, <1>12 DEF BodyRaises, TypeOK, ExitIsTruthful, Tasks
  <2>4. SenderInv' /\ OnceInv' /\ PendingInv' /\ StartInv' /\ CloseInv' /\ AnswerInv' /\ OwnerInv' /\
       RoleInv' /\ ClosedMeansTerminated' /\ SenderToldTheTruth'
    BY <1>0, <1>12 DEF BodyRaises, SenderInv, OnceInv, PendingInv, StartInv, CloseInv,
       AnswerInv, OwnerInv, RoleInv, ClosedMeansTerminated, SenderToldTheTruth
  <2> QED BY <2>1, <2>2, <2>3, <2>4 DEF IInv
<1>13. CASE LeaveBlock
  <2>1. TypeOK'
    BY <1>0, <1>13 DEF LeaveBlock, Aclose, CloseSession, EndOfClose, Return, Goto, Request,
       IsOpen, IsClosed, TypeOK, Waiting, Requests, Tasks
  <2>2. SenderInv'
    BY <1>0, <1>13 DEF LeaveBlock, Aclose, CloseSession, EndOfClose, Return, Goto, Request,
       IsOpen, IsClosed, TypeOK, SenderInv, OwnerInv, RoleInv, Waiting, Requests, Tasks
  <2>3. OnceInv'
    BY <1>0, <1>13 DEF LeaveBlock, Aclose, CloseSession, EndOfClose, Return, Goto, Request,
       IsOpen, IsClosed, OnceInv
  <2>4. PendingInv'
    BY <1>0, <1>13 DEF LeaveBlock, Aclose, CloseSession, EndOfClose, Return, Goto, Request,
       IsOpen, IsClosed, PendingInv
  <2>5. StartInv'
    BY <1>0, <1>13 DEF LeaveBlock, Aclose, CloseSession, EndOfClose, Return, Goto, Request,
       IsOpen, IsClosed, TypeOK, StartInv, Tasks
  <2>6. CloseInv'
    BY <1>0, <1>13 DEF LeaveBlock, Aclose, CloseSession, EndOfClose, Return, Goto, Request,
       IsOpen, IsClosed, TypeOK, CloseInv, Tasks
  <2>7. AnswerInv'
    BY <1>0, <1>13 DEF LeaveBlock, Aclose, CloseSession, EndOfClose, Return, Goto, Request,
       IsOpen, IsClosed, TypeOK, AnswerInv, Tasks
  <2>8. OwnerInv'
    BY <1>0, <1>13 DEF LeaveBlock, Aclose, CloseSession, EndOfClose, Return, Goto, Request,
       IsOpen, IsClosed, TypeOK, OwnerInv, Tasks
  <2>9. RoleInv'
    BY <1>0, <1>13 DEF LeaveBlock, Aclose, CloseSession, EndOfClose, Return, Goto, Request,
       IsOpen, IsClosed, TypeOK, RoleInv, Tasks
  <2>10. OutcomeInv'
    BY <1>0, <1>13 DEF LeaveBlock, Aclose, CloseSession, EndOfClose, Return, Goto, Request,
       IsOpen, IsClosed, TypeOK, OutcomeInv, Tasks
  <2>11. ExitIsTruthful'
    BY <1>0, <1>13 DEF LeaveBlock, Aclose, CloseSession, EndOfClose, Return, Goto, Request,
       IsOpen, IsClosed, TypeOK, ExitIsTruthful, CloseInv, ClosedMeansTerminated,
       OutcomeInv, PendingInv, OwnerInv, Waiting, Requests, Tasks
  <2>12. SenderToldTheTruth'
    BY <1>0, <1>13 DEF LeaveBlock, Aclose, CloseSession, EndOfClose, Return, Goto, Request,
       IsOpen, IsClosed, TypeOK, SenderToldTheTruth, Tasks
  <2>13. ClosedMeansTerminated'
    BY <1>0, <1>13 DEF LeaveBlock, Aclose, CloseSession, ClosedMeansTerminated
  <2> QED BY <2>1, <2>2, <2>3, <2>4, <2>5, <2>6, <2>7, <2>8, <2>9, <2>10, <2>11, <2>12, <2>13 DEF IInv
<1>14. ASSUME NEW t \in Tasks, CloseAnswered(t) PROVE IInv'
  <2>1. TypeOK'
    BY <1>0, <1>14 DEF CloseAnswered, EndOfClose, Return, Goto, TypeOK, Waiting, Requests
  <2>2. SenderInv'
    BY <1>0, <1>14 DEF CloseAnswered, EndOfClose, Return, Goto, SenderInv
  <2>3. StartInv'
    BY <1>0, <1>14 DEF CloseAnswered, EndOfClose, Return, Goto, StartInv
  <2>4. CloseInv'
    BY <1>0, <1>14 DEF CloseAnswered, EndOfClose, Return, Goto, CloseInv
  <2>5. AnswerInv'
    BY <1>0, <1>14 DEF CloseAnswered, EndOfClose, Return, Goto, AnswerInv
  <2>6. OwnerInv'
    BY <1>0, <1>14 DEF CloseAnswered, EndOfClose, Return, Goto, OwnerInv
  <2>7. RoleInv'
    BY <1>0, <1>14 DEF CloseAnswered, EndOfClose, Return, Goto, RoleInv
  <2>8. OutcomeInv'
    BY <1>0, <1>14 DEF CloseAnswered, EndOfClose, Return, Goto, OutcomeInv
  <2>9. ClosedMeansTerminated'
    BY <1>0, <1>14 DEF CloseAnswered, EndOfClose, Return, Goto, TypeOK,
       ClosedMeansTerminated, CloseInv, PendingInv, OutcomeInv, Waiting, Requests, Tasks
  <2>10. ExitIsTruthful'
    BY <1>0, <1>14 DEF CloseAnswered, EndOfClose, Return, Goto, TypeOK, ExitIsTruthful,
       CloseInv, ClosedMeansTerminated, OutcomeInv, PendingInv, OwnerInv, Waiting, Requests,
       Tasks
  <2>11. SenderToldTheTruth'
    BY <1>0, <1>14 DEF CloseAnswered, EndOfClose, Return, Goto, SenderToldTheTruth
  <2>12. OnceInv' /\ PendingInv'
    BY <1>0, <1>14 DEF CloseAnswered, OnceInv, PendingInv
  <2> QED BY <2>1, <2>2, <2>3, <2>4, <2>5, <2>6, <2>7, <2>8, <2>9, <2>10, <2>11, <2>12 DEF IInv
<1>15. ASSUME NEW t \in Tasks, CloseRefused(t) PROVE IInv'
  <2>1. TypeOK'
    BY <1>0, <1>15 DEF CloseRefused, EndOfClose, Return, Goto, TypeOK, Waiting, Requests
  <2>2. SenderInv'
    BY <1>0, <1>15 DEF CloseRefused, EndOfClose, Return, Goto, SenderInv
  <2>3. StartInv'
    BY <1>0, <1>15 DEF CloseRefused, EndOfClose, Return, Goto, StartInv
  <2>4. CloseInv'
    BY <1>0, <1>15 DEF CloseRefused, EndOfClose, Return, Goto, CloseInv
  <2>5. AnswerInv'
    BY <1>0, <1>15 DEF CloseRefused, EndOfClose, Return, Goto, AnswerInv
  <2>6. OwnerInv'
    BY <1>0, <1>15 DEF CloseRefused, EndOfClose, Return, Goto, OwnerInv
  <2>7. RoleInv'
    BY <1>0, <1>15 DEF CloseRefused, EndOfClose, Return, Goto, RoleInv
  <2>8. OutcomeInv'
    BY <1>0, <1>15 DEF CloseRefused, EndOfClose, Return, Goto, OutcomeInv
  <2>9. ExitIsTruthful'
    BY <1>0, <1>15 DEF CloseRefused, EndOfClose, Return, Goto, TypeOK, ExitIsTruthful, Tasks
  <2>10. SenderToldTheTruth'
    BY <1>0, <1>15 DEF CloseRefused, EndOfClose, Return, Goto, TypeOK, SenderToldTheTruth,
       AnswerInv, PendingInv, RoleInv, OnceInv, SenderInv, StartInv, OwnerInv, Waiting,
       Requests, Tasks
  <2>11. OnceInv' /\ PendingInv' /\ ClosedMeansTerminated'
    BY <1>0, <1>15 DEF CloseRefused, OnceInv, PendingInv, ClosedMeansTerminated
  <2> QED BY <2>1, <2>2, <2>3, <2>4, <2>5, <2>6, <2>7, <2>8, <2>9, <2>10, <2>11 DEF IInv
<1>16. ASSUME NEW t \in Tasks, TransportFailure(t) PROVE IInv'
  <2>1. TypeOK'
    BY <1>0, <1>16 DEF TransportFailure, EndOfClose, Return, Goto, TypeOK, Waiting, Requests
  <2>2. SenderInv'
    BY <1>0, <1>16 DEF TransportFailure, EndOfClose, Return, Goto, TypeOK, SenderInv,
       OwnerInv, RoleInv, Waiting, Requests, Tasks
  <2>3. StartInv'
    BY <1>0, <1>16 DEF TransportFailure, EndOfClose, Return, Goto, TypeOK, StartInv, Tasks
  <2>4. CloseInv'
    BY <1>0, <1>16 DEF TransportFailure, EndOfClose, Return, Goto, TypeOK, CloseInv, Tasks
  <2>5. AnswerInv'
    BY <1>0, <1>16 DEF TransportFailure, EndOfClose, Return, Goto, TypeOK, AnswerInv, Tasks
  <2>6. OwnerInv'
    BY <1>0, <1>16 DEF TransportFailure, EndOfClose, Return, Goto, TypeOK, OwnerInv, Tasks
  <2>7. RoleInv'
    BY <1>0, <1>16 DEF TransportFailure, EndOfClose, Return, Goto, TypeOK, RoleInv, Tasks
  <2>8. OutcomeInv'
    BY <1>0, <1>16 DEF TransportFailure, EndOfClose, Return, Goto, TypeOK, OutcomeInv, Tasks
  <2>9. ExitIsTruthful'
    BY <1>0, <1>16 DEF TransportFailure, EndOfClose, Return, Goto, TypeOK, ExitIsTruthful,
       CloseInv, ClosedMeansTerminated, OutcomeInv, PendingInv, OwnerInv, Waiting, Requests,
       Tasks
  <2>10. SenderToldTheTruth'
    BY <1>0, <1>16 DEF TransportFailure, EndOfClose, Return, Goto, TypeOK,
       SenderToldTheTruth, AnswerInv, PendingInv, RoleInv, OnceInv, SenderInv, StartInv,
       OwnerInv, Waiting, Requests, Tasks
  <2>11. OnceInv' /\ PendingInv' /\ ClosedMeansTerminated'
    BY <1>0, <1>16 DEF TransportFailure, OnceInv, PendingInv, ClosedMeansTerminated
  <2> QED BY <2>1, <2>2, <2>3, <2>4, <2>5, <2>6, <2>7, <2>8, <2>9, <2>10, <2>11 DEF IInv
<1>17. ASSUME NEW t \in Tasks, Cancel(t) PROVE IInv'
  <2>1. TypeOK'
    BY <1>0, <1>17 DEF Cancel, Return, Goto, TypeOK, Waiting, Requests
  <2>2. SenderInv'
    BY <1>0, <1>17 DEF Cancel, Return, Goto, SenderInv
  <2>3. StartInv'
    BY <1>0, <1>17 DEF Cancel, Return, Goto, StartInv
  <2>4. CloseInv'
    BY <1>0, <1>17 DEF Cancel, Return, Goto, CloseInv
  <2>5. AnswerInv'
    BY <1>0, <1>17 DEF Cancel, Return, Goto, AnswerInv
  <2>6. OwnerInv'
    BY <1>0, <1>17 DEF Cancel, Return, Goto, OwnerInv
  <2>7. RoleInv'
    BY <1>0, <1>17 DEF Cancel, Return, Goto, RoleInv
  <2>8. OutcomeInv'
    BY <1>0, <1>17 DEF Cancel, Return, Goto, OutcomeInv
  <2>9. ExitIsTruthful'
    BY <1>0, <1>17 DEF Cancel, Return, Goto, TypeOK, ExitIsTruthful, Tasks
  <2>10. SenderToldTheTruth'
    BY <1>0, <1>17 DEF Cancel, Return, Goto, SenderToldTheTruth
  <2>11. OnceInv' /\ PendingInv' /\ ClosedMeansTerminated'
    BY <1>0, <1>17 DEF Cancel, OnceInv, PendingInv, ClosedMeansTerminated
  <2> QED BY <2>1, <2>2, <2>3, <2>4, <2>5, <2>6, <2>7, <2>8, <2>9, <2>10, <2>11 DEF IInv
<1>18. ASSUME NEW r \in network, KSeFOpens(r) PROVE IInv'
  <2>1. TypeOK'
    BY <1>0, <1>18 DEF KSeFOpens, Answer, WaitsFor, taskVars, TypeOK, Waiting, Requests
  <2>2. SenderInv'
    BY <1>0, <1>18 DEF KSeFOpens, Answer, WaitsFor, taskVars, SenderInv
  <2>3. OnceInv'
    BY <1>0, <1>18 DEF KSeFOpens, Answer, WaitsFor, taskVars, OnceInv
  <2>4. PendingInv'
    BY <1>0, <1>18 DEF KSeFOpens, Answer, WaitsFor, taskVars, TypeOK, PendingInv, SenderInv,
       OnceInv, StartInv, Waiting, Requests, Tasks
  <2>5. StartInv'
    BY <1>0, <1>18 DEF KSeFOpens, Answer, WaitsFor, taskVars, TypeOK, StartInv, PendingInv,
       SenderInv, Waiting, Requests, Tasks
  <2>6. CloseInv'
    BY <1>0, <1>18 DEF KSeFOpens, Answer, WaitsFor, taskVars, TypeOK, CloseInv, PendingInv,
       Waiting, Requests, Tasks
  <2>7. AnswerInv'
    BY <1>0, <1>18 DEF KSeFOpens, Answer, WaitsFor, taskVars, AnswerInv
  <2>8. ClosedMeansTerminated'
    BY <1>0, <1>18 DEF KSeFOpens, Answer, WaitsFor, taskVars, TypeOK, ClosedMeansTerminated,
       CloseInv, PendingInv, OutcomeInv, Waiting, Requests, Tasks
  <2>9. ExitIsTruthful'
    BY <1>0, <1>18 DEF KSeFOpens, Answer, WaitsFor, taskVars, TypeOK, ExitIsTruthful,
       CloseInv, ClosedMeansTerminated, OutcomeInv, PendingInv, OwnerInv, Waiting, Requests,
       Tasks
  <2>10. SenderToldTheTruth'
    BY <1>0, <1>18 DEF KSeFOpens, Answer, WaitsFor, taskVars, SenderToldTheTruth
  <2>11. OwnerInv' /\ RoleInv' /\ OutcomeInv'
    BY <1>0, <1>18 DEF KSeFOpens, taskVars, OwnerInv, RoleInv, OutcomeInv
  <2> QED BY <2>1, <2>2, <2>3, <2>4, <2>5, <2>6, <2>7, <2>8, <2>9, <2>10, <2>11 DEF IInv
<1>19. ASSUME NEW r \in network, KSeFAccepts(r) PROVE IInv'
  <2>1. TypeOK'
    BY <1>0, <1>19 DEF KSeFAccepts, Answer, WaitsFor, taskVars, TypeOK, SenderInv, Waiting,
       Requests, Tasks
  <2>2. SenderInv'
    BY <1>0, <1>19 DEF KSeFAccepts, Answer, WaitsFor, taskVars, SenderInv
  <2>3. OnceInv'
    BY <1>0, <1>19 DEF KSeFAccepts, Answer, WaitsFor, taskVars, OnceInv
  <2>4. PendingInv'
    BY <1>0, <1>19 DEF KSeFAccepts, Answer, WaitsFor, taskVars, TypeOK, PendingInv,
       SenderInv, OnceInv, StartInv, Waiting, Requests, Tasks
  <2>5. StartInv'
    BY <1>0, <1>19 DEF KSeFAccepts, Answer, WaitsFor, taskVars, TypeOK, StartInv,
       PendingInv, SenderInv, Waiting, Requests, Tasks
  <2>6. CloseInv'
    BY <1>0, <1>19 DEF KSeFAccepts, Answer, WaitsFor, taskVars, CloseInv
  <2>7. AnswerInv'
    BY <1>0, <1>19 DEF KSeFAccepts, Answer, WaitsFor, taskVars, TypeOK, AnswerInv,
       SenderInv, OnceInv, PendingInv, StartInv, RoleInv, Waiting, Requests, Tasks
  <2>8. SenderToldTheTruth'
    BY <1>0, <1>19 DEF KSeFAccepts, Answer, WaitsFor, taskVars, TypeOK, SenderToldTheTruth,
       AnswerInv, PendingInv, RoleInv, OnceInv, SenderInv, StartInv, OwnerInv, Waiting,
       Requests, Tasks
  <2>9. OwnerInv' /\ RoleInv' /\ OutcomeInv' /\ ClosedMeansTerminated' /\ ExitIsTruthful'
    BY <1>0, <1>19 DEF KSeFAccepts, taskVars, OwnerInv, RoleInv, OutcomeInv,
       ClosedMeansTerminated, ExitIsTruthful
  <2> QED BY <2>1, <2>2, <2>3, <2>4, <2>5, <2>6, <2>7, <2>8, <2>9 DEF IInv
<1>20. ASSUME NEW r \in network, KSeFTerminates(r) PROVE IInv'
  <2>1. TypeOK'
    BY <1>0, <1>20 DEF KSeFTerminates, Answer, WaitsFor, taskVars, TypeOK, Waiting, Requests
  <2>2. SenderInv'
    BY <1>0, <1>20 DEF KSeFTerminates, Answer, WaitsFor, taskVars, SenderInv
  <2>3. OnceInv'
    BY <1>0, <1>20 DEF KSeFTerminates, Answer, WaitsFor, taskVars, OnceInv
  <2>4. PendingInv'
    BY <1>0, <1>20 DEF KSeFTerminates, Answer, WaitsFor, taskVars, PendingInv
  <2>5. StartInv'
    BY <1>0, <1>20 DEF KSeFTerminates, Answer, WaitsFor, taskVars, StartInv
  <2>6. CloseInv'
    BY <1>0, <1>20 DEF KSeFTerminates, Answer, WaitsFor, taskVars, CloseInv
  <2>7. AnswerInv'
    BY <1>0, <1>20 DEF KSeFTerminates, Answer, WaitsFor, taskVars, AnswerInv
  <2>8. ClosedMeansTerminated'
    BY <1>0, <1>20 DEF KSeFTerminates, Answer, WaitsFor, taskVars, ClosedMeansTerminated
  <2>9. ExitIsTruthful'
    BY <1>0, <1>20 DEF KSeFTerminates, Answer, WaitsFor, taskVars, ExitIsTruthful
  <2>10. SenderToldTheTruth'
    BY <1>0, <1>20 DEF KSeFTerminates, Answer, WaitsFor, taskVars, SenderToldTheTruth
  <2>11. OwnerInv' /\ RoleInv' /\ OutcomeInv'
    BY <1>0, <1>20 DEF KSeFTerminates, taskVars, OwnerInv, RoleInv, OutcomeInv
  <2> QED BY <2>1, <2>2, <2>3, <2>4, <2>5, <2>6, <2>7, <2>8, <2>9, <2>10, <2>11 DEF IInv
<1>21. ASSUME NEW r \in network, KSeFShows(r) PROVE IInv'
  <2>1. TypeOK'
    BY <1>0, <1>21 DEF KSeFShows, Answer, WaitsFor, taskVars, TypeOK, SenderInv, Waiting,
       Requests, Tasks
  <2>2. SenderInv'
    BY <1>0, <1>21 DEF KSeFShows, Answer, WaitsFor, taskVars, SenderInv
  <2>3. OnceInv'
    BY <1>0, <1>21 DEF KSeFShows, Answer, WaitsFor, taskVars, OnceInv
  <2>4. PendingInv'
    BY <1>0, <1>21 DEF KSeFShows, Answer, WaitsFor, taskVars, PendingInv
  <2>5. CloseInv'
    BY <1>0, <1>21 DEF KSeFShows, Answer, WaitsFor, taskVars, CloseInv
  <2>6. AnswerInv'
    BY <1>0, <1>21 DEF KSeFShows, Answer, WaitsFor, taskVars, AnswerInv
  <2>7. SenderToldTheTruth'
    BY <1>0, <1>21 DEF KSeFShows, Answer, WaitsFor, taskVars, SenderToldTheTruth
  <2>8. StartInv' /\ OwnerInv' /\ RoleInv' /\ OutcomeInv' /\ ClosedMeansTerminated' /\ ExitIsTruthful'
    BY <1>0, <1>21 DEF KSeFShows, taskVars, StartInv, OwnerInv, RoleInv, OutcomeInv,
       ClosedMeansTerminated, ExitIsTruthful
  <2> QED BY <2>1, <2>2, <2>3, <2>4, <2>5, <2>6, <2>7, <2>8 DEF IInv
<1>22. ASSUME NEW r \in network, KSeFRefuses(r) PROVE IInv'
  <2>1. TypeOK'
    BY <1>0, <1>22 DEF KSeFRefuses, Answer, WaitsFor, taskVars, TypeOK, Waiting, Requests
  <2>2. SenderInv'
    BY <1>0, <1>22 DEF KSeFRefuses, Answer, WaitsFor, taskVars, SenderInv
  <2>3. OnceInv'
    BY <1>0, <1>22 DEF KSeFRefuses, Answer, WaitsFor, taskVars, OnceInv
  <2>4. PendingInv'
    BY <1>0, <1>22 DEF KSeFRefuses, Answer, WaitsFor, taskVars, PendingInv
  <2>5. CloseInv'
    BY <1>0, <1>22 DEF KSeFRefuses, Answer, WaitsFor, taskVars, CloseInv
  <2>6. AnswerInv'
    BY <1>0, <1>22 DEF KSeFRefuses, Answer, WaitsFor, taskVars, TypeOK, AnswerInv,
       SenderInv, OnceInv, PendingInv, StartInv, RoleInv, Waiting, Requests, Tasks
  <2>7. SenderToldTheTruth'
    BY <1>0, <1>22 DEF KSeFRefuses, Answer, WaitsFor, taskVars, SenderToldTheTruth
  <2>8. StartInv' /\ OwnerInv' /\ RoleInv' /\ OutcomeInv' /\ ClosedMeansTerminated' /\ ExitIsTruthful'
    BY <1>0, <1>22 DEF KSeFRefuses, taskVars, StartInv, OwnerInv, RoleInv, OutcomeInv,
       ClosedMeansTerminated, ExitIsTruthful
  <2> QED BY <2>1, <2>2, <2>3, <2>4, <2>5, <2>6, <2>7, <2>8 DEF IInv
<1>23. ASSUME NEW r \in network, RequestLost(r) PROVE IInv'
  <2>1. TypeOK'
    BY <1>0, <1>23 DEF RequestLost, taskVars, TypeOK, Waiting, Requests
  <2>2. SenderInv'
    BY <1>0, <1>23 DEF RequestLost, taskVars, SenderInv
  <2>3. OnceInv'
    BY <1>0, <1>23 DEF RequestLost, taskVars, OnceInv
  <2>4. PendingInv'
    BY <1>0, <1>23 DEF RequestLost, taskVars, PendingInv
  <2>5. AnswerInv'
    BY <1>0, <1>23 DEF RequestLost, taskVars, AnswerInv
  <2>6. SenderToldTheTruth'
    BY <1>0, <1>23 DEF RequestLost, taskVars, SenderToldTheTruth
  <2>7. StartInv' /\ CloseInv' /\ OwnerInv' /\ RoleInv' /\ OutcomeInv' /\ ClosedMeansTerminated' /\
       ExitIsTruthful'
    BY <1>0, <1>23 DEF RequestLost, taskVars, StartInv, CloseInv, OwnerInv, RoleInv,
       OutcomeInv, ClosedMeansTerminated, ExitIsTruthful
  <2> QED BY <2>1, <2>2, <2>3, <2>4, <2>5, <2>6, <2>7 DEF IInv
<1>24. ASSUME NEW t \in Senders, KSeFProcesses(t) PROVE IInv'
  <2>1. TypeOK'
    BY <1>0, <1>24 DEF KSeFProcesses, taskVars, TypeOK, Waiting, Requests
  <2>2. PendingInv'
    BY <1>0, <1>24 DEF KSeFProcesses, taskVars, PendingInv
  <2>3. StartInv'
    BY <1>0, <1>24 DEF KSeFProcesses, taskVars, StartInv
  <2>4. AnswerInv'
    BY <1>0, <1>24 DEF KSeFProcesses, taskVars, AnswerInv
  <2>5. SenderToldTheTruth'
    BY <1>0, <1>24 DEF KSeFProcesses, taskVars, SenderToldTheTruth
  <2>6. SenderInv' /\ OnceInv' /\ CloseInv' /\ OwnerInv' /\ RoleInv' /\ OutcomeInv' /\
       ClosedMeansTerminated' /\ ExitIsTruthful'
    BY <1>0, <1>24 DEF KSeFProcesses, taskVars, SenderInv, OnceInv, CloseInv, OwnerInv,
       RoleInv, OutcomeInv, ClosedMeansTerminated, ExitIsTruthful
  <2> QED BY <2>1, <2>2, <2>3, <2>4, <2>5, <2>6 DEF IInv
<1>25. CASE SessionExpires
  <2>1. TypeOK'
    BY <1>0, <1>25 DEF SessionExpires, taskVars, TypeOK, Waiting, Requests
  <2>2. PendingInv'
    BY <1>0, <1>25 DEF SessionExpires, taskVars, PendingInv
  <2>3. StartInv'
    BY <1>0, <1>25 DEF SessionExpires, taskVars, StartInv
  <2>4. CloseInv'
    BY <1>0, <1>25 DEF SessionExpires, taskVars, CloseInv
  <2>5. ClosedMeansTerminated'
    BY <1>0, <1>25 DEF SessionExpires, taskVars, ClosedMeansTerminated
  <2>6. ExitIsTruthful'
    BY <1>0, <1>25 DEF SessionExpires, taskVars, ExitIsTruthful
  <2>7. SenderInv' /\ OnceInv' /\ AnswerInv' /\ OwnerInv' /\ RoleInv' /\ OutcomeInv' /\
       SenderToldTheTruth'
    BY <1>0, <1>25 DEF SessionExpires, taskVars, SenderInv, OnceInv, AnswerInv, OwnerInv,
       RoleInv, OutcomeInv, SenderToldTheTruth
  <2> QED BY <2>1, <2>2, <2>3, <2>4, <2>5, <2>6, <2>7 DEF IInv
<1>26. CASE UNCHANGED vars
  BY <1>0, <1>26 DEF vars, IInv, TypeOK, SenderInv, OnceInv, PendingInv, StartInv, CloseInv,
     AnswerInv, OwnerInv, RoleInv, OutcomeInv, ClosedMeansTerminated, ExitIsTruthful,
     SenderToldTheTruth
<1> QED BY <1>1, <1>2, <1>3, <1>4, <1>5, <1>6, <1>7, <1>8, <1>9, <1>10, <1>11, <1>12, <1>13,
           <1>14, <1>15, <1>16, <1>17, <1>18, <1>19, <1>20, <1>21, <1>22, <1>23, <1>24,
           <1>25, <1>26
        DEF Next, TaskStep, KSeF, Terminated

LEMMA Invariance == Spec => []IInv
  BY InitInv, NextInv, PTL DEF Spec

(* Every variable keeps its type and a task has an outcome exactly when    *)
(* its call is over.                                                       *)
THEOREM TypeCorrect == Spec => []TypeOK
  BY Invariance, PTL DEF IInv

(* However many tasks close however many clients of a session, and         *)
(* whatever answers are lost: a client counts itself closed only when KSeF *)
(* has closed the session.                                                 *)
THEOREM ClosedIsTerminated == Spec => []ClosedMeansTerminated
  BY Invariance, PTL DEF IInv

(* A block left without an exception has closed its session; the exception *)
(* of a body is never hidden by the close.                                 *)
THEOREM ExitTellsTheTruth == Spec => []ExitIsTruthful
  BY Invariance, PTL DEF IInv

\* What a sender is told is true of its invoice, and stays true.
THEOREM SendersAreToldTheTruth == Spec => []SenderToldTheTruth
  BY Invariance, PTL DEF IInv

(* Once a client counts itself closed KSeF accepts no further invoice of   *)
(* the session: only an open session accepts, and a closed one is final.   *)
THEOREM ClosedIsFinal == Spec => ClosedSessionIsFinal
<1>1. IInv /\ [Next]_vars =>
        [(\E c \in Clients : client[c] = "closed")
           => \A t \in Senders : invoice[t] = "none" => invoice'[t] = "none"]_vars
  <2> SUFFICES ASSUME IInv, Next, NEW c \in Clients, client[c] = "closed",
                      NEW t \in Senders, invoice[t] = "none"
               PROVE  invoice'[t] = "none"
    OBVIOUS
  <2>1. session = "closed" /\ invoice \in [Senders -> {"none", "accepted", "ready", "failed"}]
    BY DEF IInv, ClosedMeansTerminated, TypeOK
  <2>2. CASE KSeF
    BY <2>1, <2>2 DEF KSeF, KSeFOpens, KSeFAccepts, KSeFTerminates, KSeFShows, KSeFRefuses,
       RequestLost, KSeFProcesses, SessionExpires
  <2>3. CASE OpenSession \/ SessionOpened \/ OpenRefused \/ LeaveBlock \/ BodyRaises
    BY <2>1, <2>3 DEF OpenSession, SessionOpened, OpenRefused, LeaveBlock, BodyRaises, Aclose
  <2>4. CASE \E d \in Clients : ResumeSession(d)
    BY <2>1, <2>4 DEF ResumeSession
  <2>5. ASSUME NEW u \in Tasks, TaskStep(u) PROVE invoice' = invoice
    BY <2>5 DEF TaskStep, SendInvoice, OperationOnClosedClient, SendAnswered, SendRefused,
       AskStatus, StatusAnswered, Close, Aclose, CloseAnswered, CloseRefused,
       TransportFailure, Cancel
  <2>6. CASE Terminated
    BY <2>1, <2>6 DEF Terminated, vars
  <2> QED BY <2>1, <2>2, <2>3, <2>4, <2>5, <2>6 DEF Next
<1> QED BY Invariance, <1>1, PTL DEF Spec, ClosedSessionIsFinal

(* A client that counts itself closed starts no request any more, also     *)
(* from another task that is in the middle of a wait.                      *)
THEOREM ClosedIsSilent == Spec => ClosedClientIsSilent
<1>1. IInv /\ [Next]_vars =>
        [\A t \in Tasks : IsClosed(t) =>
           \A r \in network' : r.task = t => r \in network]_vars
  <2> SUFFICES ASSUME IInv, Next, NEW t \in Tasks, IsClosed(t),
                      NEW r \in network', r.task = t
               PROVE  r \in network
    OBVIOUS
  <2>1. pc[Owner] = "new" => client[worksWith[t]] # "closed" \/ t # Owner
    BY DEF IInv, StartInv, ClosedMeansTerminated, TypeOK
  <2>2. CASE KSeF
    BY <2>2 DEF KSeF, KSeFOpens, KSeFAccepts, KSeFTerminates, KSeFShows, KSeFRefuses,
       RequestLost, KSeFProcesses, SessionExpires, Answer
  <2>3. CASE OpenSession
    BY <2>1, <2>3 DEF OpenSession, Request, IsClosed
  <2>4. CASE SessionOpened \/ OpenRefused \/ BodyRaises
    BY <2>4 DEF SessionOpened, OpenRefused, BodyRaises
  <2>5. CASE LeaveBlock
    BY <2>5 DEF LeaveBlock, Aclose, CloseSession, Request, IsOpen, IsClosed
  <2>6. CASE \E c \in Clients : ResumeSession(c)
    BY <2>6 DEF ResumeSession
  <2>7. ASSUME NEW u \in Tasks, TaskStep(u) PROVE r \in network
    BY <2>7 DEF TaskStep, SendInvoice, OperationOnClosedClient, SendAnswered, SendRefused,
       AskStatus, StatusAnswered, Close, Aclose, CloseSession, CloseAnswered, CloseRefused,
       TransportFailure, Cancel, Request, IsOpen, IsClosed
  <2>8. CASE Terminated
    BY <2>8 DEF Terminated, vars
  <2> QED BY <2>2, <2>3, <2>4, <2>5, <2>6, <2>7, <2>8 DEF Next
<1> QED BY Invariance, <1>1, PTL DEF Spec, ClosedClientIsSilent
=============================================================================
