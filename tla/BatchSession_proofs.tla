------------------------ MODULE BatchSession_proofs ------------------------
(***************************************************************************)
(* Proofs about BatchSession for packages of any size, any number of tasks *)
(* and clients and any number of uploads.  The inductive invariant relates *)
(* the part that is being uploaded to what the storage holds: every part   *)
(* before it is stored, and while it is the first upload no part after it  *)
(* has been sent.                                                          *)
(***************************************************************************)
EXTENDS BatchSession, TLAPS

-----------------------------------------------------------------------------
(* The package.                                                            *)

LEMMA PackageHasParts == NumParts \in Nat \ {0} /\ MaxUploads \in Nat
<1>1. PackageSize - 1 \in Nat /\ MaxPartSize \in Nat \ {0}
  BY PackageIsCut
<1>2. (PackageSize - 1) \div MaxPartSize \in Nat
  BY <1>1
<1> QED
  BY <1>2, UploadsAreCounted DEF NumParts

\* A part further on starts where the one before has ended.
LEMMA PartsFollow ==
  ASSUME NEW m \in Nat, NEW n \in Nat, m < n
  PROVE  Offset(m) + MaxPartSize <= Offset(n)
<1>1. MaxPartSize \in Nat
  BY PackageIsCut
<1>2. Offset(n) - Offset(m) = (n - m) * MaxPartSize
  BY <1>1 DEF Offset
<1>3. (n - m) * MaxPartSize >= 1 * MaxPartSize
  BY <1>1
<1> QED
  BY <1>1, <1>2, <1>3 DEF Offset

\* Every byte is in a part.
LEMMA EveryByte ==
  ASSUME NEW b \in Bytes
  PROVE  \E n \in Parts : b \in RawPart(n)
<1> DEFINE n == b \div MaxPartSize + 1
<1>1. b \in Nat /\ b <= PackageSize - 1 /\ MaxPartSize \in Nat \ {0} /\ PackageSize - 1 \in Nat
  BY PackageIsCut DEF Bytes
<1>2. /\ b \div MaxPartSize \in Nat
      /\ (b \div MaxPartSize) * MaxPartSize <= b
      /\ b < (b \div MaxPartSize) * MaxPartSize + MaxPartSize
  BY <1>1
<1>3. b \div MaxPartSize <= (PackageSize - 1) \div MaxPartSize
  BY <1>1
<1>4. n \in Parts
  BY <1>1, <1>2, <1>3 DEF Parts, NumParts
<1>5. Offset(n) = (b \div MaxPartSize) * MaxPartSize
  BY <1>2 DEF Offset
<1> QED
  BY <1>2, <1>4, <1>5 DEF RawPart

-----------------------------------------------------------------------------
\* Only the owner opens, as its first step, and always by the same request.
RequestInv ==
  \A r \in network :
    r.kind = "open" => r.task = Owner /\ pc[Owner] # "new"

\* The session has not been opened while the request is on its way.
PendingInv ==
  \A r \in network : r.kind = "open" => session = "none"

\* Nothing has happened before the session is asked for.
StartInv ==
  /\ pc[Owner] = "new" => session = "none"
  /\ pc[Owner] \in {"new", "opening"} => error = "none"

\* What the answer in hand says of the session.
CloseInv ==
  \A t \in Tasks : pc[t] = "closing" /\ reply[t] = "ok" => session = "processing"

\* Only a complete package is processed.
ProcessingInv == session = "processing" => stored = Parts

\* The parts before the one that is being uploaded are stored.
UploadInv ==
  pc[Owner] = "putting" =>
    /\ at \in Parts
    /\ \A n \in Parts : n < at => n \in stored
    /\ reply[Owner] = "ok" => at \in stored
    /\ error = "none"

\* The part n is neither stored nor on its way to the storage.
Absent(n) == n \notin stored /\ \A r \in network : r.kind = "put" => r.part # n

(* In the first upload the parts after the current one are absent, and the *)
(* current one when the storage has refused it; no part is sent twice.     *)
FirstUploadInv ==
  /\ uploads = 0 => (\A n \in Parts : Absent(n)) /\ pc[Owner] # "putting"
  /\ uploads = 1 /\ pc[Owner] = "putting" =>
       /\ \A n \in Parts : n > at => Absent(n)
       /\ reply[Owner] = "refused" => Absent(at)
  /\ uploads = 1 => \A r \in network : r.kind = "put" => r.part \notin stored

\* A first upload that a refusal has ended left a part out.
RefusedInv ==
  error = "refused" => uploads > 0 /\ (uploads = 1 => \E n \in Parts : Absent(n))

IInv ==
  /\ TypeOK
  /\ RequestInv
  /\ PendingInv
  /\ StartInv
  /\ CloseInv
  /\ ProcessingInv
  /\ UploadInv
  /\ FirstUploadInv
  /\ RefusedInv
  /\ ClosedMeansProcessing
  /\ SubmittedIsProcessing
  /\ CompleteMeansStored
  /\ RefusalHidesNothing

-----------------------------------------------------------------------------
\* A request to open is the only one of its kind, and so is a part's PUT.
LEMMA OneRequest ==
  ASSUME NEW r \in Requests, NEW s \in Requests, r.kind = s.kind,
         \/ r.kind = "put" /\ r.part = s.part
         \/ r.kind = "open" /\ r.task = s.task
  PROVE  r = s
  BY DEF Requests

\* A PUT of a part is a request.
LEMMA PutIsRequest ==
  ASSUME NEW n \in Parts
  PROVE  [task |-> Owner, kind |-> "put", part |-> n] \in Requests
  BY DEF Requests

LEMMA InitInv == Init => IInv
<1> SUFFICES ASSUME Init PROVE IInv
  OBVIOUS
<1> USE OwnerIsNoCloser, BlockHasAClient, PackageHasParts
<1>1. 0 \in 0..NumParts /\ 0 \in 0..MaxUploads /\ Owner \in Tasks
  BY DEF Tasks
<1>2. TypeOK
  BY <1>1 DEF Init, TypeOK
<1>3. \A n \in Parts : Absent(n)
  BY DEF Init, Absent
<1>4. RequestInv /\ PendingInv /\ StartInv /\ CloseInv /\ ProcessingInv /\ UploadInv
  BY <1>1 DEF Init, RequestInv, PendingInv, StartInv, CloseInv, ProcessingInv, UploadInv
<1>5. FirstUploadInv /\ RefusedInv
  BY <1>1, <1>3 DEF Init, FirstUploadInv, RefusedInv
<1>6. ClosedMeansProcessing /\ SubmittedIsProcessing /\ CompleteMeansStored
      /\ RefusalHidesNothing
  BY <1>1 DEF Init, ClosedMeansProcessing, SubmittedIsProcessing, CompleteMeansStored,
     RefusalHidesNothing
<1> QED BY <1>2, <1>4, <1>5, <1>6 DEF IInv

LEMMA NextInv == IInv /\ [Next]_vars => IInv'
<1> SUFFICES ASSUME IInv, [Next]_vars PROVE IInv'
  OBVIOUS
<1> USE OwnerIsNoCloser, BlockHasAClient, PackageHasParts
<1>0. /\ TypeOK /\ RequestInv /\ PendingInv /\ StartInv /\ CloseInv /\ ProcessingInv
      /\ UploadInv /\ FirstUploadInv /\ RefusedInv /\ ClosedMeansProcessing
      /\ SubmittedIsProcessing /\ CompleteMeansStored /\ RefusalHidesNothing
  BY DEF IInv
<1>1. CASE OpenSession
  <2>1. TypeOK'
    <3>1. Owner \in Tasks /\ [task |-> Owner, kind |-> "open"] \in Requests
      BY DEF Tasks, Requests
    <3> QED BY <1>0, <1>1, <3>1 DEF OpenSession, Goto, Send, ksefVars, TypeOK
  <2>2. RequestInv'
    BY <1>0, <1>1 DEF OpenSession, Goto, Send, ksefVars, TypeOK, RequestInv, Tasks, Parts
  <2>3. PendingInv'
    BY <1>0, <1>1 DEF OpenSession, Goto, Send, ksefVars, TypeOK, PendingInv, RequestInv,
       StartInv, Tasks, Parts
  <2>4. StartInv'
    BY <1>0, <1>1 DEF OpenSession, Goto, Send, ksefVars, StartInv
  <2>5. CloseInv'
    BY <1>0, <1>1 DEF OpenSession, Goto, Send, ksefVars, CloseInv
  <2>6. UploadInv'
    BY <1>0, <1>1 DEF OpenSession, Goto, Send, ksefVars, UploadInv
  <2>7. FirstUploadInv'
    BY <1>0, <1>1 DEF OpenSession, Goto, Send, ksefVars, FirstUploadInv, Absent
  <2>8. RefusedInv'
    BY <1>0, <1>1 DEF OpenSession, Goto, Send, ksefVars, RefusedInv, Absent
  <2>9. ProcessingInv' /\ ClosedMeansProcessing' /\ SubmittedIsProcessing' /\
       CompleteMeansStored' /\ RefusalHidesNothing'
    BY <1>0, <1>1 DEF OpenSession, Goto, Send, ksefVars, ProcessingInv,
       ClosedMeansProcessing, SubmittedIsProcessing, CompleteMeansStored,
       RefusalHidesNothing
  <2> QED BY <2>1, <2>2, <2>3, <2>4, <2>5, <2>6, <2>7, <2>8, <2>9 DEF IInv
<1>2. CASE SessionOpened
  <2>1. TypeOK'
    BY <1>0, <1>2 DEF SessionOpened, Goto, ksefVars, TypeOK, Requests, Tasks
  <2>2. RequestInv'
    BY <1>0, <1>2 DEF SessionOpened, Goto, ksefVars, RequestInv
  <2>3. StartInv'
    BY <1>0, <1>2 DEF SessionOpened, Goto, ksefVars, StartInv
  <2>4. CloseInv'
    BY <1>0, <1>2 DEF SessionOpened, Goto, ksefVars, CloseInv
  <2>5. UploadInv'
    BY <1>0, <1>2 DEF SessionOpened, Goto, ksefVars, UploadInv
  <2>6. FirstUploadInv'
    BY <1>0, <1>2 DEF SessionOpened, Goto, ksefVars, FirstUploadInv, Absent
  <2>7. ClosedMeansProcessing'
    BY <1>0, <1>2 DEF SessionOpened, Goto, ksefVars, ClosedMeansProcessing
  <2>8. PendingInv' /\ ProcessingInv' /\ RefusedInv' /\ SubmittedIsProcessing' /\
       CompleteMeansStored' /\ RefusalHidesNothing'
    BY <1>0, <1>2 DEF SessionOpened, Goto, ksefVars, PendingInv, ProcessingInv, RefusedInv,
       SubmittedIsProcessing, CompleteMeansStored, RefusalHidesNothing, Absent
  <2> QED BY <2>1, <2>2, <2>3, <2>4, <2>5, <2>6, <2>7, <2>8 DEF IInv
<1>3. CASE OpenFails
  <2>1. TypeOK'
    BY <1>0, <1>3 DEF OpenFails, Return, Goto, ksefVars, TypeOK, Requests, Tasks, Errors
  <2>2. RequestInv'
    BY <1>0, <1>3 DEF OpenFails, Return, Goto, ksefVars, TypeOK, RequestInv, Tasks, Parts
  <2>3. StartInv'
    BY <1>0, <1>3 DEF OpenFails, Return, Goto, ksefVars, TypeOK, StartInv, Tasks, Parts
  <2>4. CloseInv'
    BY <1>0, <1>3 DEF OpenFails, Return, Goto, ksefVars, TypeOK, CloseInv, Tasks, Parts
  <2>5. UploadInv'
    BY <1>0, <1>3 DEF OpenFails, Return, Goto, ksefVars, TypeOK, UploadInv, Tasks, Parts
  <2>6. FirstUploadInv'
    BY <1>0, <1>3 DEF OpenFails, Return, Goto, ksefVars, TypeOK, FirstUploadInv, Absent,
       Tasks, Parts
  <2>7. SubmittedIsProcessing'
    BY <1>0, <1>3 DEF OpenFails, Return, Goto, ksefVars, TypeOK, SubmittedIsProcessing,
       Tasks, Parts
  <2>8. RefusalHidesNothing'
    BY <1>0, <1>3 DEF OpenFails, Return, Goto, ksefVars, TypeOK, RefusalHidesNothing,
       StartInv, Tasks, Parts
  <2>9. PendingInv' /\ ProcessingInv' /\ RefusedInv' /\ ClosedMeansProcessing' /\
       CompleteMeansStored'
    BY <1>0, <1>3 DEF OpenFails, Return, Goto, ksefVars, PendingInv, ProcessingInv,
       RefusedInv, ClosedMeansProcessing, CompleteMeansStored, Absent
  <2> QED BY <2>1, <2>2, <2>3, <2>4, <2>5, <2>6, <2>7, <2>8, <2>9 DEF IInv
<1>4. ASSUME NEW c \in Clients, ResumeSession(c) PROVE IInv'
  <2>1. TypeOK'
    BY <1>0, <1>4 DEF ResumeSession, ksefVars, TypeOK, Requests, Tasks
  <2>2. ClosedMeansProcessing'
    BY <1>0, <1>4 DEF ResumeSession, ksefVars, ClosedMeansProcessing
  <2>3. RequestInv' /\ PendingInv' /\ StartInv' /\ CloseInv' /\ ProcessingInv' /\
       UploadInv' /\ FirstUploadInv' /\ RefusedInv' /\ SubmittedIsProcessing' /\
       CompleteMeansStored' /\ RefusalHidesNothing'
    BY <1>0, <1>4 DEF ResumeSession, ksefVars, RequestInv, PendingInv, StartInv, CloseInv,
       ProcessingInv, UploadInv, FirstUploadInv, RefusedInv, SubmittedIsProcessing,
       CompleteMeansStored, RefusalHidesNothing, Absent
  <2> QED BY <2>1, <2>2, <2>3 DEF IInv
<1>5. CASE UploadParts
  <2>1. TypeOK'
    <3>1. uploads + 1 \in 0..MaxUploads
      BY <1>0, <1>5 DEF UploadParts, TypeOK
    <3>2. CASE at' = 1 /\ PutPart(1)
      <4>1. 1 \in Parts /\ 1 \in 0..NumParts
        BY DEF Parts
      <4>2. [task |-> Owner, kind |-> "put", part |-> 1] \in Requests
        BY <4>1, PutIsRequest
      <4>3. error' = "none" \/ error' \in Errors
        BY <1>5 DEF UploadParts, BodyFails, Errors
      <4> QED BY <1>0, <1>5, <3>1, <3>2, <4>1, <4>2, <4>3 DEF UploadParts, PutPart, Goto, Send,
              ksefVars, TypeOK
    <3>3. CASE UNCHANGED <<at, network, reply>> /\ (BodyFails("client_closed") \/ BodyFails("validation"))
      BY <1>0, <1>5, <3>1, <3>3 DEF UploadParts, BodyFails, Goto, ksefVars, TypeOK, Errors
    <3> QED BY <1>5, <3>2, <3>3 DEF UploadParts, PutPart
  <2>2. RequestInv'
    BY <1>0, <1>5 DEF UploadParts, BodyFails, PutPart, IsClosed, Goto, Send, ksefVars,
       TypeOK, RequestInv, Tasks, Parts
  <2>3. PendingInv'
    BY <1>0, <1>5 DEF UploadParts, BodyFails, PutPart, IsClosed, Goto, Send, ksefVars,
       PendingInv
  <2>4. StartInv'
    BY <1>0, <1>5 DEF UploadParts, BodyFails, PutPart, IsClosed, Goto, Send, ksefVars,
       TypeOK, StartInv, Tasks, Parts
  <2>5. CloseInv'
    BY <1>0, <1>5 DEF UploadParts, BodyFails, PutPart, IsClosed, Goto, Send, ksefVars,
       TypeOK, CloseInv, Tasks, Parts
  <2>6. UploadInv'
    BY <1>0, <1>5 DEF UploadParts, BodyFails, PutPart, IsClosed, Goto, Send, ksefVars,
       TypeOK, UploadInv, Tasks, Parts
  <2>7. FirstUploadInv'
    BY <1>0, <1>5 DEF UploadParts, BodyFails, PutPart, IsClosed, Goto, Send, ksefVars,
       TypeOK, RequestInv, PendingInv, StartInv, CloseInv, ProcessingInv, UploadInv,
       FirstUploadInv, RefusedInv, ClosedMeansProcessing, SubmittedIsProcessing,
       CompleteMeansStored, RefusalHidesNothing, Absent, Requests, Tasks, Parts, Errors
  <2>8. RefusedInv'
    BY <1>0, <1>5 DEF UploadParts, BodyFails, PutPart, IsClosed, Goto, Send, ksefVars,
       RefusedInv, Absent
  <2>9. SubmittedIsProcessing'
    BY <1>0, <1>5 DEF UploadParts, BodyFails, PutPart, IsClosed, Goto, Send, ksefVars,
       TypeOK, SubmittedIsProcessing, Tasks, Parts
  <2>10. CompleteMeansStored'
    BY <1>0, <1>5 DEF UploadParts, BodyFails, PutPart, IsClosed, Goto, Send, ksefVars,
       CompleteMeansStored
  <2>11. RefusalHidesNothing'
    BY <1>0, <1>5 DEF UploadParts, BodyFails, PutPart, IsClosed, Goto, Send, ksefVars,
       TypeOK, RefusalHidesNothing, Tasks, Parts
  <2>12. ProcessingInv' /\ ClosedMeansProcessing'
    BY <1>0, <1>5 DEF UploadParts, BodyFails, PutPart, IsClosed, Goto, Send, ksefVars,
       ProcessingInv, ClosedMeansProcessing
  <2> QED BY <2>1, <2>2, <2>3, <2>4, <2>5, <2>6, <2>7, <2>8, <2>9, <2>10, <2>11, <2>12 DEF IInv
<1>6. CASE PartAnswered
  <2>1. TypeOK'
    <3>1. CASE at < NumParts
      <4>1. at + 1 \in Parts /\ at + 1 \in 0..NumParts
        BY <1>0, <1>6, <3>1 DEF TypeOK, Parts
      <4>2. [task |-> Owner, kind |-> "put", part |-> at + 1] \in Requests
        BY <4>1, PutIsRequest
      <4> QED BY <1>0, <1>6, <3>1, <4>1, <4>2 DEF PartAnswered, PutPart, Goto, Send, ksefVars, TypeOK
    <3>2. CASE ~(at < NumParts)
      BY <1>0, <1>6, <3>2 DEF PartAnswered, Goto, ksefVars, TypeOK
    <3> QED BY <3>1, <3>2
  <2>2. RequestInv'
    BY <1>0, <1>6 DEF PartAnswered, PutPart, Goto, Send, ksefVars, TypeOK, RequestInv,
       Tasks, Parts
  <2>3. PendingInv'
    BY <1>0, <1>6 DEF PartAnswered, PutPart, Goto, Send, ksefVars, PendingInv
  <2>4. StartInv'
    BY <1>0, <1>6 DEF PartAnswered, PutPart, Goto, Send, ksefVars, TypeOK, StartInv, Tasks,
       Parts
  <2>5. CloseInv'
    BY <1>0, <1>6 DEF PartAnswered, PutPart, Goto, Send, ksefVars, TypeOK, CloseInv, Tasks,
       Parts
  <2>6. UploadInv'
    BY <1>0, <1>6 DEF PartAnswered, PutPart, Goto, Send, ksefVars, TypeOK, UploadInv, Tasks,
       Parts
  <2>7. FirstUploadInv'
    BY <1>0, <1>6 DEF PartAnswered, PutPart, Goto, Send, ksefVars, TypeOK, FirstUploadInv,
       Absent, Tasks, Parts
  <2>8. RefusedInv'
    BY <1>0, <1>6 DEF PartAnswered, PutPart, Goto, Send, ksefVars, TypeOK, RefusedInv,
       FirstUploadInv, UploadInv, Absent, Tasks, Parts
  <2>9. CompleteMeansStored'
    <3>1. CASE at < NumParts
      BY <1>0, <1>6, <3>1 DEF PartAnswered, ksefVars, CompleteMeansStored
    <3>2. CASE ~(at < NumParts)
      <4>1. at = NumParts /\ at \in stored /\ \A n \in Parts : n < at => n \in stored
        BY <1>0, <1>6, <3>2 DEF PartAnswered, UploadInv, Parts
      <4>2. \A n \in Parts : n \in stored
        BY <4>1 DEF Parts
      <4>3. stored = Parts
        BY <1>0, <4>2 DEF TypeOK
      <4> QED BY <1>6, <4>3 DEF PartAnswered, ksefVars, CompleteMeansStored
    <3> QED BY <3>1, <3>2
  <2>10. ProcessingInv' /\ ClosedMeansProcessing' /\ SubmittedIsProcessing' /\
       RefusalHidesNothing'
    BY <1>0, <1>6 DEF PartAnswered, PutPart, Goto, Send, ksefVars, ProcessingInv,
       ClosedMeansProcessing, SubmittedIsProcessing, RefusalHidesNothing
  <2> QED BY <2>1, <2>2, <2>3, <2>4, <2>5, <2>6, <2>7, <2>8, <2>9, <2>10 DEF IInv
<1>7. CASE PartFails
  <2>1. TypeOK'
    BY <1>0, <1>7 DEF PartFails, BodyFails, Goto, ksefVars, TypeOK, Requests, Tasks, Errors
  <2>2. RequestInv'
    BY <1>0, <1>7 DEF PartFails, BodyFails, Goto, ksefVars, TypeOK, RequestInv, Tasks, Parts
  <2>3. StartInv'
    BY <1>0, <1>7 DEF PartFails, BodyFails, Goto, ksefVars, TypeOK, StartInv, Tasks, Parts
  <2>4. CloseInv'
    BY <1>0, <1>7 DEF PartFails, BodyFails, Goto, ksefVars, TypeOK, CloseInv, Tasks, Parts
  <2>5. UploadInv'
    BY <1>0, <1>7 DEF PartFails, BodyFails, Goto, ksefVars, TypeOK, UploadInv, Tasks, Parts
  <2>6. FirstUploadInv'
    BY <1>0, <1>7 DEF PartFails, BodyFails, Goto, ksefVars, FirstUploadInv, Absent
  <2>7. RefusedInv'
    BY <1>0, <1>7 DEF PartFails, BodyFails, Goto, ksefVars, TypeOK, RefusedInv,
       FirstUploadInv, UploadInv, Absent, Tasks, Parts
  <2>8. SubmittedIsProcessing'
    BY <1>0, <1>7 DEF PartFails, BodyFails, Goto, ksefVars, TypeOK, SubmittedIsProcessing,
       Tasks, Parts
  <2>9. RefusalHidesNothing'
    BY <1>0, <1>7 DEF PartFails, BodyFails, Goto, ksefVars, TypeOK, RefusalHidesNothing,
       Tasks, Parts
  <2>10. PendingInv' /\ ProcessingInv' /\ ClosedMeansProcessing' /\ CompleteMeansStored'
    BY <1>0, <1>7 DEF PartFails, BodyFails, Goto, ksefVars, PendingInv, ProcessingInv,
       ClosedMeansProcessing, CompleteMeansStored
  <2> QED BY <2>1, <2>2, <2>3, <2>4, <2>5, <2>6, <2>7, <2>8, <2>9, <2>10 DEF IInv
<1>8. CASE BodyRaises
  <2>1. TypeOK'
    BY <1>0, <1>8 DEF BodyRaises, BodyFails, Goto, ksefVars, TypeOK, Requests, Tasks, Errors
  <2>2. RequestInv'
    BY <1>0, <1>8 DEF BodyRaises, BodyFails, Goto, ksefVars, RequestInv
  <2>3. StartInv'
    BY <1>0, <1>8 DEF BodyRaises, BodyFails, Goto, ksefVars, StartInv
  <2>4. CloseInv'
    BY <1>0, <1>8 DEF BodyRaises, BodyFails, Goto, ksefVars, CloseInv
  <2>5. UploadInv'
    BY <1>0, <1>8 DEF BodyRaises, BodyFails, Goto, ksefVars, TypeOK, UploadInv, Tasks, Parts
  <2>6. FirstUploadInv'
    BY <1>0, <1>8 DEF BodyRaises, BodyFails, Goto, ksefVars, FirstUploadInv, Absent
  <2>7. RefusedInv'
    BY <1>0, <1>8 DEF BodyRaises, BodyFails, Goto, ksefVars, RefusedInv, Absent
  <2>8. SubmittedIsProcessing'
    BY <1>0, <1>8 DEF BodyRaises, BodyFails, Goto, ksefVars, TypeOK, SubmittedIsProcessing,
       Tasks, Parts
  <2>9. RefusalHidesNothing'
    BY <1>0, <1>8 DEF BodyRaises, BodyFails, Goto, ksefVars, TypeOK, RefusalHidesNothing,
       Tasks, Parts
  <2>10. PendingInv' /\ ProcessingInv' /\ ClosedMeansProcessing' /\ CompleteMeansStored'
    BY <1>0, <1>8 DEF BodyRaises, BodyFails, Goto, ksefVars, PendingInv, ProcessingInv,
       ClosedMeansProcessing, CompleteMeansStored
  <2> QED BY <2>1, <2>2, <2>3, <2>4, <2>5, <2>6, <2>7, <2>8, <2>9, <2>10 DEF IInv
<1>9. CASE LeaveBlock
  <2>1. TypeOK'
    BY <1>0, <1>9 DEF LeaveBlock, Aclose, CloseSession, EndOfClose, Return, Goto, Send,
       IsOpen, IsClosed, ksefVars, TypeOK, Requests, Tasks
  <2>2. RequestInv'
    BY <1>0, <1>9 DEF LeaveBlock, Aclose, CloseSession, EndOfClose, Return, Goto, Send,
       IsOpen, IsClosed, ksefVars, TypeOK, RequestInv, Tasks, Parts
  <2>3. PendingInv'
    BY <1>0, <1>9 DEF LeaveBlock, Aclose, CloseSession, EndOfClose, Return, Goto, Send,
       IsOpen, IsClosed, ksefVars, PendingInv
  <2>4. StartInv'
    BY <1>0, <1>9 DEF LeaveBlock, Aclose, CloseSession, EndOfClose, Return, Goto, Send,
       IsOpen, IsClosed, ksefVars, TypeOK, StartInv, Tasks, Parts
  <2>5. CloseInv'
    BY <1>0, <1>9 DEF LeaveBlock, Aclose, CloseSession, EndOfClose, Return, Goto, Send,
       IsOpen, IsClosed, ksefVars, TypeOK, CloseInv, Tasks, Parts
  <2>6. UploadInv'
    BY <1>0, <1>9 DEF LeaveBlock, Aclose, CloseSession, EndOfClose, Return, Goto, Send,
       IsOpen, IsClosed, ksefVars, TypeOK, UploadInv, Tasks, Parts
  <2>7. FirstUploadInv'
    BY <1>0, <1>9 DEF LeaveBlock, Aclose, CloseSession, EndOfClose, Return, Goto, Send,
       IsOpen, IsClosed, ksefVars, TypeOK, FirstUploadInv, Absent, Tasks, Parts
  <2>8. RefusedInv'
    BY <1>0, <1>9 DEF LeaveBlock, Aclose, CloseSession, EndOfClose, Return, Goto, Send,
       IsOpen, IsClosed, ksefVars, RefusedInv, Absent
  <2>9. SubmittedIsProcessing'
    BY <1>0, <1>9 DEF LeaveBlock, Aclose, CloseSession, EndOfClose, Return, Goto, Send,
       IsOpen, IsClosed, ksefVars, TypeOK, SubmittedIsProcessing, CloseInv, PendingInv,
       ClosedMeansProcessing, Tasks, Parts
  <2>10. RefusalHidesNothing'
    BY <1>0, <1>9 DEF LeaveBlock, Aclose, CloseSession, EndOfClose, Return, Goto, Send,
       IsOpen, IsClosed, ksefVars, TypeOK, RefusalHidesNothing, Tasks, Parts
  <2>11. ProcessingInv' /\ ClosedMeansProcessing' /\ CompleteMeansStored'
    BY <1>0, <1>9 DEF LeaveBlock, Aclose, CloseSession, EndOfClose, Return, Goto, Send,
       IsOpen, IsClosed, ksefVars, ProcessingInv, ClosedMeansProcessing, CompleteMeansStored
  <2> QED BY <2>1, <2>2, <2>3, <2>4, <2>5, <2>6, <2>7, <2>8, <2>9, <2>10, <2>11 DEF IInv
<1>10. ASSUME NEW t \in Tasks, Close(t) PROVE IInv'
  <2>1. TypeOK'
    BY <1>0, <1>10 DEF Close, Aclose, CloseSession, EndOfClose, Return, Goto, Send, IsOpen,
       IsClosed, ksefVars, TypeOK, Requests, Tasks
  <2>2. RequestInv'
    BY <1>0, <1>10 DEF Close, Aclose, CloseSession, EndOfClose, Return, Goto, Send, IsOpen,
       IsClosed, ksefVars, TypeOK, RequestInv, Tasks, Parts
  <2>3. PendingInv'
    BY <1>0, <1>10 DEF Close, Aclose, CloseSession, EndOfClose, Return, Goto, Send, IsOpen,
       IsClosed, ksefVars, PendingInv
  <2>4. StartInv'
    BY <1>0, <1>10 DEF Close, Aclose, CloseSession, EndOfClose, Return, Goto, Send, IsOpen,
       IsClosed, ksefVars, TypeOK, StartInv, Tasks, Parts
  <2>5. CloseInv'
    BY <1>0, <1>10 DEF Close, Aclose, CloseSession, EndOfClose, Return, Goto, Send, IsOpen,
       IsClosed, ksefVars, TypeOK, CloseInv, Tasks, Parts
  <2>6. UploadInv'
    BY <1>0, <1>10 DEF Close, Aclose, CloseSession, EndOfClose, Return, Goto, Send, IsOpen,
       IsClosed, ksefVars, TypeOK, UploadInv, Tasks, Parts
  <2>7. FirstUploadInv'
    BY <1>0, <1>10 DEF Close, Aclose, CloseSession, EndOfClose, Return, Goto, Send, IsOpen,
       IsClosed, ksefVars, TypeOK, FirstUploadInv, Absent, Tasks, Parts
  <2>8. RefusedInv'
    BY <1>0, <1>10 DEF Close, Aclose, CloseSession, EndOfClose, Return, Goto, Send, IsOpen,
       IsClosed, ksefVars, RefusedInv, Absent
  <2>9. SubmittedIsProcessing'
    BY <1>0, <1>10 DEF Close, Aclose, CloseSession, EndOfClose, Return, Goto, Send, IsOpen,
       IsClosed, ksefVars, TypeOK, SubmittedIsProcessing, Tasks, Parts
  <2>10. RefusalHidesNothing'
    BY <1>0, <1>10 DEF Close, Aclose, CloseSession, EndOfClose, Return, Goto, Send, IsOpen,
       IsClosed, ksefVars, TypeOK, RefusalHidesNothing, Tasks, Parts
  <2>11. ProcessingInv' /\ ClosedMeansProcessing' /\ CompleteMeansStored'
    BY <1>0, <1>10 DEF Close, Aclose, CloseSession, EndOfClose, Return, Goto, Send, IsOpen,
       IsClosed, ksefVars, ProcessingInv, ClosedMeansProcessing, CompleteMeansStored
  <2> QED BY <2>1, <2>2, <2>3, <2>4, <2>5, <2>6, <2>7, <2>8, <2>9, <2>10, <2>11 DEF IInv
<1>11. ASSUME NEW t \in Tasks, CloseAnswered(t) PROVE IInv'
  <2>1. TypeOK'
    BY <1>0, <1>11 DEF CloseAnswered, EndOfClose, Return, Goto, ksefVars, TypeOK, Requests,
       Tasks
  <2>2. RequestInv'
    BY <1>0, <1>11 DEF CloseAnswered, EndOfClose, Return, Goto, ksefVars, RequestInv
  <2>3. StartInv'
    BY <1>0, <1>11 DEF CloseAnswered, EndOfClose, Return, Goto, ksefVars, StartInv
  <2>4. CloseInv'
    BY <1>0, <1>11 DEF CloseAnswered, EndOfClose, Return, Goto, ksefVars, CloseInv
  <2>5. UploadInv'
    BY <1>0, <1>11 DEF CloseAnswered, EndOfClose, Return, Goto, ksefVars, UploadInv
  <2>6. FirstUploadInv'
    BY <1>0, <1>11 DEF CloseAnswered, EndOfClose, Return, Goto, ksefVars, FirstUploadInv,
       Absent
  <2>7. ClosedMeansProcessing'
    BY <1>0, <1>11 DEF CloseAnswered, EndOfClose, Return, Goto, ksefVars, TypeOK,
       ClosedMeansProcessing, CloseInv, PendingInv, Tasks, Parts
  <2>8. SubmittedIsProcessing'
    BY <1>0, <1>11 DEF CloseAnswered, EndOfClose, Return, Goto, ksefVars, TypeOK,
       SubmittedIsProcessing, CloseInv, PendingInv, ClosedMeansProcessing, Tasks, Parts
  <2>9. RefusalHidesNothing'
    BY <1>0, <1>11 DEF CloseAnswered, EndOfClose, Return, Goto, ksefVars,
       RefusalHidesNothing
  <2>10. PendingInv' /\ ProcessingInv' /\ RefusedInv' /\ CompleteMeansStored'
    BY <1>0, <1>11 DEF CloseAnswered, EndOfClose, Return, Goto, ksefVars, PendingInv,
       ProcessingInv, RefusedInv, CompleteMeansStored, Absent
  <2> QED BY <2>1, <2>2, <2>3, <2>4, <2>5, <2>6, <2>7, <2>8, <2>9, <2>10 DEF IInv
<1>12. ASSUME NEW t \in Tasks, CloseFails(t) PROVE IInv'
  <2>1. TypeOK'
    BY <1>0, <1>12 DEF CloseFails, EndOfClose, Return, Goto, ksefVars, TypeOK, Requests,
       Tasks, Errors
  <2>2. RequestInv'
    BY <1>0, <1>12 DEF CloseFails, EndOfClose, Return, Goto, ksefVars, TypeOK, RequestInv,
       Tasks, Parts
  <2>3. StartInv'
    BY <1>0, <1>12 DEF CloseFails, EndOfClose, Return, Goto, ksefVars, TypeOK, StartInv,
       Tasks, Parts
  <2>4. CloseInv'
    BY <1>0, <1>12 DEF CloseFails, EndOfClose, Return, Goto, ksefVars, TypeOK, CloseInv,
       Tasks, Parts
  <2>5. UploadInv'
    BY <1>0, <1>12 DEF CloseFails, EndOfClose, Return, Goto, ksefVars, TypeOK, UploadInv,
       Tasks, Parts
  <2>6. FirstUploadInv'
    BY <1>0, <1>12 DEF CloseFails, EndOfClose, Return, Goto, ksefVars, TypeOK,
       FirstUploadInv, Absent, Tasks, Parts
  <2>7. SubmittedIsProcessing'
    BY <1>0, <1>12 DEF CloseFails, EndOfClose, Return, Goto, ksefVars, TypeOK,
       SubmittedIsProcessing, Tasks, Parts
  <2>8. RefusalHidesNothing'
    BY <1>0, <1>12 DEF CloseFails, EndOfClose, Return, Goto, ksefVars, TypeOK,
       RefusalHidesNothing, Tasks, Parts
  <2>9. PendingInv' /\ ProcessingInv' /\ RefusedInv' /\ ClosedMeansProcessing' /\
       CompleteMeansStored'
    BY <1>0, <1>12 DEF CloseFails, EndOfClose, Return, Goto, ksefVars, PendingInv,
       ProcessingInv, RefusedInv, ClosedMeansProcessing, CompleteMeansStored, Absent
  <2> QED BY <2>1, <2>2, <2>3, <2>4, <2>5, <2>6, <2>7, <2>8, <2>9 DEF IInv
<1>13. ASSUME NEW t \in Tasks, Cancel(t) PROVE IInv'
  <2>1. TypeOK'
    BY <1>0, <1>13 DEF Cancel, Return, Goto, ksefVars, TypeOK, Requests, Tasks
  <2>2. RequestInv'
    BY <1>0, <1>13 DEF Cancel, Return, Goto, ksefVars, RequestInv
  <2>3. StartInv'
    BY <1>0, <1>13 DEF Cancel, Return, Goto, ksefVars, StartInv
  <2>4. CloseInv'
    BY <1>0, <1>13 DEF Cancel, Return, Goto, ksefVars, CloseInv
  <2>5. UploadInv'
    BY <1>0, <1>13 DEF Cancel, Return, Goto, ksefVars, UploadInv
  <2>6. FirstUploadInv'
    BY <1>0, <1>13 DEF Cancel, Return, Goto, ksefVars, FirstUploadInv, Absent
  <2>7. SubmittedIsProcessing'
    BY <1>0, <1>13 DEF Cancel, Return, Goto, ksefVars, SubmittedIsProcessing
  <2>8. RefusalHidesNothing'
    BY <1>0, <1>13 DEF Cancel, Return, Goto, ksefVars, RefusalHidesNothing
  <2>9. PendingInv' /\ ProcessingInv' /\ RefusedInv' /\ ClosedMeansProcessing' /\
       CompleteMeansStored'
    BY <1>0, <1>13 DEF Cancel, Return, Goto, ksefVars, PendingInv, ProcessingInv,
       RefusedInv, ClosedMeansProcessing, CompleteMeansStored, Absent
  <2> QED BY <2>1, <2>2, <2>3, <2>4, <2>5, <2>6, <2>7, <2>8, <2>9 DEF IInv
<1>14. ASSUME NEW r \in network, KSeFOpens(r) PROVE IInv'
  <2>1. TypeOK'
    BY <1>0, <1>14 DEF KSeFOpens, Answer, WaitsFor, TypeOK, Requests, Tasks
  <2>2. RequestInv'
    BY <1>0, <1>14 DEF KSeFOpens, Answer, WaitsFor, RequestInv
  <2>3. PendingInv'
    BY <1>0, <1>14, OneRequest DEF KSeFOpens, Answer, WaitsFor, TypeOK, RequestInv,
       PendingInv, StartInv, CloseInv, ProcessingInv, UploadInv, FirstUploadInv, RefusedInv,
       ClosedMeansProcessing, SubmittedIsProcessing, CompleteMeansStored,
       RefusalHidesNothing, Absent, Requests, Tasks, Parts, Errors
  <2>4. StartInv'
    BY <1>0, <1>14, OneRequest DEF KSeFOpens, Answer, WaitsFor, TypeOK, StartInv,
       PendingInv, RequestInv, Tasks, Parts
  <2>5. CloseInv'
    BY <1>0, <1>14 DEF KSeFOpens, Answer, WaitsFor, TypeOK, CloseInv, PendingInv, Tasks,
       Parts
  <2>6. ProcessingInv'
    BY <1>0, <1>14 DEF KSeFOpens, Answer, WaitsFor, ProcessingInv
  <2>7. UploadInv'
    BY <1>0, <1>14 DEF KSeFOpens, Answer, WaitsFor, UploadInv
  <2>8. FirstUploadInv'
    BY <1>0, <1>14 DEF KSeFOpens, Answer, WaitsFor, FirstUploadInv, Absent
  <2>9. RefusedInv'
    BY <1>0, <1>14 DEF KSeFOpens, Answer, WaitsFor, RefusedInv, Absent
  <2>10. ClosedMeansProcessing'
    BY <1>0, <1>14 DEF KSeFOpens, Answer, WaitsFor, TypeOK, ClosedMeansProcessing, CloseInv,
       PendingInv, Tasks, Parts
  <2>11. SubmittedIsProcessing'
    BY <1>0, <1>14 DEF KSeFOpens, Answer, WaitsFor, TypeOK, SubmittedIsProcessing, CloseInv,
       PendingInv, ClosedMeansProcessing, Tasks, Parts
  <2>12. CompleteMeansStored' /\ RefusalHidesNothing'
    BY <1>0, <1>14 DEF KSeFOpens, Answer, WaitsFor, CompleteMeansStored, RefusalHidesNothing
  <2> QED BY <2>1, <2>2, <2>3, <2>4, <2>5, <2>6, <2>7, <2>8, <2>9, <2>10, <2>11, <2>12 DEF IInv
<1>15. ASSUME NEW r \in network, StorageStores(r) PROVE IInv'
  <2>1. TypeOK'
    BY <1>0, <1>15 DEF StorageStores, Answer, WaitsFor, TypeOK, Requests, Tasks
  <2>2. RequestInv'
    BY <1>0, <1>15 DEF StorageStores, Answer, WaitsFor, RequestInv
  <2>3. PendingInv'
    BY <1>0, <1>15 DEF StorageStores, Answer, WaitsFor, PendingInv
  <2>4. CloseInv'
    BY <1>0, <1>15 DEF StorageStores, Answer, WaitsFor, CloseInv
  <2>5. ProcessingInv'
    BY <1>0, <1>15 DEF StorageStores, Answer, WaitsFor, TypeOK, RequestInv, PendingInv,
       StartInv, CloseInv, ProcessingInv, UploadInv, FirstUploadInv, RefusedInv,
       ClosedMeansProcessing, SubmittedIsProcessing, CompleteMeansStored,
       RefusalHidesNothing, Absent, Requests, Tasks, Parts, Errors
  <2>6. UploadInv'
    BY <1>0, <1>15 DEF StorageStores, Answer, WaitsFor, UploadInv
  <2>7. FirstUploadInv'
    BY <1>0, <1>15, OneRequest DEF StorageStores, Answer, WaitsFor, TypeOK, FirstUploadInv,
       RefusedInv, Absent, Tasks, Parts
  <2>8. RefusedInv'
    BY <1>0, <1>15 DEF StorageStores, Answer, WaitsFor, RefusedInv, Absent
  <2>9. CompleteMeansStored'
    BY <1>0, <1>15 DEF StorageStores, Answer, WaitsFor, TypeOK, RequestInv, PendingInv,
       StartInv, CloseInv, ProcessingInv, UploadInv, FirstUploadInv, RefusedInv,
       ClosedMeansProcessing, SubmittedIsProcessing, CompleteMeansStored,
       RefusalHidesNothing, Absent, Requests, Tasks, Parts, Errors
  <2>10. StartInv' /\ ClosedMeansProcessing' /\ SubmittedIsProcessing' /\
       RefusalHidesNothing'
    BY <1>0, <1>15 DEF StorageStores, Answer, WaitsFor, StartInv, ClosedMeansProcessing,
       SubmittedIsProcessing, RefusalHidesNothing
  <2> QED BY <2>1, <2>2, <2>3, <2>4, <2>5, <2>6, <2>7, <2>8, <2>9, <2>10 DEF IInv
<1>16. ASSUME NEW r \in network, KSeFCloses(r) PROVE IInv'
  <2>1. TypeOK'
    BY <1>0, <1>16 DEF KSeFCloses, Answer, WaitsFor, TypeOK, Requests, Tasks
  <2>2. RequestInv'
    BY <1>0, <1>16 DEF KSeFCloses, Answer, WaitsFor, RequestInv
  <2>3. PendingInv'
    BY <1>0, <1>16 DEF KSeFCloses, Answer, WaitsFor, PendingInv
  <2>4. StartInv'
    BY <1>0, <1>16 DEF KSeFCloses, Answer, WaitsFor, StartInv
  <2>5. CloseInv'
    BY <1>0, <1>16 DEF KSeFCloses, Answer, WaitsFor, CloseInv
  <2>6. ProcessingInv'
    BY <1>0, <1>16 DEF KSeFCloses, Answer, WaitsFor, ProcessingInv
  <2>7. UploadInv'
    BY <1>0, <1>16 DEF KSeFCloses, Answer, WaitsFor, UploadInv
  <2>8. FirstUploadInv'
    BY <1>0, <1>16 DEF KSeFCloses, Answer, WaitsFor, FirstUploadInv, Absent
  <2>9. RefusedInv'
    BY <1>0, <1>16 DEF KSeFCloses, Answer, WaitsFor, RefusedInv, Absent
  <2>10. ClosedMeansProcessing'
    BY <1>0, <1>16 DEF KSeFCloses, Answer, WaitsFor, ClosedMeansProcessing
  <2>11. SubmittedIsProcessing'
    BY <1>0, <1>16 DEF KSeFCloses, Answer, WaitsFor, SubmittedIsProcessing
  <2>12. CompleteMeansStored' /\ RefusalHidesNothing'
    BY <1>0, <1>16 DEF KSeFCloses, Answer, WaitsFor, CompleteMeansStored,
       RefusalHidesNothing
  <2> QED BY <2>1, <2>2, <2>3, <2>4, <2>5, <2>6, <2>7, <2>8, <2>9, <2>10, <2>11, <2>12 DEF IInv
<1>17. ASSUME NEW r \in network, Refuses(r) PROVE IInv'
  <2>1. TypeOK'
    BY <1>0, <1>17 DEF Refuses, Answer, WaitsFor, ksefVars, TypeOK, Requests, Tasks
  <2>2. RequestInv'
    BY <1>0, <1>17 DEF Refuses, Answer, WaitsFor, ksefVars, RequestInv
  <2>3. PendingInv'
    BY <1>0, <1>17 DEF Refuses, Answer, WaitsFor, ksefVars, PendingInv
  <2>4. CloseInv'
    BY <1>0, <1>17 DEF Refuses, Answer, WaitsFor, ksefVars, CloseInv
  <2>5. UploadInv'
    BY <1>0, <1>17 DEF Refuses, Answer, WaitsFor, ksefVars, UploadInv
  <2>6. FirstUploadInv'
    <3>1. network' = network \ {r} /\ stored' = stored /\ uploads' = uploads /\ pc' = pc /\ at' = at
      BY <1>17 DEF Refuses, Answer, ksefVars
    <3>2. \A n \in Parts : Absent(n) => Absent(n)'
      BY <3>1 DEF Absent
    <3>3. ASSUME uploads = 1, pc[Owner] = "putting", reply'[Owner] = "refused" PROVE Absent(at)'
      <4>1. CASE reply[Owner] = "refused"
        BY <1>0, <3>1, <3>3, <4>1 DEF FirstUploadInv, Absent
      <4>2. CASE reply[Owner] # "refused"
        <5>1. r.task = Owner /\ WaitsFor(r)
          BY <1>0, <1>17, <3>3, <4>2 DEF Refuses, Answer, TypeOK, Tasks
        <5>2. r.kind = "put" /\ r.part = at
          BY <3>3, <5>1 DEF WaitsFor
        <5>3. \A s \in network : s.kind = "put" /\ s.part = at => s = r
          BY <1>0, <5>2, OneRequest DEF TypeOK
        <5>4. at \notin stored
          BY <1>0, <3>3, <5>2 DEF FirstUploadInv
        <5> QED BY <3>1, <5>3, <5>4 DEF Absent
      <4> QED BY <4>1, <4>2
    <3>4. uploads = 1 => \A s \in network' : s.kind = "put" => s.part \notin stored
      BY <1>0, <3>1 DEF FirstUploadInv
    <3> QED BY <1>0, <3>1, <3>2, <3>3, <3>4 DEF FirstUploadInv
  <2>7. RefusedInv'
    BY <1>0, <1>17 DEF Refuses, Answer, WaitsFor, ksefVars, RefusedInv, Absent
  <2>8. StartInv' /\ ProcessingInv' /\ ClosedMeansProcessing' /\ SubmittedIsProcessing' /\
       CompleteMeansStored' /\ RefusalHidesNothing'
    BY <1>0, <1>17 DEF Refuses, Answer, WaitsFor, ksefVars, StartInv, ProcessingInv,
       ClosedMeansProcessing, SubmittedIsProcessing, CompleteMeansStored,
       RefusalHidesNothing
  <2> QED BY <2>1, <2>2, <2>3, <2>4, <2>5, <2>6, <2>7, <2>8 DEF IInv
<1>18. ASSUME NEW r \in network, RequestLost(r) PROVE IInv'
  <2>1. TypeOK'
    BY <1>0, <1>18 DEF RequestLost, ksefVars, TypeOK, Requests, Tasks
  <2>2. RequestInv'
    BY <1>0, <1>18 DEF RequestLost, ksefVars, RequestInv
  <2>3. PendingInv'
    BY <1>0, <1>18 DEF RequestLost, ksefVars, PendingInv
  <2>4. FirstUploadInv'
    BY <1>0, <1>18 DEF RequestLost, ksefVars, FirstUploadInv, Absent
  <2>5. RefusedInv'
    BY <1>0, <1>18 DEF RequestLost, ksefVars, RefusedInv, Absent
  <2>6. StartInv' /\ CloseInv' /\ ProcessingInv' /\ UploadInv' /\ ClosedMeansProcessing' /\
       SubmittedIsProcessing' /\ CompleteMeansStored' /\ RefusalHidesNothing'
    BY <1>0, <1>18 DEF RequestLost, ksefVars, StartInv, CloseInv, ProcessingInv, UploadInv,
       ClosedMeansProcessing, SubmittedIsProcessing, CompleteMeansStored,
       RefusalHidesNothing
  <2> QED BY <2>1, <2>2, <2>3, <2>4, <2>5, <2>6 DEF IInv
<1>19. CASE SessionTimesOut
  <2>1. TypeOK'
    BY <1>0, <1>19 DEF SessionTimesOut, TypeOK, Requests, Tasks
  <2>2. PendingInv'
    BY <1>0, <1>19 DEF SessionTimesOut, PendingInv
  <2>3. StartInv'
    BY <1>0, <1>19 DEF SessionTimesOut, StartInv
  <2>4. CloseInv'
    BY <1>0, <1>19 DEF SessionTimesOut, CloseInv
  <2>5. ProcessingInv'
    BY <1>0, <1>19 DEF SessionTimesOut, ProcessingInv
  <2>6. ClosedMeansProcessing'
    BY <1>0, <1>19 DEF SessionTimesOut, ClosedMeansProcessing
  <2>7. SubmittedIsProcessing'
    BY <1>0, <1>19 DEF SessionTimesOut, SubmittedIsProcessing
  <2>8. RequestInv' /\ UploadInv' /\ FirstUploadInv' /\ RefusedInv' /\
       CompleteMeansStored' /\ RefusalHidesNothing'
    BY <1>0, <1>19 DEF SessionTimesOut, RequestInv, UploadInv, FirstUploadInv, RefusedInv,
       CompleteMeansStored, RefusalHidesNothing, Absent
  <2> QED BY <2>1, <2>2, <2>3, <2>4, <2>5, <2>6, <2>7, <2>8 DEF IInv
<1>20. CASE UNCHANGED vars
  BY <1>0, <1>20 DEF vars, IInv, TypeOK, RequestInv, PendingInv, StartInv, CloseInv,
     ProcessingInv, UploadInv, FirstUploadInv, RefusedInv, ClosedMeansProcessing,
     SubmittedIsProcessing, CompleteMeansStored, RefusalHidesNothing, Absent
<1> QED BY <1>1, <1>2, <1>3, <1>4, <1>5, <1>6, <1>7, <1>8, <1>9, <1>10, <1>11, <1>12, <1>13,
           <1>14, <1>15, <1>16, <1>17, <1>18, <1>19, <1>20
        DEF Next, KSeF, Terminated

LEMMA Invariance == Spec => []IInv
  BY InitInv, NextInv, PTL DEF Spec

(* Every variable keeps its type and a task has an outcome exactly when    *)
(* its call is over.                                                       *)
THEOREM TypeCorrect == Spec => []TypeOK
  BY Invariance, PTL DEF IInv

(* A client counts itself closed only when KSeF processes the package,     *)
(* whoever else closes the session and whatever answers are lost.          *)
THEOREM ClosedIsProcessing == Spec => []ClosedMeansProcessing
  BY Invariance, PTL DEF IInv

(* submit_prepared_batch() returns only for a package that KSeF processes. *)
THEOREM SubmittedMeansProcessing == Spec => []SubmittedIsProcessing
  BY Invariance, PTL DEF IInv

(* When upload_parts() has returned, every part is stored.                 *)
THEOREM CompleteIsStored == Spec => []CompleteMeansStored
  BY Invariance, PTL DEF IInv

(* KSeF's refusal of the close is raised only when nothing else was.       *)
THEOREM BodyErrorComesFirst == Spec => []RefusalHidesNothing
  BY Invariance, PTL DEF IInv

(* A package whose only upload ended with a refused part is not processed, *)
(* however late its other requests arrive.                                 *)
THEOREM RefusedIsNotProcessed == Spec => []RefusedUploadIsNotProcessed
<1>1. IInv => RefusedUploadIsNotProcessed
  BY DEF IInv, RefusedInv, ProcessingInv, Absent, RefusedUploadIsNotProcessed
<1> QED BY Invariance, <1>1, PTL

(* What is processed is the package that was prepared, to the byte, for    *)
(* packages and parts of any size.                                         *)
THEOREM ProcessedIsWhole == Spec => []ProcessedIsThePackage
<1>1. IInv => ProcessedIsThePackage
  <2> SUFFICES ASSUME IInv, session = "processing" PROVE ProcessedIsThePackage
    BY DEF ProcessedIsThePackage
  <2>1. stored = Parts
    BY DEF IInv, ProcessingInv
  <2>2. \A b \in Bytes : \E n \in stored : b \in RawPart(n)
    BY <2>1, EveryByte
  <2>3. ASSUME NEW m \in stored, NEW n \in stored, m < n, NEW b \in RawPart(m), NEW c \in RawPart(n)
        PROVE  b < c
    <3>1. m \in Nat /\ n \in Nat
      BY <2>1 DEF Parts
    <3>2. Offset(m) + MaxPartSize <= Offset(n)
      BY <2>3, <3>1, PartsFollow
    <3>3. b \in Int /\ c \in Int /\ b < Offset(m) + MaxPartSize /\ Offset(n) <= c
      BY DEF RawPart, Bytes
    <3>4. Offset(m) \in Int /\ Offset(n) \in Int /\ MaxPartSize \in Int
      BY <3>1, PackageIsCut DEF Offset
    <3> QED
      BY <3>2, <3>3, <3>4
  <2>4. ASSUME NEW n \in stored, NEW b \in RawPart(n), NEW c \in RawPart(n)
        PROVE  c - b < MaxPartSize
    <3>1. Offset(n) \in Int /\ MaxPartSize \in Int
      BY <2>1, PackageIsCut DEF Parts, Offset
    <3>2. b \in Int /\ c \in Int /\ Offset(n) <= b /\ c < Offset(n) + MaxPartSize
      BY DEF RawPart, Bytes
    <3> QED
      BY <3>1, <3>2
  <2> QED
    BY <2>2, <2>3, <2>4 DEF ProcessedIsThePackage
<1> QED
  BY <1>1, Invariance, PTL
=============================================================================
