----------------------- MODULE TemporalTestData_proofs -----------------------
(***************************************************************************)
(* Proofs about TemporalTestData for any number of tasks, items and        *)
(* operations.  The inductive invariant says which requests can still      *)
(* change an item: those a task waits for, and those that were given up,   *)
(* whose items are set apart as doubtful.                                  *)
(***************************************************************************)
EXTENDS TemporalTestData, TLAPS

-----------------------------------------------------------------------------
Doubtful == abandoned \union overlapped

\* A request belongs to the task that waits for it; only the owner reverts.
WorkInv ==
  \A t \in Tasks : Busy(t) =>
    /\ work[t].task = t
    /\ work[t].kind = "revert" => t = Owner
    /\ phase = "body" => work[t].kind # "revert"
    /\ phase = "cleaning" => work[t].kind = "revert"
    /\ phase # "done"

\* A request on its way is one a task waits for, or its item is doubtful.
PendingInv ==
  \A r \in network : r.item \in Doubtful \/ work[r.task] = r

\* What is answered is not on its way any more.
ReplyInv ==
  \A t \in Tasks : reply[t] # "none" => work[t] \notin network

\* An item two tasks work on at once is doubtful.
OverlapInv ==
  \A t, u \in Tasks :
    t # u /\ Busy(t) /\ Busy(u) /\ work[t].item = work[u].item => work[t].item \in overlapped

\* What is being made is tracked.
MakeInv ==
  \A t \in Tasks :
    work[t].kind = "make" => work[t].item \in tracked \union Doubtful

\* What KSeF says is removed is not there; what it says will end, ends if it is there.
RemoveInv ==
  \A t \in Tasks :
    work[t].kind \in {"remove", "schedule", "revert"} /\ reply[t] = "ok" =>
      \/ work[t].item \notin exists
      \/ work[t].kind = "schedule" /\ work[t].item \in ending
      \/ work[t].item \in Doubtful

\* When the block has been left, what it made is still to be reverted, will end, or is logged.
CleanInv ==
  phase # "body" =>
    exists \intersect made \subseteq todo \union ending \union failed \union Doubtful

\* What no request can be built for is asked for by none, and is not there.
WellFormedInv ==
  /\ exists \intersect Malformed = {}
  /\ \A r \in network : r.item \notin Malformed

\* Only an item no request can be built for, or a cancellation, leaves something to be reverted.
StopInv ==
  /\ todo \subseteq tracked
  /\ phase = "body" => todo = {}
  /\ phase = "done" /\ ~cancelled =>
       \A i \in todo \ Malformed : \E m \in tracked \intersect Malformed : ComesBefore(m, i)

IInv ==
  /\ TypeOK /\ WorkInv /\ PendingInv /\ ReplyInv /\ OverlapInv /\ MakeInv /\ RemoveInv
  /\ CleanInv /\ WellFormedInv /\ StopInv /\ NothingIsForgotten

-----------------------------------------------------------------------------
\* A task that works on something has a request, and one that has not has none.
LEMMA WorkIsRequest ==
  ASSUME TypeOK, NEW t \in Tasks
  PROVE  /\ Busy(t) => work[t] \in Requests
                       /\ work[t].kind \in {"make", "remove", "schedule", "revert"}
                       /\ work[t].item \in Items /\ work[t].task \in Tasks
         /\ ~Busy(t) => work[t].kind = "none"
  BY DEF TypeOK, Busy, Requests, NoRequest

LEMMA InitInv == Init => IInv
<1> SUFFICES ASSUME Init PROVE IInv
  OBVIOUS
<1>1. TypeOK
  <2>1. {tracked, todo, failed, exists, ending, made, abandoned, overlapped} \subseteq SUBSET Items
    BY DEF Init
  <2>2. cancelled \in BOOLEAN
    BY DEF Init
  <2> QED
    BY <2>1, <2>2, OpsAreCounted DEF Init, TypeOK, Busy, NoRequest
<1>2. WorkInv /\ OverlapInv /\ MakeInv /\ RemoveInv
  BY DEF Init, WorkInv, OverlapInv, MakeInv, RemoveInv, Busy, NoRequest
<1>3. /\ PendingInv /\ ReplyInv /\ CleanInv /\ WellFormedInv /\ StopInv /\ NothingIsForgotten
  BY DEF Init, PendingInv, ReplyInv, CleanInv, WellFormedInv, StopInv, NothingIsForgotten
<1> QED
  BY <1>1, <1>2, <1>3 DEF IInv

LEMMA NextInv == IInv /\ [Next]_vars => IInv'
<1> SUFFICES ASSUME IInv, [Next]_vars PROVE IInv'
  OBVIOUS
<1> USE OwnerIsNoHelper, OpsAreCounted, MalformedAreItems
<1>a. Owner \in Tasks
  BY DEF Tasks
<1>0. /\ TypeOK /\ WorkInv /\ PendingInv /\ ReplyInv /\ OverlapInv /\ MakeInv /\ RemoveInv
      /\ CleanInv /\ WellFormedInv /\ StopInv /\ NothingIsForgotten
  BY DEF IInv
<1>1. ASSUME NEW t \in Tasks, NEW i \in Items, Make(t, i) PROVE IInv'
  <2>1. TypeOK'
    BY <1>0, <1>1 DEF Make, CanCall, Send, Track, NewRequest, Busy, cleanUpVars, ksefVars,
       TypeOK, Requests, NoRequest
  <2>2. WorkInv'
    BY <1>0, <1>1 DEF Make, CanCall, Send, Track, NewRequest, Busy, cleanUpVars, ksefVars,
       WorkInv
  <2>3. PendingInv'
    BY <1>0, <1>1 DEF Make, CanCall, Send, Track, NewRequest, Busy, cleanUpVars, ksefVars,
       TypeOK, PendingInv, Doubtful, Requests, NoRequest
  <2>4. ReplyInv'
    BY <1>0, <1>1, WorkIsRequest DEF Make, CanCall, Send, Track, NewRequest, Busy, cleanUpVars,
       ksefVars, TypeOK, ReplyInv, WorkInv, Requests, NoRequest
  <2>5. OverlapInv'
    BY <1>0, <1>1 DEF Make, CanCall, Send, Track, NewRequest, Busy, cleanUpVars, ksefVars,
       OverlapInv
  <2>6. MakeInv'
    BY <1>0, <1>1 DEF Make, CanCall, Send, Track, NewRequest, Busy, cleanUpVars, ksefVars,
       MakeInv, Doubtful, NoRequest
  <2>7. RemoveInv'
    BY <1>0, <1>1 DEF Make, CanCall, Send, Track, NewRequest, Busy, cleanUpVars, ksefVars,
       RemoveInv, Doubtful, NoRequest
  <2>8. CleanInv'
    BY <1>0, <1>1 DEF Make, CanCall, Send, Track, NewRequest, Busy, cleanUpVars, ksefVars,
       CleanInv, Doubtful
  <2>9. NothingIsForgotten'
    BY <1>0, <1>1 DEF Make, CanCall, Send, Track, NewRequest, Busy, cleanUpVars, ksefVars,
       NothingIsForgotten
  <2>10. WellFormedInv' /\ StopInv'
    BY <1>0, <1>1, <1>a DEF Make, CanCall, Send, Track, NewRequest, Busy, cleanUpVars, ksefVars,
       WellFormedInv, StopInv, ComesBefore, WorkInv, TypeOK, Requests, NoRequest
  <2> QED BY <2>1, <2>2, <2>3, <2>4, <2>5, <2>6, <2>7, <2>8, <2>9, <2>10 DEF IInv
<1>2. ASSUME NEW t \in Tasks, NEW i \in Items, Remove(t, i) PROVE IInv'
  <2>1. TypeOK'
    BY <1>0, <1>2 DEF Remove, CanCall, Send, NewRequest, Busy, cleanUpVars, ksefVars, TypeOK,
       Requests, NoRequest
  <2>2. WorkInv'
    BY <1>0, <1>2 DEF Remove, CanCall, Send, NewRequest, Busy, cleanUpVars, ksefVars, WorkInv
  <2>3. PendingInv'
    BY <1>0, <1>2 DEF Remove, CanCall, Send, NewRequest, Busy, cleanUpVars, ksefVars, TypeOK,
       PendingInv, Doubtful, Requests, NoRequest
  <2>4. ReplyInv'
    BY <1>0, <1>2, WorkIsRequest DEF Remove, CanCall, Send, NewRequest, Busy, cleanUpVars,
       ksefVars, TypeOK, ReplyInv, WorkInv, Requests, NoRequest
  <2>5. OverlapInv'
    BY <1>0, <1>2 DEF Remove, CanCall, Send, NewRequest, Busy, cleanUpVars, ksefVars, OverlapInv
  <2>6. MakeInv'
    BY <1>0, <1>2 DEF Remove, CanCall, Send, NewRequest, Busy, cleanUpVars, ksefVars, MakeInv,
       Doubtful, NoRequest
  <2>7. RemoveInv'
    BY <1>0, <1>2 DEF Remove, CanCall, Send, NewRequest, Busy, cleanUpVars, ksefVars, TypeOK,
       RemoveInv, Doubtful, NoRequest, Requests
  <2>8. CleanInv'
    BY <1>0, <1>2 DEF Remove, CanCall, Send, NewRequest, Busy, cleanUpVars, ksefVars, CleanInv,
       Doubtful
  <2>9. NothingIsForgotten'
    BY <1>0, <1>2 DEF Remove, CanCall, Send, NewRequest, Busy, cleanUpVars, ksefVars,
       NothingIsForgotten
  <2>10. WellFormedInv' /\ StopInv'
    BY <1>0, <1>2, <1>a DEF Remove, CanCall, Send, NewRequest, Busy, cleanUpVars, ksefVars,
       WellFormedInv, StopInv, ComesBefore, WorkInv, TypeOK, Requests, NoRequest
  <2> QED BY <2>1, <2>2, <2>3, <2>4, <2>5, <2>6, <2>7, <2>8, <2>9, <2>10 DEF IInv
<1>3. ASSUME NEW t \in Tasks, MakeSucceeds(t) PROVE IInv'
  <2>1. TypeOK'
    BY <1>0, <1>3 DEF MakeSucceeds, GoOn, cleanUpVars, ksefVars, TypeOK, Requests, Busy,
       NoRequest
  <2>2. WorkInv'
    BY <1>0, <1>3 DEF MakeSucceeds, GoOn, cleanUpVars, ksefVars, WorkInv, Busy
  <2>3. PendingInv'
    BY <1>0, <1>3, WorkIsRequest DEF MakeSucceeds, GoOn, cleanUpVars, ksefVars, TypeOK,
       PendingInv, ReplyInv, Doubtful, Requests, NoRequest, Busy
  <2>4. ReplyInv'
    BY <1>0, <1>3 DEF MakeSucceeds, GoOn, cleanUpVars, ksefVars, TypeOK, ReplyInv, Requests,
       NoRequest, Busy
  <2>5. OverlapInv'
    BY <1>0, <1>3 DEF MakeSucceeds, GoOn, cleanUpVars, ksefVars, OverlapInv, Busy
  <2>6. MakeInv'
    BY <1>0, <1>3 DEF MakeSucceeds, GoOn, cleanUpVars, ksefVars, MakeInv, Doubtful, NoRequest
  <2>7. RemoveInv'
    BY <1>0, <1>3 DEF MakeSucceeds, GoOn, cleanUpVars, ksefVars, RemoveInv, Doubtful, NoRequest
  <2>8. CleanInv' /\ NothingIsForgotten'
    BY <1>0, <1>3 DEF MakeSucceeds, GoOn, cleanUpVars, ksefVars, CleanInv, NothingIsForgotten,
       Doubtful
  <2>9. WellFormedInv' /\ StopInv'
    BY <1>0, <1>3, <1>a DEF MakeSucceeds, GoOn, cleanUpVars, ksefVars, WellFormedInv, StopInv,
       ComesBefore, WorkInv, TypeOK, Requests, NoRequest, Busy
  <2> QED BY <2>1, <2>2, <2>3, <2>4, <2>5, <2>6, <2>7, <2>8, <2>9 DEF IInv
<1>4. ASSUME NEW t \in Tasks, RemoveSucceeds(t) PROVE IInv'
  <2>1. TypeOK'
    BY <1>0, <1>4 DEF RemoveSucceeds, GoOn, cleanUpVars, ksefVars, TypeOK, Requests, Busy,
       NoRequest
  <2>2. WorkInv'
    BY <1>0, <1>4 DEF RemoveSucceeds, GoOn, cleanUpVars, ksefVars, WorkInv, Busy
  <2>3. PendingInv'
    BY <1>0, <1>4, WorkIsRequest DEF RemoveSucceeds, GoOn, cleanUpVars, ksefVars, TypeOK,
       PendingInv, ReplyInv, Doubtful, Requests, NoRequest, Busy
  <2>4. ReplyInv'
    BY <1>0, <1>4 DEF RemoveSucceeds, GoOn, cleanUpVars, ksefVars, TypeOK, ReplyInv, Requests,
       NoRequest, Busy
  <2>5. OverlapInv'
    BY <1>0, <1>4 DEF RemoveSucceeds, GoOn, cleanUpVars, ksefVars, OverlapInv, Busy
  <2>6. MakeInv'
    BY <1>0, <1>4, WorkIsRequest DEF RemoveSucceeds, GoOn, cleanUpVars, ksefVars, TypeOK,
       MakeInv, OverlapInv, WorkInv, Doubtful, NoRequest, Requests, Busy
  <2>7. RemoveInv'
    BY <1>0, <1>4 DEF RemoveSucceeds, GoOn, cleanUpVars, ksefVars, RemoveInv, Doubtful,
       NoRequest
  <2>8. NothingIsForgotten'
    BY <1>0, <1>4, WorkIsRequest DEF RemoveSucceeds, GoOn, cleanUpVars, ksefVars, TypeOK,
       NothingIsForgotten, RemoveInv, MakeInv, PendingInv, Requests, NoRequest, Busy,
       Doubtful
  <2>9. CleanInv'
    BY <1>0, <1>4 DEF RemoveSucceeds, GoOn, cleanUpVars, ksefVars, CleanInv, Doubtful
  <2>10. WellFormedInv' /\ StopInv'
    BY <1>0, <1>4, <1>a DEF RemoveSucceeds, GoOn, cleanUpVars, ksefVars, WellFormedInv, StopInv,
       ComesBefore, WorkInv, TypeOK, Requests, NoRequest, Busy
  <2> QED BY <2>1, <2>2, <2>3, <2>4, <2>5, <2>6, <2>7, <2>8, <2>9, <2>10 DEF IInv
<1>5. ASSUME NEW t \in Tasks, CallRefused(t) PROVE IInv'
  <2>1. TypeOK'
    BY <1>0, <1>5 DEF CallRefused, GoOn, cleanUpVars, ksefVars, TypeOK, Requests, Busy,
       NoRequest
  <2>2. WorkInv'
    BY <1>0, <1>5 DEF CallRefused, GoOn, cleanUpVars, ksefVars, WorkInv, Busy
  <2>3. PendingInv'
    BY <1>0, <1>5, WorkIsRequest DEF CallRefused, GoOn, cleanUpVars, ksefVars, TypeOK,
       PendingInv, ReplyInv, Doubtful, Requests, NoRequest, Busy
  <2>4. ReplyInv'
    BY <1>0, <1>5 DEF CallRefused, GoOn, cleanUpVars, ksefVars, TypeOK, ReplyInv, Requests,
       NoRequest, Busy
  <2>5. OverlapInv'
    BY <1>0, <1>5 DEF CallRefused, GoOn, cleanUpVars, ksefVars, OverlapInv, Busy
  <2>6. MakeInv'
    BY <1>0, <1>5 DEF CallRefused, GoOn, cleanUpVars, ksefVars, MakeInv, Doubtful, NoRequest
  <2>7. RemoveInv'
    BY <1>0, <1>5 DEF CallRefused, GoOn, cleanUpVars, ksefVars, RemoveInv, Doubtful, NoRequest
  <2>8. CleanInv' /\ NothingIsForgotten'
    BY <1>0, <1>5 DEF CallRefused, GoOn, cleanUpVars, ksefVars, CleanInv, NothingIsForgotten,
       Doubtful
  <2>9. WellFormedInv' /\ StopInv'
    BY <1>0, <1>5, <1>a DEF CallRefused, GoOn, cleanUpVars, ksefVars, WellFormedInv, StopInv,
       ComesBefore, WorkInv, TypeOK, Requests, NoRequest, Busy
  <2> QED BY <2>1, <2>2, <2>3, <2>4, <2>5, <2>6, <2>7, <2>8, <2>9 DEF IInv
<1>6. ASSUME NEW t \in Tasks, CallAbandoned(t) PROVE IInv'
  <2>1. TypeOK'
    BY <1>0, <1>6 DEF CallAbandoned, GoOn, GiveUp, Busy, cleanUpVars, ksefVars, TypeOK,
       Requests, NoRequest
  <2>2. WorkInv'
    BY <1>0, <1>6 DEF CallAbandoned, GoOn, GiveUp, Busy, cleanUpVars, ksefVars, WorkInv
  <2>3. PendingInv'
    BY <1>0, <1>6 DEF CallAbandoned, GoOn, GiveUp, Busy, cleanUpVars, ksefVars, PendingInv,
       Doubtful
  <2>4. ReplyInv'
    BY <1>0, <1>6 DEF CallAbandoned, GoOn, GiveUp, Busy, cleanUpVars, ksefVars, ReplyInv
  <2>5. OverlapInv'
    BY <1>0, <1>6 DEF CallAbandoned, GoOn, GiveUp, Busy, cleanUpVars, ksefVars, OverlapInv
  <2>6. MakeInv'
    BY <1>0, <1>6 DEF CallAbandoned, GoOn, GiveUp, Busy, cleanUpVars, ksefVars, MakeInv,
       Doubtful, NoRequest
  <2>7. RemoveInv'
    BY <1>0, <1>6 DEF CallAbandoned, GoOn, GiveUp, Busy, cleanUpVars, ksefVars, RemoveInv,
       Doubtful, NoRequest
  <2>8. CleanInv'
    BY <1>0, <1>6 DEF CallAbandoned, GoOn, GiveUp, Busy, cleanUpVars, ksefVars, CleanInv,
       Doubtful
  <2>9. NothingIsForgotten'
    BY <1>0, <1>6 DEF CallAbandoned, GoOn, GiveUp, Busy, cleanUpVars, ksefVars,
       NothingIsForgotten
  <2>10. WellFormedInv' /\ StopInv'
    BY <1>0, <1>6, <1>a DEF CallAbandoned, GoOn, GiveUp, Busy, cleanUpVars, ksefVars,
       WellFormedInv, StopInv, ComesBefore, WorkInv, TypeOK, Requests, NoRequest
  <2> QED BY <2>1, <2>2, <2>3, <2>4, <2>5, <2>6, <2>7, <2>8, <2>9, <2>10 DEF IInv
<1>7. CASE LeaveBlock
  <2>1. TypeOK'
    BY <1>0, <1>7 DEF LeaveBlock, ksefVars, TypeOK, Requests, Busy, NoRequest
  <2>2. WorkInv'
    BY <1>0, <1>7 DEF LeaveBlock, ksefVars, WorkInv, Busy
  <2>3. CleanInv'
    BY <1>0, <1>7, WorkIsRequest DEF LeaveBlock, ksefVars, TypeOK, CleanInv,
       NothingIsForgotten, RemoveInv, WorkInv, PendingInv, Doubtful, Requests, NoRequest,
       Busy
  <2>4. PendingInv' /\ ReplyInv' /\ OverlapInv' /\ MakeInv' /\ RemoveInv' /\
       NothingIsForgotten'
    BY <1>0, <1>7 DEF LeaveBlock, ksefVars, PendingInv, ReplyInv, OverlapInv, MakeInv,
       RemoveInv, NothingIsForgotten, Doubtful, Busy, NoRequest
  <2>5. WellFormedInv' /\ StopInv'
    BY <1>0, <1>7, <1>a DEF LeaveBlock, ksefVars, WellFormedInv, StopInv, ComesBefore, WorkInv,
       TypeOK, Requests, NoRequest, Busy
  <2> QED BY <2>1, <2>2, <2>3, <2>4, <2>5 DEF IInv
<1>8. ASSUME NEW i \in Items, Revert(i) PROVE IInv'
  <2>1. TypeOK'
    BY <1>0, <1>8, <1>a DEF Revert, IsNext, Send, Busy, cleanUpVars, ksefVars, TypeOK, Requests,
       NoRequest
  <2>2. WorkInv'
    BY <1>0, <1>8, <1>a DEF Revert, IsNext, Send, Busy, cleanUpVars, ksefVars, WorkInv
  <2>3. PendingInv'
    BY <1>0, <1>8, <1>a DEF Revert, IsNext, Send, Busy, cleanUpVars, ksefVars, TypeOK,
       PendingInv, Doubtful, Requests, NoRequest
  <2>4. ReplyInv'
    BY <1>0, <1>8, <1>a, WorkIsRequest DEF Revert, IsNext, Send, Busy, cleanUpVars, ksefVars,
       TypeOK, ReplyInv, WorkInv, Requests, NoRequest
  <2>5. OverlapInv'
    BY <1>0, <1>8, <1>a DEF Revert, IsNext, Send, Busy, cleanUpVars, ksefVars, OverlapInv
  <2>6. MakeInv'
    BY <1>0, <1>8, <1>a DEF Revert, IsNext, Send, Busy, cleanUpVars, ksefVars, MakeInv,
       Doubtful, NoRequest
  <2>7. RemoveInv'
    BY <1>0, <1>8, <1>a DEF Revert, IsNext, Send, Busy, cleanUpVars, ksefVars, TypeOK,
       RemoveInv, Doubtful, NoRequest, Requests
  <2>8. CleanInv'
    BY <1>0, <1>8, <1>a DEF Revert, IsNext, Send, Busy, cleanUpVars, ksefVars, CleanInv,
       Doubtful
  <2>9. NothingIsForgotten'
    BY <1>0, <1>8, <1>a DEF Revert, IsNext, Send, Busy, cleanUpVars, ksefVars,
       NothingIsForgotten
  <2>10. WellFormedInv' /\ StopInv'
    BY <1>0, <1>8, <1>a DEF Revert, IsNext, Send, Busy, cleanUpVars, ksefVars, WellFormedInv,
       StopInv, ComesBefore, WorkInv, TypeOK, Requests, NoRequest
  <2> QED BY <2>1, <2>2, <2>3, <2>4, <2>5, <2>6, <2>7, <2>8, <2>9, <2>10 DEF IInv
<1>9. CASE RevertSucceeds
  <2>1. TypeOK'
    BY <1>0, <1>9, <1>a DEF RevertSucceeds, GoOn, ksefVars, TypeOK, Requests, Busy, NoRequest
  <2>2. WorkInv'
    BY <1>0, <1>9, <1>a DEF RevertSucceeds, GoOn, ksefVars, WorkInv, Busy
  <2>3. PendingInv'
    BY <1>0, <1>9, <1>a, WorkIsRequest DEF RevertSucceeds, GoOn, ksefVars, TypeOK, PendingInv,
       ReplyInv, Doubtful, Requests, NoRequest, Busy
  <2>4. ReplyInv'
    BY <1>0, <1>9, <1>a DEF RevertSucceeds, GoOn, ksefVars, TypeOK, ReplyInv, Requests,
       NoRequest, Busy
  <2>5. OverlapInv'
    BY <1>0, <1>9, <1>a DEF RevertSucceeds, GoOn, ksefVars, OverlapInv, Busy
  <2>6. MakeInv'
    BY <1>0, <1>9, <1>a DEF RevertSucceeds, GoOn, ksefVars, MakeInv, Doubtful, NoRequest
  <2>7. RemoveInv'
    BY <1>0, <1>9, <1>a DEF RevertSucceeds, GoOn, ksefVars, RemoveInv, Doubtful, NoRequest
  <2>8. CleanInv'
    BY <1>0, <1>9, <1>a, WorkIsRequest DEF RevertSucceeds, GoOn, ksefVars, TypeOK, CleanInv,
       NothingIsForgotten, RemoveInv, WorkInv, PendingInv, Doubtful, Requests, NoRequest,
       Busy
  <2>9. NothingIsForgotten'
    BY <1>0, <1>9 DEF RevertSucceeds, GoOn, ksefVars, NothingIsForgotten
  <2>10. WellFormedInv' /\ StopInv'
    BY <1>0, <1>9, <1>a DEF RevertSucceeds, GoOn, ksefVars, WellFormedInv, StopInv, ComesBefore,
       WorkInv, TypeOK, Requests, NoRequest, Busy
  <2> QED BY <2>1, <2>2, <2>3, <2>4, <2>5, <2>6, <2>7, <2>8, <2>9, <2>10 DEF IInv
<1>10. CASE RevertRefused
  <2>1. TypeOK'
    BY <1>0, <1>10, <1>a DEF RevertRefused, GoOn, ksefVars, TypeOK, Requests, Busy, NoRequest
  <2>2. WorkInv'
    BY <1>0, <1>10, <1>a DEF RevertRefused, GoOn, ksefVars, WorkInv, Busy
  <2>3. PendingInv'
    BY <1>0, <1>10, <1>a, WorkIsRequest DEF RevertRefused, GoOn, ksefVars, TypeOK, PendingInv,
       ReplyInv, Doubtful, Requests, NoRequest, Busy
  <2>4. ReplyInv'
    BY <1>0, <1>10, <1>a DEF RevertRefused, GoOn, ksefVars, TypeOK, ReplyInv, Requests,
       NoRequest, Busy
  <2>5. OverlapInv'
    BY <1>0, <1>10, <1>a DEF RevertRefused, GoOn, ksefVars, OverlapInv, Busy
  <2>6. MakeInv'
    BY <1>0, <1>10, <1>a DEF RevertRefused, GoOn, ksefVars, MakeInv, Doubtful, NoRequest
  <2>7. RemoveInv'
    BY <1>0, <1>10, <1>a DEF RevertRefused, GoOn, ksefVars, RemoveInv, Doubtful, NoRequest
  <2>8. CleanInv'
    BY <1>0, <1>10, <1>a DEF RevertRefused, GoOn, ksefVars, CleanInv, Doubtful
  <2>9. NothingIsForgotten'
    BY <1>0, <1>10 DEF RevertRefused, GoOn, ksefVars, NothingIsForgotten
  <2>10. WellFormedInv' /\ StopInv'
    BY <1>0, <1>10, <1>a DEF RevertRefused, GoOn, ksefVars, WellFormedInv, StopInv, ComesBefore,
       WorkInv, TypeOK, Requests, NoRequest, Busy
  <2> QED BY <2>1, <2>2, <2>3, <2>4, <2>5, <2>6, <2>7, <2>8, <2>9, <2>10 DEF IInv
<1>11. CASE RevertAbandoned
  <2>1. TypeOK'
    BY <1>0, <1>11, <1>a DEF RevertAbandoned, GoOn, ksefVars, GiveUp, Busy, TypeOK, Requests,
       NoRequest
  <2>2. WorkInv'
    BY <1>0, <1>11, <1>a DEF RevertAbandoned, GoOn, ksefVars, GiveUp, Busy, WorkInv
  <2>3. PendingInv'
    BY <1>0, <1>11, <1>a DEF RevertAbandoned, GoOn, ksefVars, GiveUp, Busy, PendingInv, Doubtful
  <2>4. ReplyInv'
    BY <1>0, <1>11, <1>a DEF RevertAbandoned, GoOn, ksefVars, GiveUp, Busy, ReplyInv
  <2>5. OverlapInv'
    BY <1>0, <1>11, <1>a DEF RevertAbandoned, GoOn, ksefVars, GiveUp, Busy, OverlapInv
  <2>6. MakeInv'
    BY <1>0, <1>11, <1>a DEF RevertAbandoned, GoOn, ksefVars, GiveUp, Busy, MakeInv, Doubtful,
       NoRequest
  <2>7. RemoveInv'
    BY <1>0, <1>11, <1>a DEF RevertAbandoned, GoOn, ksefVars, GiveUp, Busy, RemoveInv, Doubtful,
       NoRequest
  <2>8. CleanInv'
    BY <1>0, <1>11, <1>a DEF RevertAbandoned, GoOn, ksefVars, GiveUp, Busy, CleanInv, Doubtful
  <2>9. NothingIsForgotten'
    BY <1>0, <1>11, <1>a DEF RevertAbandoned, GoOn, ksefVars, GiveUp, Busy, NothingIsForgotten
  <2>10. WellFormedInv' /\ StopInv'
    BY <1>0, <1>11, <1>a DEF RevertAbandoned, GoOn, ksefVars, GiveUp, Busy, WellFormedInv,
       StopInv, ComesBefore, WorkInv, TypeOK, Requests, NoRequest
  <2> QED BY <2>1, <2>2, <2>3, <2>4, <2>5, <2>6, <2>7, <2>8, <2>9, <2>10 DEF IInv
<1>12. CASE Exit
  <2>1. TypeOK'
    BY <1>0, <1>12, <1>a DEF Exit, ksefVars, TypeOK, Requests, Busy, NoRequest
  <2>2. WorkInv'
    BY <1>0, <1>12, <1>a DEF Exit, ksefVars, WorkInv, Busy
  <2>3. CleanInv'
    BY <1>0, <1>12, <1>a DEF Exit, ksefVars, CleanInv, Doubtful
  <2>4. PendingInv' /\ ReplyInv' /\ OverlapInv' /\ MakeInv' /\ RemoveInv' /\
       NothingIsForgotten'
    BY <1>0, <1>12 DEF Exit, ksefVars, PendingInv, ReplyInv, OverlapInv, MakeInv, RemoveInv,
       NothingIsForgotten, Doubtful, Busy, NoRequest
  <2>5. WellFormedInv' /\ StopInv'
    BY <1>0, <1>12, <1>a DEF Exit, ksefVars, WellFormedInv, StopInv, ComesBefore, WorkInv,
       TypeOK, Requests, NoRequest, Busy
  <2> QED BY <2>1, <2>2, <2>3, <2>4, <2>5 DEF IInv
<1>13. CASE Cancel
  <2>1. TypeOK'
    BY <1>0, <1>13, <1>a DEF Cancel, GoOn, ksefVars, GiveUp, Busy, TypeOK, Requests, NoRequest
  <2>2. WorkInv'
    BY <1>0, <1>13, <1>a DEF Cancel, GoOn, ksefVars, GiveUp, Busy, TypeOK, WorkInv, Requests,
       NoRequest
  <2>3. PendingInv'
    BY <1>0, <1>13, <1>a DEF Cancel, GoOn, ksefVars, GiveUp, Busy, PendingInv, Doubtful
  <2>4. ReplyInv'
    BY <1>0, <1>13, <1>a DEF Cancel, GoOn, ksefVars, GiveUp, Busy, TypeOK, ReplyInv, Requests,
       NoRequest
  <2>5. OverlapInv'
    BY <1>0, <1>13, <1>a DEF Cancel, GoOn, ksefVars, GiveUp, Busy, OverlapInv
  <2>6. MakeInv'
    BY <1>0, <1>13, <1>a DEF Cancel, GoOn, ksefVars, GiveUp, Busy, MakeInv, Doubtful, NoRequest
  <2>7. RemoveInv'
    BY <1>0, <1>13, <1>a DEF Cancel, GoOn, ksefVars, GiveUp, Busy, RemoveInv, Doubtful,
       NoRequest
  <2>8. CleanInv'
    BY <1>0, <1>13, <1>a DEF Cancel, GoOn, ksefVars, GiveUp, Busy, CleanInv, Doubtful
  <2>9. NothingIsForgotten'
    BY <1>0, <1>13, <1>a DEF Cancel, GoOn, ksefVars, GiveUp, Busy, NothingIsForgotten
  <2>10. WellFormedInv' /\ StopInv'
    BY <1>0, <1>13, <1>a DEF Cancel, GoOn, ksefVars, GiveUp, Busy, WellFormedInv, StopInv,
       ComesBefore, WorkInv, TypeOK, Requests, NoRequest
  <2> QED BY <2>1, <2>2, <2>3, <2>4, <2>5, <2>6, <2>7, <2>8, <2>9, <2>10 DEF IInv
<1>14. ASSUME NEW r \in network, KSeFMakes(r) PROVE IInv'
  <2>1. TypeOK'
    BY <1>0, <1>14 DEF KSeFMakes, Answer, blockVars, cleanUpVars, ksefVars, TypeOK, Requests,
       Busy, NoRequest
  <2>2. PendingInv'
    BY <1>0, <1>14 DEF KSeFMakes, Answer, blockVars, cleanUpVars, ksefVars, PendingInv, Doubtful
  <2>3. ReplyInv'
    BY <1>0, <1>14 DEF KSeFMakes, Answer, blockVars, cleanUpVars, ksefVars, ReplyInv
  <2>4. RemoveInv'
    BY <1>0, <1>14, WorkIsRequest DEF KSeFMakes, Answer, blockVars, cleanUpVars, ksefVars,
       TypeOK, RemoveInv, PendingInv, OverlapInv, WorkInv, Doubtful, NoRequest, Requests, Busy
  <2>5. CleanInv'
    BY <1>0, <1>14, WorkIsRequest DEF KSeFMakes, Answer, blockVars, cleanUpVars, ksefVars,
       TypeOK, CleanInv, NothingIsForgotten, RemoveInv, WorkInv, PendingInv, Doubtful, Requests,
       NoRequest, Busy
  <2>6. NothingIsForgotten'
    BY <1>0, <1>14, WorkIsRequest DEF KSeFMakes, Answer, blockVars, cleanUpVars, ksefVars,
       TypeOK, NothingIsForgotten, RemoveInv, MakeInv, PendingInv, Requests, NoRequest, Busy,
       Doubtful
  <2>7. WorkInv' /\ OverlapInv' /\ MakeInv'
    BY <1>0, <1>14 DEF KSeFMakes, Answer, blockVars, cleanUpVars, ksefVars, WorkInv, OverlapInv,
       MakeInv, Busy, Doubtful, NoRequest
  <2>8. WellFormedInv' /\ StopInv'
    BY <1>0, <1>14, <1>a DEF KSeFMakes, Answer, blockVars, cleanUpVars, ksefVars, WellFormedInv,
       StopInv, ComesBefore, WorkInv, TypeOK, Requests, NoRequest, Busy
  <2> QED BY <2>1, <2>2, <2>3, <2>4, <2>5, <2>6, <2>7, <2>8 DEF IInv
<1>15. ASSUME NEW r \in network, KSeFRemoves(r) PROVE IInv'
  <2>1. TypeOK'
    BY <1>0, <1>15 DEF KSeFRemoves, Answer, blockVars, cleanUpVars, ksefVars, TypeOK, Requests,
       Busy, NoRequest
  <2>2. PendingInv'
    BY <1>0, <1>15 DEF KSeFRemoves, Answer, blockVars, cleanUpVars, ksefVars, PendingInv,
       Doubtful
  <2>3. ReplyInv'
    BY <1>0, <1>15 DEF KSeFRemoves, Answer, blockVars, cleanUpVars, ksefVars, ReplyInv
  <2>4. RemoveInv'
    BY <1>0, <1>15 DEF KSeFRemoves, Answer, blockVars, cleanUpVars, ksefVars, RemoveInv,
       Doubtful, NoRequest
  <2>5. CleanInv'
    BY <1>0, <1>15 DEF KSeFRemoves, Answer, blockVars, cleanUpVars, ksefVars, CleanInv, Doubtful
  <2>6. NothingIsForgotten'
    BY <1>0, <1>15 DEF KSeFRemoves, Answer, blockVars, cleanUpVars, ksefVars, NothingIsForgotten
  <2>7. WorkInv' /\ OverlapInv' /\ MakeInv'
    BY <1>0, <1>15 DEF KSeFRemoves, Answer, blockVars, cleanUpVars, ksefVars, WorkInv,
       OverlapInv, MakeInv, Busy, Doubtful, NoRequest
  <2>8. WellFormedInv' /\ StopInv'
    BY <1>0, <1>15, <1>a DEF KSeFRemoves, Answer, blockVars, cleanUpVars, ksefVars,
       WellFormedInv, StopInv, ComesBefore, WorkInv, TypeOK, Requests, NoRequest, Busy
  <2> QED BY <2>1, <2>2, <2>3, <2>4, <2>5, <2>6, <2>7, <2>8 DEF IInv
<1>16. ASSUME NEW r \in network, KSeFRefuses(r) PROVE IInv'
  <2>1. TypeOK'
    BY <1>0, <1>16 DEF KSeFRefuses, Answer, blockVars, cleanUpVars, ksefVars, TypeOK, Requests,
       Busy, NoRequest
  <2>2. PendingInv'
    BY <1>0, <1>16 DEF KSeFRefuses, Answer, blockVars, cleanUpVars, ksefVars, PendingInv,
       Doubtful
  <2>3. ReplyInv'
    BY <1>0, <1>16 DEF KSeFRefuses, Answer, blockVars, cleanUpVars, ksefVars, ReplyInv
  <2>4. RemoveInv'
    BY <1>0, <1>16 DEF KSeFRefuses, Answer, blockVars, cleanUpVars, ksefVars, RemoveInv,
       Doubtful, NoRequest
  <2>5. WorkInv' /\ OverlapInv' /\ MakeInv' /\ CleanInv' /\ NothingIsForgotten'
    BY <1>0, <1>16 DEF KSeFRefuses, Answer, blockVars, cleanUpVars, ksefVars, WorkInv,
       OverlapInv, MakeInv, CleanInv, NothingIsForgotten, Busy, Doubtful, NoRequest
  <2>6. WellFormedInv' /\ StopInv'
    BY <1>0, <1>16, <1>a DEF KSeFRefuses, Answer, blockVars, cleanUpVars, ksefVars,
       WellFormedInv, StopInv, ComesBefore, WorkInv, TypeOK, Requests, NoRequest, Busy
  <2> QED BY <2>1, <2>2, <2>3, <2>4, <2>5, <2>6 DEF IInv
<1>17. ASSUME NEW r \in network, RequestLost(r) PROVE IInv'
  <2>1. TypeOK'
    BY <1>0, <1>17 DEF RequestLost, blockVars, cleanUpVars, ksefVars, TypeOK, Requests, Busy,
       NoRequest
  <2>2. PendingInv'
    BY <1>0, <1>17 DEF RequestLost, blockVars, cleanUpVars, ksefVars, PendingInv, Doubtful
  <2>3. ReplyInv'
    BY <1>0, <1>17 DEF RequestLost, blockVars, cleanUpVars, ksefVars, ReplyInv
  <2>4. WorkInv' /\ OverlapInv' /\ MakeInv' /\ RemoveInv' /\ CleanInv' /\
       NothingIsForgotten'
    BY <1>0, <1>17 DEF RequestLost, blockVars, cleanUpVars, ksefVars, WorkInv, OverlapInv,
       MakeInv, RemoveInv, CleanInv, NothingIsForgotten, Busy, Doubtful, NoRequest
  <2>5. WellFormedInv' /\ StopInv'
    BY <1>0, <1>17, <1>a DEF RequestLost, blockVars, cleanUpVars, ksefVars, WellFormedInv,
       StopInv, ComesBefore, WorkInv, TypeOK, Requests, NoRequest, Busy
  <2> QED BY <2>1, <2>2, <2>3, <2>4, <2>5 DEF IInv
<1>18. CASE UNCHANGED vars
  BY <1>0, <1>18 DEF vars, IInv, TypeOK, WorkInv, PendingInv, ReplyInv, OverlapInv, MakeInv,
     RemoveInv, CleanInv, WellFormedInv, StopInv, ComesBefore, NothingIsForgotten, Doubtful,
     Busy
<1>19. ASSUME NEW t \in Tasks, NEW i \in Items, MakeFailsLocally(t, i) PROVE IInv'
  <2>1. TypeOK'
    BY <1>0, <1>19 DEF MakeFailsLocally, CanCall, Track, ksefVars, cleanUpVars, TypeOK,
       Requests, NoRequest, Busy
  <2>2. NothingIsForgotten' /\ MakeInv'
    BY <1>0, <1>19 DEF MakeFailsLocally, CanCall, Track, ksefVars, cleanUpVars, MakeInv,
       NothingIsForgotten, Doubtful
  <2>3. StopInv' /\ CleanInv'
    BY <1>0, <1>19 DEF MakeFailsLocally, CanCall, Track, ksefVars, cleanUpVars, StopInv,
       CleanInv
  <2>4. WorkInv' /\ PendingInv' /\ ReplyInv' /\ OverlapInv' /\ RemoveInv' /\ WellFormedInv'
    BY <1>0, <1>19 DEF MakeFailsLocally, ksefVars, cleanUpVars, WorkInv, PendingInv, ReplyInv,
       OverlapInv, RemoveInv, WellFormedInv, Busy, Doubtful
  <2> QED BY <2>1, <2>2, <2>3, <2>4 DEF IInv
<1>20. ASSUME NEW i \in Items, CleanUpBreaks(i) PROVE IInv'
  <2>1. TypeOK'
    BY <1>0, <1>20 DEF CleanUpBreaks, IsNext, ksefVars, TypeOK, Requests, NoRequest, Busy
  <2>2. WorkInv'
    BY <1>0, <1>20 DEF CleanUpBreaks, IsNext, ksefVars, WorkInv, Busy
  <2>3. StopInv'
    BY <1>0, <1>20 DEF CleanUpBreaks, IsNext, ksefVars, StopInv, ComesBefore
  <2>4. PendingInv' /\ ReplyInv' /\ OverlapInv' /\ MakeInv' /\ RemoveInv' /\ CleanInv' /\
        WellFormedInv' /\ NothingIsForgotten'
    BY <1>0, <1>20 DEF CleanUpBreaks, IsNext, ksefVars, PendingInv, ReplyInv, OverlapInv,
       MakeInv, RemoveInv, CleanInv, WellFormedInv, NothingIsForgotten, Doubtful, Busy
  <2> QED BY <2>1, <2>2, <2>3, <2>4 DEF IInv
<1>21. ASSUME NEW r \in network, KSeFSchedules(r) PROVE IInv'
  <2>1. TypeOK'
    BY <1>0, <1>21 DEF KSeFSchedules, Answer, blockVars, cleanUpVars, TypeOK, Requests,
       NoRequest, Busy
  <2>2. PendingInv'
    BY <1>0, <1>21 DEF KSeFSchedules, Answer, blockVars, cleanUpVars, PendingInv, Doubtful
  <2>3. ReplyInv'
    BY <1>0, <1>21 DEF KSeFSchedules, Answer, blockVars, cleanUpVars, ReplyInv
  <2>4. RemoveInv'
    BY <1>0, <1>21 DEF KSeFSchedules, Answer, blockVars, cleanUpVars, RemoveInv, Doubtful,
       NoRequest
  <2>5. CleanInv' /\ NothingIsForgotten'
    BY <1>0, <1>21 DEF KSeFSchedules, Answer, blockVars, cleanUpVars, CleanInv,
       NothingIsForgotten, Doubtful
  <2>6. WorkInv' /\ OverlapInv' /\ MakeInv' /\ WellFormedInv' /\ StopInv'
    BY <1>0, <1>21 DEF KSeFSchedules, Answer, blockVars, cleanUpVars, WorkInv, OverlapInv,
       MakeInv, WellFormedInv, StopInv, ComesBefore, Doubtful, Busy
  <2> QED BY <2>1, <2>2, <2>3, <2>4, <2>5, <2>6 DEF IInv
<1>22. ASSUME NEW i \in ending, KSeFEnds(i) PROVE IInv'
  <2>1. TypeOK'
    BY <1>0, <1>22 DEF KSeFEnds, blockVars, cleanUpVars, TypeOK, Requests, NoRequest, Busy
  <2>2. RemoveInv' /\ CleanInv' /\ NothingIsForgotten'
    BY <1>0, <1>22 DEF KSeFEnds, blockVars, cleanUpVars, RemoveInv, CleanInv,
       NothingIsForgotten, Doubtful
  <2>3. WorkInv' /\ PendingInv' /\ ReplyInv' /\ OverlapInv' /\ MakeInv' /\ WellFormedInv' /\
        StopInv'
    BY <1>0, <1>22 DEF KSeFEnds, blockVars, cleanUpVars, WorkInv, PendingInv, ReplyInv,
       OverlapInv, MakeInv, WellFormedInv, StopInv, ComesBefore, Doubtful, Busy
  <2> QED BY <2>1, <2>2, <2>3 DEF IInv
<1> QED BY <1>1, <1>2, <1>3, <1>4, <1>5, <1>6, <1>7, <1>8, <1>9, <1>10, <1>11, <1>12, <1>13,
           <1>14, <1>15, <1>16, <1>17, <1>18,
           <1>19, <1>20, <1>21, <1>22
        DEF Next, CleanUpStep, KSeFStep, Terminated

LEMMA Invariance == Spec => []IInv
  BY InitInv, NextInv, PTL DEF Spec

(* Every variable keeps its type, and an answer belongs to a request a     *)
(* task waits for.                                                         *)
THEOREM TypeCorrect == Spec => []TypeOK
  BY Invariance, PTL DEF IInv

(* What the block has made is on its lists at every moment, unless KSeF    *)
(* will end it on the date the block asked for, a request was given up on  *)
(* its way, or two tasks worked on one item.                               *)
THEOREM NothingForgotten == Spec => []NothingIsForgotten
  BY Invariance, PTL DEF IInv

(* What the block has made and a clean-up has left behind was logged, with *)
(* the same exceptions; unless the clean-up was cancelled or broke off at  *)
(* an item no request can be built for, and then it comes after that item. *)
THEOREM LeftBehindLogged == Spec => []LeftBehindIsLogged
<1>1. IInv => LeftBehindIsLogged
  BY DEF IInv, CleanInv, WellFormedInv, StopInv, Doubtful, LeftBehindIsLogged
<1> QED BY Invariance, <1>1, PTL
=============================================================================
