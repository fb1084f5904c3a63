-------------------------- MODULE TemporalTestData --------------------------
(***************************************************************************)
(* `async with client.testdata.temporal()`: a block that changes the data  *)
(* of the TEST environment and reverts its changes when it is left.  The   *)
(* block's owner and helper tasks make and remove items (subjects,         *)
(* persons, permissions, attachment flags, blocked contexts); what was     *)
(* made is tracked, and the owner reverts what is tracked, one category    *)
(* after the other.  Requests are POSTs the transport does not repeat: a   *)
(* request without an answer may still be carried out later.               *)
(*                                                                         *)
(* An item whose identifier the request models do not accept (a NIP of the *)
(* wrong form) makes the call fail before anything is sent, with an error  *)
(* the clean-up does not catch; it is on its list all the same.            *)
(*                                                                         *)
(* A list without duplicates that only grows at its end is a set with the  *)
(* number of the operation that put each element there.                    *)
(***************************************************************************)
EXTENDS Integers

CONSTANTS
  Owner,       \* the task that runs the block
  Helpers,     \* tasks that work in the block at the same time
  Items,       \* what can be made and removed
  Category,    \* Category[i]: the place of the item's list in the clean-up
  Malformed,   \* the items no request can be built for
  MaxOps       \* bound: the operations the block makes

Tasks == {Owner} \union Helpers

ASSUME OwnerIsNoHelper == Owner \notin Helpers
ASSUME ItemsHaveCategories == Category \in [Items -> 1..5]
ASSUME MalformedAreItems == Malformed \subseteq Items
ASSUME OpsAreCounted == MaxOps \in Nat

VARIABLES
  phase,       \* "body", "cleaning" or "done"
  ops,         \* the operations the block has made
  work,        \* work[t]: the request the task waits for
  reply,       \* reply[t]: the answer to it
  tracked,     \* the five lists of AsyncTemporalTestData
  trackedAt,   \* trackedAt[i]: the operation that put the item on its list
  todo,        \* what is left to be reverted
  failed,      \* the items whose clean-up was logged as failed
  network,     \* the requests on their way to KSeF
  exists,      \* the items there are at KSeF
  ending,      \* those whose end KSeF has scheduled
  made,        \* the items a request of the block has made (history)
  abandoned,   \* those a request was given up for before it was carried out (history)
  overlapped,  \* those two tasks have worked on at the same time (history)
  cancelled    \* the clean-up has been cancelled (history)

vars == <<phase, ops, work, reply, tracked, trackedAt, todo, failed, network, exists, ending,
          made, abandoned, overlapped, cancelled>>

ksefVars == <<exists, ending, made>>
cleanUpVars == <<phase, todo, failed, cancelled>>
blockVars == <<ops, work, tracked, trackedAt, abandoned, overlapped, cleanUpVars>>

(* The numbers tell the requests of the body apart; an item is reverted    *)
(* once.                                                                   *)
Requests ==
  [id : 0..MaxOps, task : Tasks, kind : {"make", "remove", "schedule", "revert"},
   item : Items]
NoRequest == [kind |-> "none"]

Busy(t) == work[t] # NoRequest

-----------------------------------------------------------------------------
Init ==
  /\ phase = "body"
  /\ ops = 0
  /\ work = [t \in Tasks |-> NoRequest]
  /\ reply = [t \in Tasks |-> "none"]
  /\ tracked = {}
  /\ trackedAt = [i \in Items |-> 0]
  /\ todo = {}
  /\ failed = {}
  /\ network = {}
  /\ exists \in SUBSET (Items \ Malformed)
  /\ ending = {}
  /\ made = {}
  /\ abandoned = {}
  /\ overlapped = {}
  /\ cancelled = FALSE

Send(t, r) ==
  /\ work' = [work EXCEPT ![t] = r]
  /\ network' = network \union {r}
  /\ overlapped' = IF \E u \in Tasks \ {t} : Busy(u) /\ work[u].item = r.item
                   THEN overlapped \union {r.item} ELSE overlapped
  /\ UNCHANGED <<reply, ksefVars, abandoned>>

\* The task's call is over.
GoOn(t) ==
  /\ work' = [work EXCEPT ![t] = NoRequest]
  /\ reply' = [reply EXCEPT ![t] = "none"]
  /\ UNCHANGED <<network, ksefVars, overlapped>>

\* A request given up while it is on its way may still be carried out.
GiveUp(t) ==
  abandoned' = IF work[t] \in network THEN abandoned \union {work[t].item} ELSE abandoned

Track(i) ==
  /\ tracked' = tracked \union {i}
  /\ trackedAt' = IF i \in tracked THEN trackedAt ELSE [trackedAt EXCEPT ![i] = ops + 1]

-----------------------------------------------------------------------------
(* The body of the block.                                                  *)

NewRequest(t, kind, i) == [id |-> ops + 1, task |-> t, kind |-> kind, item |-> i]

CanCall(t) == phase = "body" /\ ~Busy(t) /\ ops < MaxOps

\* create_subject() and the like: the item is tracked before it is asked for.
Make(t, i) ==
  /\ CanCall(t) /\ i \notin Malformed
  /\ ops' = ops + 1
  /\ Track(i)
  /\ Send(t, NewRequest(t, "make", i))
  /\ UNCHANGED cleanUpVars

(* The request cannot be built, for the item's or for another argument's   *)
(* sake, when the item is tracked already.                                 *)
MakeFailsLocally(t, i) ==
  /\ CanCall(t)
  /\ ops' = ops + 1
  /\ Track(i)
  /\ UNCHANGED <<work, reply, network, ksefVars, abandoned, overlapped, cleanUpVars>>

(* delete_subject() and the like; revoke_attachments() may ask for an end  *)
(* on a later date.                                                        *)
Remove(t, i) ==
  /\ CanCall(t) /\ i \notin Malformed
  /\ ops' = ops + 1
  /\ \E kind \in IF Category[i] = 2 THEN {"remove", "schedule"} ELSE {"remove"} :
       Send(t, NewRequest(t, kind, i))
  /\ UNCHANGED <<tracked, trackedAt, cleanUpVars>>

MakeSucceeds(t) ==
  /\ reply[t] = "ok" /\ work[t].kind = "make"
  /\ GoOn(t)
  /\ UNCHANGED <<ops, tracked, trackedAt, abandoned, cleanUpVars>>

\* The item is not tracked any more, be it removed or its end scheduled.
RemoveSucceeds(t) ==
  /\ reply[t] = "ok" /\ work[t].kind \in {"remove", "schedule"}
  /\ tracked' = tracked \ {work[t].item}
  /\ GoOn(t)
  /\ UNCHANGED <<ops, trackedAt, abandoned, cleanUpVars>>

\* Fault: an error is taken to mean that there is nothing to revert.
CallRefusedUntracked(t) ==
  /\ reply[t] \in {"refused", "busy"} /\ work[t].kind # "revert"
  /\ tracked' = tracked \ {work[t].item}
  /\ GoOn(t)
  /\ UNCHANGED <<ops, trackedAt, abandoned, cleanUpVars>>

\* KSeF or a gateway answers with an error; the body may go on.
CallRefused(t) ==
  /\ reply[t] \in {"refused", "busy"} /\ work[t].kind # "revert"
  /\ GoOn(t)
  /\ UNCHANGED <<ops, tracked, trackedAt, abandoned, cleanUpVars>>

\* A transport error, or the cancellation of the task that waits.
CallAbandoned(t) ==
  /\ Busy(t) /\ reply[t] = "none" /\ work[t].kind # "revert"
  /\ GoOn(t)
  /\ GiveUp(t)
  /\ UNCHANGED <<ops, tracked, trackedAt, cleanUpVars>>

-----------------------------------------------------------------------------
(* __aexit__().                                                            *)

(* The block is left, in whatever way.  The helpers' calls are over: an    *)
(* asyncio.TaskGroup or gather() in the block sees to it.                  *)
LeaveBlock ==
  /\ phase = "body" /\ \A t \in Tasks : ~Busy(t)
  /\ phase' = "cleaning"
  /\ todo' = tracked
  /\ UNCHANGED <<ops, work, reply, tracked, trackedAt, failed, network, ksefVars,
                 abandoned, overlapped, cancelled>>

\* The lists one after the other, each from its end.
ComesBefore(i, j) ==
  \/ Category[i] < Category[j]
  \/ Category[i] = Category[j] /\ trackedAt[i] > trackedAt[j]

IsNext(i) ==
  /\ phase = "cleaning" /\ ~Busy(Owner)
  /\ i \in todo /\ \A j \in todo \ {i} : ComesBefore(i, j)

Revert(i) ==
  /\ IsNext(i) /\ i \notin Malformed
  /\ Send(Owner, [id |-> 0, task |-> Owner, kind |-> "revert", item |-> i])
  /\ UNCHANGED <<ops, tracked, trackedAt, cleanUpVars>>

(* pydantic's ValidationError is neither a KSeFException nor an            *)
(* httpx.HTTPError: it leaves __aexit__() with the rest not reverted.      *)
CleanUpBreaks(i) ==
  /\ IsNext(i) /\ i \in Malformed
  /\ phase' = "done"
  /\ UNCHANGED <<ops, work, reply, tracked, trackedAt, todo, failed, network, ksefVars,
                 abandoned, overlapped, cancelled>>

RevertSucceeds ==
  /\ reply[Owner] = "ok" /\ work[Owner].kind = "revert"
  /\ todo' = todo \ {work[Owner].item}
  /\ GoOn(Owner)
  /\ UNCHANGED <<phase, ops, tracked, trackedAt, failed, abandoned, cancelled>>

\* Fault: the first clean-up that fails ends it.
RevertRefusedStops ==
  /\ reply[Owner] \in {"refused", "busy"} /\ work[Owner].kind = "revert"
  /\ phase' = "done"
  /\ todo' = todo \ {work[Owner].item}
  /\ failed' = failed \union {work[Owner].item}
  /\ GoOn(Owner)
  /\ UNCHANGED <<ops, tracked, trackedAt, abandoned, cancelled>>

\* The KSeFException is logged and suppressed.
RevertRefused ==
  /\ reply[Owner] \in {"refused", "busy"} /\ work[Owner].kind = "revert"
  /\ todo' = todo \ {work[Owner].item}
  /\ failed' = failed \union {work[Owner].item}
  /\ GoOn(Owner)
  /\ UNCHANGED <<phase, ops, tracked, trackedAt, abandoned, cancelled>>

\* The httpx.HTTPError is logged and suppressed.
RevertAbandoned ==
  /\ Busy(Owner) /\ reply[Owner] = "none" /\ work[Owner].kind = "revert"
  /\ todo' = todo \ {work[Owner].item}
  /\ failed' = failed \union {work[Owner].item}
  /\ GoOn(Owner)
  /\ GiveUp(Owner)
  /\ UNCHANGED <<phase, ops, tracked, trackedAt, cancelled>>

Exit ==
  /\ phase = "cleaning" /\ ~Busy(Owner) /\ todo = {}
  /\ phase' = "done"
  /\ UNCHANGED <<ops, work, reply, tracked, trackedAt, todo, failed, network, ksefVars,
                 abandoned, overlapped, cancelled>>

\* A cancellation ends the clean-up where it is.
Cancel ==
  /\ phase = "cleaning"
  /\ phase' = "done"
  /\ cancelled' = TRUE
  /\ GoOn(Owner)
  /\ IF Busy(Owner) THEN GiveUp(Owner) ELSE UNCHANGED abandoned
  /\ UNCHANGED <<ops, tracked, trackedAt, todo, failed>>

-----------------------------------------------------------------------------
(* KSeF.  A gateway may answer "busy" for a request that is carried out.   *)

Answer(r, a) ==
  /\ r \in network
  /\ network' = network \ {r}
  /\ reply' = IF work[r.task] = r THEN [reply EXCEPT ![r.task] = a] ELSE reply
  /\ UNCHANGED blockVars

\* An item made again may or may not keep the end it had.
KSeFMakes(r) ==
  /\ r.kind = "make"
  /\ \E a \in {"ok", "busy"} : Answer(r, a)
  /\ exists' = exists \union {r.item}
  /\ ending' \in {ending, ending \ {r.item}}
  /\ made' = IF r.item \in exists THEN made ELSE made \union {r.item}

KSeFRemoves(r) ==
  /\ r.kind \in {"remove", "revert"}
  /\ \E a \in {"ok", "busy"} : Answer(r, a)
  /\ exists' = exists \ {r.item}
  /\ ending' = ending \ {r.item}
  /\ UNCHANGED made

\* expectedEndDate: the item stays until then.
KSeFSchedules(r) ==
  /\ r.kind = "schedule"
  /\ \E a \in {"ok", "busy"} : Answer(r, a)
  /\ ending' = ending \union (exists \intersect {r.item})
  /\ UNCHANGED <<exists, made>>

KSeFEnds(i) ==
  /\ i \in ending
  /\ exists' = exists \ {i}
  /\ ending' = ending \ {i}
  /\ UNCHANGED <<blockVars, reply, network, made>>

\* The item is there already, or is not there; a rate limit; maintenance.
KSeFRefuses(r) == Answer(r, "refused") /\ UNCHANGED ksefVars

RequestLost(r) ==
  /\ network' = network \ {r}
  /\ UNCHANGED <<blockVars, reply, ksefVars>>

KSeFStep ==
  \/ \E r \in network :
       KSeFMakes(r) \/ KSeFRemoves(r) \/ KSeFSchedules(r) \/ KSeFRefuses(r) \/ RequestLost(r)
  \/ \E i \in ending : KSeFEnds(i)

Terminated == phase = "done" /\ network = {} /\ UNCHANGED vars

CleanUpStep ==
  \/ \E i \in Items : Revert(i) \/ CleanUpBreaks(i)
  \/ RevertSucceeds \/ RevertRefused \/ RevertAbandoned \/ Exit

Next ==
  \/ \E t \in Tasks :
       \/ \E i \in Items : Make(t, i) \/ MakeFailsLocally(t, i) \/ Remove(t, i)
       \/ MakeSucceeds(t) \/ RemoveSucceeds(t) \/ CallRefused(t) \/ CallAbandoned(t)
  \/ LeaveBlock \/ CleanUpStep \/ Cancel \/ KSeFStep \/ Terminated

Spec == Init /\ [][Next]_vars

-----------------------------------------------------------------------------
\* The types; an answer belongs to a request a task waits for.
TypeOK ==
  /\ phase \in {"body", "cleaning", "done"}
  /\ ops \in 0..MaxOps
  /\ work \in [Tasks -> Requests \union {NoRequest}]
  /\ reply \in [Tasks -> {"none", "ok", "refused", "busy"}]
  /\ trackedAt \in [Items -> 0..MaxOps]
  /\ network \subseteq Requests
  /\ {tracked, todo, failed, exists, ending, made, abandoned, overlapped} \subseteq SUBSET Items
  /\ cancelled \in BOOLEAN
  /\ \A t \in Tasks : reply[t] # "none" => Busy(t)

(* What exists because the block has made it is on one of the lists, also  *)
(* while a call is under way and after one that failed; unless KSeF will   *)
(* end it on the date the block asked for, a request for it was given up   *)
(* on its way, or two tasks worked on it at once.                          *)
NothingIsForgotten ==
  exists \intersect made \subseteq tracked \union ending \union abandoned \union overlapped

(* When the block has been left, what it made is gone or will end by       *)
(* itself, or the log says that it could not be reverted, with the same    *)
(* exceptions.  Only a clean-up that was cancelled, or that met an item no *)
(* request can be built for, leaves the rest behind without a word: in the *)
(* second case what comes after that item, and nothing else.               *)
LeftBehindIsLogged ==
  phase = "done" =>
    \A i \in (exists \intersect made) \ (ending \union failed \union abandoned \union overlapped) :
      cancelled \/ \E m \in tracked \intersect Malformed : ComesBefore(m, i)

=============================================================================
