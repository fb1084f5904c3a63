---------------------------- MODULE Access_proofs ----------------------------
(***************************************************************************)
(* Proofs about who gets in and who may do what: authentication (AuthFlow) *)
(* and permissions (Permissions).                                          *)
(*                                                                         *)
(* AuthFlow is proved for any number of tasks, attempts and certificates.  *)
(* The inductive invariant follows the pair of tokens: no request for it   *)
(* is on its way before the operation is known to have succeeded, and the  *)
(* attempt that got it is not asked for again.                             *)
(*                                                                         *)
(* Permissions is proved for any calls and queries the request models      *)
(* accept, any records of other people, and any number of grants,          *)
(* revocations and records of a page.  Most of it is about the tables: a   *)
(* word that is sent comes back as the word it was.  The inductive         *)
(* invariant says where the records in KSeF come from.                     *)
(***************************************************************************)
EXTENDS AuthFlow, Permissions, FiniteSetTheorems, TLAPS

-----------------------------------------------------------------------------
(* Part 1.  Authentication.                                                *)

\* The states of a call after it has asked for the pair.
Asking == {"redeeming", "refused"} \union Holding

\* Before a call asks, nothing is redeemed; afterwards the operation was a success.
AskedInv ==
  \A t \in Tasks :
    /\ redeemer[t] # 0 <=> op[t] = "redeemed"
    /\ redeemer[t] <= attempt[t] /\ redeemer[t] \notin wire[t]
    /\ pc[t] \in Asking => op[t] \in {"success", "expired", "redeemed"}
    /\ pc[t] \notin Asking \union {"raised"} => attempt[t] = 0
    /\ op[t] = "none" => attempt[t] = 0
    /\ pc[t] \in {"idle", "fetching", "challenging", "starting"} => op[t] = "none"

\* An answer says what became of the last request.
AnswerInv ==
  \A t \in Tasks :
    /\ reply[t] = "pair" => op[t] = "redeemed" /\ redeemer[t] = attempt[t]
    /\ reply[t] = "refused" =>
         \/ op[t] = "expired"
         \/ op[t] = "redeemed" /\ redeemer[t] < attempt[t]

PairInv == AuthenticatedHoldsThePair /\ RefusalIsExplained

\* Lists come from the past, and a call with a token waits for a challenge with one.
ListInv ==
  /\ store # NoList => store <= now
  /\ \A t \in Tasks :
       /\ listed[t] # NoList => listed[t] <= now
       /\ pc[t] = "challenging" /\ t \in TokenTasks => store # NoList

IInv == TypeOK /\ AskedInv /\ AnswerInv /\ PairInv /\ ListInv

-----------------------------------------------------------------------------
LEMMA ConstantsAreNat ==
  /\ MaxTime \in Nat /\ Overlap \in Nat /\ NoList \notin Nat /\ NoList \notin Times
  /\ MaxAttempts \in Nat \ {0} /\ TokenTasks \subseteq Tasks
BY TimesAreNat, SomeAttempts, TokenTasksAreTasks DEF Times

LEMMA InitInv == Init => IInv
BY ConstantsAreNat
  DEF Init, IInv, TypeOK, AskedInv, AnswerInv, PairInv, AuthenticatedHoldsThePair,
      RefusalIsExplained, ListInv, Times, Pending, Holding, Outcomes, Asking

LEMMA NextInv == IInv /\ [Next]_vars => IInv'
<1> SUFFICES ASSUME IInv, [Next]_vars PROVE IInv'
  OBVIOUS
<1>0. TypeOK /\ AskedInv /\ AnswerInv /\ PairInv /\ ListInv
  BY DEF IInv
<1>1. ASSUME NEW t \in Tasks, Begin(t) PROVE IInv'
  <2>1. TypeOK'
    BY <1>0, <1>1, ConstantsAreNat DEF Begin, Goes, storeVars, redeemVars, TypeOK,
       Times, Pending, Holding, Outcomes
  <2>2. AskedInv'
    BY <1>0, <1>1, ConstantsAreNat DEF Begin, Goes, storeVars, redeemVars, AskedInv,
       TypeOK, Times, Asking, Pending, Holding, Outcomes
  <2>3. AnswerInv'
    BY <1>0, <1>1, ConstantsAreNat DEF Begin, Goes, storeVars, redeemVars, AnswerInv,
       AskedInv, TypeOK, Asking
  <2>4. PairInv'
    BY <1>0, <1>1, ConstantsAreNat DEF Begin, Goes, storeVars, redeemVars,
       AuthenticatedHoldsThePair, RefusalIsExplained, PairInv, AnswerInv, AskedInv,
       Asking, TypeOK, Holding
  <2>5. ListInv'
    BY <1>0, <1>1, ConstantsAreNat DEF Begin, Goes, storeVars, redeemVars, ListInv,
       TypeOK, Times
  <2> QED
    BY <2>1, <2>2, <2>3, <2>4, <2>5 DEF IInv
<1>2. ASSUME NEW t \in Tasks, ListIsRead(t) PROVE IInv'
  <2>1. TypeOK'
    BY <1>0, <1>2, ConstantsAreNat DEF ListIsRead, redeemVars, TypeOK, Times, Pending,
       Holding, Outcomes
  <2>2. AskedInv'
    BY <1>0, <1>2, ConstantsAreNat DEF ListIsRead, redeemVars, AskedInv, TypeOK, Times,
       Asking, Pending, Holding, Outcomes
  <2>3. AnswerInv'
    BY <1>0, <1>2, ConstantsAreNat DEF ListIsRead, redeemVars, AnswerInv, AskedInv,
       TypeOK, Asking
  <2>4. PairInv'
    BY <1>0, <1>2, ConstantsAreNat DEF ListIsRead, redeemVars,
       AuthenticatedHoldsThePair, RefusalIsExplained, PairInv, AnswerInv, AskedInv,
       Asking, TypeOK, Holding
  <2>5. ListInv'
    BY <1>0, <1>2, ConstantsAreNat DEF ListIsRead, redeemVars, ListInv, TypeOK, Times
  <2> QED
    BY <2>1, <2>2, <2>3, <2>4, <2>5 DEF IInv
<1>3. ASSUME NEW t \in Tasks, ListArrives(t) PROVE IInv'
  <2>1. TypeOK'
    BY <1>0, <1>3, ConstantsAreNat DEF ListArrives, Loads, Goes, redeemVars, TypeOK,
       Times, Pending, Holding, Outcomes
  <2>2. AskedInv'
    BY <1>0, <1>3, ConstantsAreNat DEF ListArrives, Loads, Goes, redeemVars, AskedInv,
       TypeOK, Times, Asking, Pending, Holding, Outcomes
  <2>3. AnswerInv'
    BY <1>0, <1>3, ConstantsAreNat DEF ListArrives, Loads, Goes, redeemVars, AnswerInv,
       AskedInv, TypeOK, Asking
  <2>4. PairInv'
    BY <1>0, <1>3, ConstantsAreNat DEF ListArrives, Loads, Goes, redeemVars,
       AuthenticatedHoldsThePair, RefusalIsExplained, PairInv, AnswerInv, AskedInv,
       Asking, TypeOK, Holding
  <2>5. ListInv'
    BY <1>0, <1>3, ConstantsAreNat DEF ListArrives, Loads, Goes, redeemVars, ListInv,
       TypeOK, Times
  <2> QED
    BY <2>1, <2>2, <2>3, <2>4, <2>5 DEF IInv
<1>4. ASSUME NEW t \in Tasks, Challenged(t) PROVE IInv'
  <2>1. TypeOK'
    BY <1>0, <1>4, ConstantsAreNat DEF Challenged, Goes, storeVars, redeemVars, TypeOK,
       Times, Pending, Holding, Outcomes
  <2>2. AskedInv'
    BY <1>0, <1>4, ConstantsAreNat DEF Challenged, Goes, storeVars, redeemVars,
       AskedInv, TypeOK, Times, Asking, Pending, Holding, Outcomes
  <2>3. AnswerInv'
    BY <1>0, <1>4, ConstantsAreNat DEF Challenged, Goes, storeVars, redeemVars,
       AnswerInv, AskedInv, TypeOK, Asking
  <2>4. PairInv'
    BY <1>0, <1>4, ConstantsAreNat DEF Challenged, Goes, storeVars, redeemVars,
       AuthenticatedHoldsThePair, RefusalIsExplained, PairInv, AnswerInv, AskedInv,
       Asking, TypeOK, Holding
  <2>5. ListInv'
    BY <1>0, <1>4, ConstantsAreNat DEF Challenged, Goes, storeVars, redeemVars, ListInv,
       TypeOK, Times
  <2> QED
    BY <2>1, <2>2, <2>3, <2>4, <2>5 DEF IInv
<1>5. ASSUME NEW t \in Tasks, Started(t) PROVE IInv'
  <2>1. TypeOK'
    BY <1>0, <1>5, ConstantsAreNat DEF Started, Goes, storeVars, redeemVars, TypeOK,
       Times, Pending, Holding, Outcomes
  <2>2. AskedInv'
    BY <1>0, <1>5, ConstantsAreNat DEF Started, Goes, storeVars, redeemVars, AskedInv,
       TypeOK, Times, Asking, Pending, Holding, Outcomes
  <2>3. AnswerInv'
    BY <1>0, <1>5, ConstantsAreNat DEF Started, Goes, storeVars, redeemVars, AnswerInv,
       AskedInv, TypeOK, Asking
  <2>4. PairInv'
    BY <1>0, <1>5, ConstantsAreNat DEF Started, Goes, storeVars, redeemVars,
       AuthenticatedHoldsThePair, RefusalIsExplained, PairInv, AnswerInv, AskedInv,
       Asking, TypeOK, Holding
  <2>5. ListInv'
    BY <1>0, <1>5, ConstantsAreNat DEF Started, Goes, storeVars, redeemVars, ListInv,
       TypeOK, Times
  <2> QED
    BY <2>1, <2>2, <2>3, <2>4, <2>5 DEF IInv
<1>6. ASSUME NEW t \in Tasks, SeesSuccess(t) PROVE IInv'
  <2>1. TypeOK'
    <3>1. attempt[t] = 0 /\ wire[t] = {}
      BY <1>0, <1>6 DEF SeesSuccess, Goes, AskedInv, TypeOK, Asking, Holding
    <3>2. \A u \in Tasks : wire'[u] \subseteq 1..attempt'[u]
      BY <1>0, <1>6, <3>1 DEF SeesSuccess, SendsRedeem, TypeOK
    <3> QED
      BY <1>0, <1>6, <3>2, ConstantsAreNat
        DEF SeesSuccess, Goes, SendsRedeem, storeVars, TypeOK, Times, Pending, Holding, Outcomes
  <2>2. AskedInv'
    BY <1>0, <1>6, ConstantsAreNat DEF SeesSuccess, Goes, SendsRedeem, storeVars,
       AskedInv, TypeOK, Times, Asking, Pending, Holding, Outcomes
  <2>3. AnswerInv'
    BY <1>0, <1>6, ConstantsAreNat DEF SeesSuccess, Goes, SendsRedeem, storeVars,
       AnswerInv, AskedInv, TypeOK, Asking
  <2>4. PairInv'
    BY <1>0, <1>6, ConstantsAreNat DEF SeesSuccess, Goes, SendsRedeem, storeVars,
       AuthenticatedHoldsThePair, RefusalIsExplained, PairInv, AnswerInv, AskedInv,
       Asking, TypeOK, Holding
  <2>5. ListInv'
    BY <1>0, <1>6, ConstantsAreNat DEF SeesSuccess, Goes, SendsRedeem, storeVars,
       ListInv, TypeOK, Times
  <2> QED
    BY <2>1, <2>2, <2>3, <2>4, <2>5 DEF IInv
<1>7. ASSUME NEW t \in Tasks, SeesFailure(t) PROVE IInv'
  <2>1. TypeOK'
    BY <1>0, <1>7, ConstantsAreNat DEF SeesFailure, Goes, storeVars, redeemVars, TypeOK,
       Times, Pending, Holding, Outcomes
  <2>2. AskedInv'
    BY <1>0, <1>7, ConstantsAreNat DEF SeesFailure, Goes, storeVars, redeemVars,
       AskedInv, TypeOK, Times, Asking, Pending, Holding, Outcomes
  <2>3. AnswerInv'
    BY <1>0, <1>7, ConstantsAreNat DEF SeesFailure, Goes, storeVars, redeemVars,
       AnswerInv, AskedInv, TypeOK, Asking
  <2>4. PairInv'
    BY <1>0, <1>7, ConstantsAreNat DEF SeesFailure, Goes, storeVars, redeemVars,
       AuthenticatedHoldsThePair, RefusalIsExplained, PairInv, AnswerInv, AskedInv,
       Asking, TypeOK, Holding
  <2>5. ListInv'
    BY <1>0, <1>7, ConstantsAreNat DEF SeesFailure, Goes, storeVars, redeemVars,
       ListInv, TypeOK, Times
  <2> QED
    BY <2>1, <2>2, <2>3, <2>4, <2>5 DEF IInv
<1>8. ASSUME NEW t \in Tasks, PollTimesOut(t) PROVE IInv'
  <2>1. TypeOK'
    BY <1>0, <1>8, ConstantsAreNat DEF PollTimesOut, Goes, storeVars, redeemVars,
       TypeOK, Times, Pending, Holding, Outcomes
  <2>2. AskedInv'
    BY <1>0, <1>8, ConstantsAreNat DEF PollTimesOut, Goes, storeVars, redeemVars,
       AskedInv, TypeOK, Times, Asking, Pending, Holding, Outcomes
  <2>3. AnswerInv'
    BY <1>0, <1>8, ConstantsAreNat DEF PollTimesOut, Goes, storeVars, redeemVars,
       AnswerInv, AskedInv, TypeOK, Asking
  <2>4. PairInv'
    BY <1>0, <1>8, ConstantsAreNat DEF PollTimesOut, Goes, storeVars, redeemVars,
       AuthenticatedHoldsThePair, RefusalIsExplained, PairInv, AnswerInv, AskedInv,
       Asking, TypeOK, Holding
  <2>5. ListInv'
    BY <1>0, <1>8, ConstantsAreNat DEF PollTimesOut, Goes, storeVars, redeemVars,
       ListInv, TypeOK, Times
  <2> QED
    BY <2>1, <2>2, <2>3, <2>4, <2>5 DEF IInv
<1>9. ASSUME NEW t \in Tasks, Interrupted(t) PROVE IInv'
  <2>1. TypeOK'
    BY <1>0, <1>9, ConstantsAreNat DEF Interrupted, redeemVars, TypeOK, Times, Pending,
       Holding, Outcomes
  <2>2. AskedInv'
    BY <1>0, <1>9, ConstantsAreNat DEF Interrupted, redeemVars, AskedInv, TypeOK, Times,
       Asking, Pending, Holding, Outcomes
  <2>3. AnswerInv'
    BY <1>0, <1>9, ConstantsAreNat DEF Interrupted, redeemVars, AnswerInv, AskedInv,
       TypeOK, Asking
  <2>4. PairInv'
    BY <1>0, <1>9, ConstantsAreNat DEF Interrupted, redeemVars,
       AuthenticatedHoldsThePair, RefusalIsExplained, PairInv, AnswerInv, AskedInv,
       Asking, TypeOK, Holding
  <2>5. ListInv'
    BY <1>0, <1>9, ConstantsAreNat DEF Interrupted, redeemVars, ListInv, TypeOK, Times
  <2> QED
    BY <2>1, <2>2, <2>3, <2>4, <2>5 DEF IInv
<1>10. ASSUME NEW t \in Tasks, Redeemed(t) PROVE IInv'
  <2>1. TypeOK'
    BY <1>0, <1>10, ConstantsAreNat DEF Redeemed, Goes, storeVars, TypeOK, Times,
       Pending, Holding, Outcomes
  <2>2. AskedInv'
    BY <1>0, <1>10, ConstantsAreNat DEF Redeemed, Goes, storeVars, AskedInv, TypeOK,
       Times, Asking, Pending, Holding, Outcomes
  <2>3. AnswerInv'
    BY <1>0, <1>10, ConstantsAreNat DEF Redeemed, Goes, storeVars, AnswerInv, AskedInv,
       TypeOK, Asking
  <2>4. PairInv'
    BY <1>0, <1>10, ConstantsAreNat DEF Redeemed, Goes, storeVars,
       AuthenticatedHoldsThePair, RefusalIsExplained, PairInv, AnswerInv, AskedInv,
       Asking, TypeOK, Holding
  <2>5. ListInv'
    BY <1>0, <1>10, ConstantsAreNat DEF Redeemed, Goes, storeVars, ListInv, TypeOK,
       Times
  <2> QED
    BY <2>1, <2>2, <2>3, <2>4, <2>5 DEF IInv
<1>11. ASSUME NEW t \in Tasks, RedeemRefused(t) PROVE IInv'
  <2>1. TypeOK'
    BY <1>0, <1>11, ConstantsAreNat DEF RedeemRefused, Goes, storeVars, TypeOK, Times,
       Pending, Holding, Outcomes
  <2>2. AskedInv'
    BY <1>0, <1>11, ConstantsAreNat DEF RedeemRefused, Goes, storeVars, AskedInv,
       TypeOK, Times, Asking, Pending, Holding, Outcomes
  <2>3. AnswerInv'
    BY <1>0, <1>11, ConstantsAreNat DEF RedeemRefused, Goes, storeVars, AnswerInv,
       AskedInv, TypeOK, Asking
  <2>4. PairInv'
    BY <1>0, <1>11, ConstantsAreNat DEF RedeemRefused, Goes, storeVars,
       AuthenticatedHoldsThePair, RefusalIsExplained, PairInv, AnswerInv, AskedInv,
       Asking, TypeOK, Holding
  <2>5. ListInv'
    BY <1>0, <1>11, ConstantsAreNat DEF RedeemRefused, Goes, storeVars, ListInv, TypeOK,
       Times
  <2> QED
    BY <2>1, <2>2, <2>3, <2>4, <2>5 DEF IInv
<1>12. ASSUME NEW t \in Tasks, RedeemRetried(t) PROVE IInv'
  <2>1. TypeOK'
    BY <1>0, <1>12, ConstantsAreNat DEF RedeemRetried, SendsRedeem, storeVars, TypeOK,
       Times, Pending, Holding, Outcomes
  <2>2. AskedInv'
    BY <1>0, <1>12, ConstantsAreNat DEF RedeemRetried, SendsRedeem, storeVars, AskedInv,
       TypeOK, Times, Asking, Pending, Holding, Outcomes
  <2>3. AnswerInv'
    BY <1>0, <1>12, ConstantsAreNat DEF RedeemRetried, SendsRedeem, storeVars,
       AnswerInv, AskedInv, TypeOK, Asking
  <2>4. PairInv'
    BY <1>0, <1>12, ConstantsAreNat DEF RedeemRetried, SendsRedeem, storeVars,
       AuthenticatedHoldsThePair, RefusalIsExplained, PairInv, AnswerInv, AskedInv,
       Asking, TypeOK, Holding
  <2>5. ListInv'
    BY <1>0, <1>12, ConstantsAreNat DEF RedeemRetried, SendsRedeem, storeVars, ListInv,
       TypeOK, Times
  <2> QED
    BY <2>1, <2>2, <2>3, <2>4, <2>5 DEF IInv
<1>13. ASSUME NEW t \in Tasks, RedeemFails(t) PROVE IInv'
  <2>1. TypeOK'
    BY <1>0, <1>13, ConstantsAreNat DEF RedeemFails, Goes, storeVars, TypeOK, Times,
       Pending, Holding, Outcomes
  <2>2. AskedInv'
    BY <1>0, <1>13, ConstantsAreNat DEF RedeemFails, Goes, storeVars, AskedInv, TypeOK,
       Times, Asking, Pending, Holding, Outcomes
  <2>3. AnswerInv'
    BY <1>0, <1>13, ConstantsAreNat DEF RedeemFails, Goes, storeVars, AnswerInv,
       AskedInv, TypeOK, Asking
  <2>4. PairInv'
    BY <1>0, <1>13, ConstantsAreNat DEF RedeemFails, Goes, storeVars,
       AuthenticatedHoldsThePair, RefusalIsExplained, PairInv, AnswerInv, AskedInv,
       Asking, TypeOK, Holding
  <2>5. ListInv'
    BY <1>0, <1>13, ConstantsAreNat DEF RedeemFails, Goes, storeVars, ListInv, TypeOK,
       Times
  <2> QED
    BY <2>1, <2>2, <2>3, <2>4, <2>5 DEF IInv
<1>14. ASSUME NEW t \in Tasks, MakeKey(t) PROVE IInv'
  <2>1. TypeOK'
    BY <1>0, <1>14, ConstantsAreNat DEF MakeKey, Selected, storeVars, redeemVars,
       TypeOK, Times, Pending, Holding, Outcomes
  <2>2. AskedInv'
    BY <1>0, <1>14, ConstantsAreNat DEF MakeKey, Selected, storeVars, redeemVars,
       AskedInv, TypeOK, Times, Asking, Pending, Holding, Outcomes
  <2>3. AnswerInv'
    BY <1>0, <1>14, ConstantsAreNat DEF MakeKey, Selected, storeVars, redeemVars,
       AnswerInv, AskedInv, TypeOK, Asking
  <2>4. PairInv'
    BY <1>0, <1>14, ConstantsAreNat DEF MakeKey, Selected, storeVars, redeemVars,
       AuthenticatedHoldsThePair, RefusalIsExplained, PairInv, AnswerInv, AskedInv,
       Asking, TypeOK, Holding
  <2>5. ListInv'
    BY <1>0, <1>14, ConstantsAreNat DEF MakeKey, Selected, storeVars, redeemVars,
       ListInv, TypeOK, Times
  <2> QED
    BY <2>1, <2>2, <2>3, <2>4, <2>5 DEF IInv
<1>15. ASSUME NEW t \in Tasks, LoadedForKey(t) PROVE IInv'
  <2>1. TypeOK'
    BY <1>0, <1>15, ConstantsAreNat DEF LoadedForKey, Loads, Goes, Selected, redeemVars,
       TypeOK, Times, Pending, Holding, Outcomes
  <2>2. AskedInv'
    BY <1>0, <1>15, ConstantsAreNat DEF LoadedForKey, Loads, Goes, Selected, redeemVars,
       AskedInv, TypeOK, Times, Asking, Pending, Holding, Outcomes
  <2>3. AnswerInv'
    BY <1>0, <1>15, ConstantsAreNat DEF LoadedForKey, Loads, Goes, Selected, redeemVars,
       AnswerInv, AskedInv, TypeOK, Asking
  <2>4. PairInv'
    BY <1>0, <1>15, ConstantsAreNat DEF LoadedForKey, Loads, Goes, Selected, redeemVars,
       AuthenticatedHoldsThePair, RefusalIsExplained, PairInv, AnswerInv, AskedInv,
       Asking, TypeOK, Holding
  <2>5. ListInv'
    BY <1>0, <1>15, ConstantsAreNat DEF LoadedForKey, Loads, Goes, Selected, redeemVars,
       ListInv, TypeOK, Times
  <2> QED
    BY <2>1, <2>2, <2>3, <2>4, <2>5 DEF IInv
<1>16. ASSUME NEW t \in Tasks, LoadFails(t) PROVE IInv'
  <2>1. TypeOK'
    BY <1>0, <1>16, ConstantsAreNat DEF LoadFails, Goes, redeemVars, TypeOK, Times,
       Pending, Holding, Outcomes
  <2>2. AskedInv'
    BY <1>0, <1>16, ConstantsAreNat DEF LoadFails, Goes, redeemVars, AskedInv, TypeOK,
       Times, Asking, Pending, Holding, Outcomes
  <2>3. AnswerInv'
    BY <1>0, <1>16, ConstantsAreNat DEF LoadFails, Goes, redeemVars, AnswerInv,
       AskedInv, TypeOK, Asking
  <2>4. PairInv'
    BY <1>0, <1>16, ConstantsAreNat DEF LoadFails, Goes, redeemVars,
       AuthenticatedHoldsThePair, RefusalIsExplained, PairInv, AnswerInv, AskedInv,
       Asking, TypeOK, Holding
  <2>5. ListInv'
    BY <1>0, <1>16, ConstantsAreNat DEF LoadFails, Goes, redeemVars, ListInv, TypeOK,
       Times
  <2> QED
    BY <2>1, <2>2, <2>3, <2>4, <2>5 DEF IInv
<1>17. ASSUME NEW t \in Tasks, OperationMoves(t) PROVE IInv'
  <2>1. TypeOK'
    BY <1>0, <1>17, ConstantsAreNat DEF OperationMoves, storeVars, redeemVars, TypeOK,
       Times, Pending, Holding, Outcomes
  <2>2. AskedInv'
    BY <1>0, <1>17, ConstantsAreNat DEF OperationMoves, storeVars, redeemVars, AskedInv,
       TypeOK, Times, Asking, Pending, Holding, Outcomes
  <2>3. AnswerInv'
    BY <1>0, <1>17, ConstantsAreNat DEF OperationMoves, storeVars, redeemVars,
       AnswerInv, AskedInv, TypeOK, Asking
  <2>4. PairInv'
    BY <1>0, <1>17, ConstantsAreNat DEF OperationMoves, storeVars, redeemVars,
       AuthenticatedHoldsThePair, RefusalIsExplained, PairInv, AnswerInv, AskedInv,
       Asking, TypeOK, Holding
  <2>5. ListInv'
    BY <1>0, <1>17, ConstantsAreNat DEF OperationMoves, storeVars, redeemVars, ListInv,
       TypeOK, Times
  <2> QED
    BY <2>1, <2>2, <2>3, <2>4, <2>5 DEF IInv
<1>18. ASSUME NEW t \in Tasks, NEW k \in 1..MaxAttempts, KSeFRedeems(t, k) PROVE IInv'
  <2>1. TypeOK'
    BY <1>0, <1>18, ConstantsAreNat DEF KSeFRedeems, storeVars, TypeOK, Times, Pending,
       Holding, Outcomes
  <2>2. AskedInv'
    <3> SUFFICES ASSUME NEW u \in Tasks PROVE AskedInv!(u)'
      BY DEF AskedInv
    <3>1. CASE u # t
      BY <1>0, <1>18, <3>1 DEF KSeFRedeems, storeVars, AskedInv, TypeOK
    <3>2. CASE u = t /\ op[t] = "success"
      <4>1. /\ op'[t] = "redeemed" /\ redeemer'[t] = k /\ wire'[t] = wire[t] \ {k}
            /\ pc' = pc /\ attempt' = attempt
        BY <1>0, <1>18, <3>2 DEF KSeFRedeems, storeVars, TypeOK
      <4>2. k \in Nat /\ k # 0 /\ k <= attempt[t] /\ attempt[t] \in Nat
        BY <1>0, <1>18, ConstantsAreNat DEF KSeFRedeems, TypeOK
      <4> QED
        BY <1>0, <3>2, <4>1, <4>2 DEF AskedInv
    <3>3. CASE u = t /\ op[t] # "success"
      BY <1>0, <1>18, <3>3, ConstantsAreNat DEF KSeFRedeems, storeVars, AskedInv, TypeOK
    <3> QED
      BY <3>1, <3>2, <3>3
  <2>3. AnswerInv'
    BY <1>0, <1>18, ConstantsAreNat DEF KSeFRedeems, storeVars, AnswerInv, AskedInv,
       TypeOK, Asking
  <2>4. PairInv'
    BY <1>0, <1>18, ConstantsAreNat DEF KSeFRedeems, storeVars,
       AuthenticatedHoldsThePair, RefusalIsExplained, PairInv, AnswerInv, AskedInv,
       Asking, TypeOK, Holding
  <2>5. ListInv'
    BY <1>0, <1>18, ConstantsAreNat DEF KSeFRedeems, storeVars, ListInv, TypeOK, Times
  <2> QED
    BY <2>1, <2>2, <2>3, <2>4, <2>5 DEF IInv
<1>19. ASSUME Tick PROVE IInv'
  <2>1. TypeOK'
    BY <1>0, <1>19, ConstantsAreNat DEF Tick, redeemVars, TypeOK, Times, Pending,
       Holding, Outcomes
  <2>2. AskedInv'
    BY <1>0, <1>19, ConstantsAreNat DEF Tick, redeemVars, AskedInv, TypeOK, Times,
       Asking, Pending, Holding, Outcomes
  <2>3. AnswerInv'
    BY <1>0, <1>19, ConstantsAreNat DEF Tick, redeemVars, AnswerInv, AskedInv, TypeOK,
       Asking
  <2>4. PairInv'
    BY <1>0, <1>19, ConstantsAreNat DEF Tick, redeemVars, AuthenticatedHoldsThePair,
       RefusalIsExplained, PairInv, AnswerInv, AskedInv, Asking, TypeOK, Holding
  <2>5. ListInv'
    BY <1>0, <1>19, ConstantsAreNat DEF Tick, redeemVars, ListInv, TypeOK, Times
  <2> QED
    BY <2>1, <2>2, <2>3, <2>4, <2>5 DEF IInv
<1>20. ASSUME UNCHANGED vars PROVE IInv'
  <2>1. TypeOK'
    BY <1>0, <1>20, ConstantsAreNat DEF vars, TypeOK, Times, Pending, Holding, Outcomes
  <2>2. AskedInv'
    BY <1>0, <1>20, ConstantsAreNat DEF vars, AskedInv, TypeOK, Times, Asking, Pending,
       Holding, Outcomes
  <2>3. AnswerInv'
    BY <1>0, <1>20, ConstantsAreNat DEF vars, AnswerInv, AskedInv, TypeOK, Asking
  <2>4. PairInv'
    BY <1>0, <1>20, ConstantsAreNat DEF vars, AuthenticatedHoldsThePair,
       RefusalIsExplained, PairInv, AnswerInv, AskedInv, Asking, TypeOK, Holding
  <2>5. ListInv'
    BY <1>0, <1>20, ConstantsAreNat DEF vars, ListInv, TypeOK, Times
  <2> QED
    BY <2>1, <2>2, <2>3, <2>4, <2>5 DEF IInv
<1> QED
  BY <1>1, <1>2, <1>3, <1>4, <1>5, <1>6, <1>7, <1>8, <1>9, <1>10, <1>11, <1>12, <1>13,
     <1>14, <1>15, <1>16, <1>17, <1>18, <1>19, <1>20 DEF Next, CallStep

THEOREM Inductive == Spec => []IInv
BY InitInv, NextInv, PTL DEF Spec

(* The state of a call keeps its types, an answer is waited for, and only  *)
(* attempts that were made are on their way.                               *)
THEOREM TypeCorrect == Spec => []TypeOK
BY Inductive, PTL DEF IInv

(* An authenticated client holds the one pair KSeF gave out for its        *)
(* operation, however many times the pair was asked for.                   *)
THEOREM HoldsThePair == Spec => []AuthenticatedHoldsThePair
BY Inductive, PTL DEF IInv, PairInv

(* A refused redemption is the doing of an earlier attempt of the same     *)
(* call, or of the expiry of its authentication token.                     *)
THEOREM RefusalIsOwnDoing == Spec => []RefusalIsExplained
BY Inductive, PTL DEF IInv, PairInv

(* A call that reports no authentication never asked for a pair.           *)
THEOREM FailureIsClean == Spec => []FailureLeavesNoPair
<1>1. IInv => FailureLeavesNoPair
  <2> SUFFICES ASSUME IInv, NEW t \in Tasks, pc[t] \in {"noCertificate", "authFailed", "timeout"}
               PROVE  op[t] # "redeemed" /\ wire[t] = {}
    BY DEF FailureLeavesNoPair
  <2>1. attempt[t] = 0
    BY DEF IInv, AskedInv, Asking, Holding
  <2> QED
    BY <2>1, ConstantsAreNat DEF IInv, AskedInv, TypeOK
<1> QED
  BY Inductive, <1>1, PTL

-----------------------------------------------------------------------------
\* A list is good for Overlap after KSeF read it.
LEMMA ListIsGood ==
  ASSUME TypeOK, NEW s \in Times, s <= now, ~HasValid(s)
  PROVE  now > s + Overlap
<1>1. PICK c \in Published(s) : ValidFrom[c] <= s /\ s + Overlap <= ValidTo[c]
  BY ListsAreGood
<1>2. c \in Certificates /\ ValidFrom[c] \in Nat /\ ValidTo[c] \in Nat
  BY <1>1, ValidityIsNat DEF Published
<1>3. ~(ValidFrom[c] <= now /\ now <= ValidTo[c])
  BY <1>1 DEF HasValid, Valid
<1> QED
  BY <1>1, <1>2, <1>3, ConstantsAreNat DEF TypeOK, Times

LEMMA ListStep ==
  ASSUME IInv, [Next]_vars, NEW t \in Tasks,
         pc'[t] \in {"noCertificate", "noKey"}, pc[t] # pc'[t]
  PROVE  now > store' + Overlap
<1>0. TypeOK /\ ListInv
  BY DEF IInv
<1> DEFINE Ends == store' \in Times /\ store' <= now /\ ~HasValid(store')
<1>1. ASSUME NEW u \in Tasks, Challenged(u) PROVE Ends
  BY <1>0, <1>1, ConstantsAreNat DEF Challenged, Goes, storeVars, TypeOK, ListInv
<1>2. ASSUME NEW u \in Tasks, MakeKey(u) PROVE Ends
  BY <1>0, <1>2, ConstantsAreNat DEF MakeKey, Selected, storeVars, TypeOK, ListInv
<1>3. ASSUME NEW u \in Tasks, LoadedForKey(u) PROVE Ends
  BY <1>0, <1>3, ConstantsAreNat DEF LoadedForKey, Loads, Goes, Selected, TypeOK, ListInv
<1>4. ASSUME NEW u \in Tasks, Begin(u) \/ ListArrives(u) \/ Started(u) \/ SeesSuccess(u)
                             \/ SeesFailure(u) \/ PollTimesOut(u) \/ Redeemed(u)
                             \/ RedeemRefused(u) \/ RedeemFails(u) \/ LoadFails(u)
      PROVE FALSE
  BY <1>0, <1>4 DEF Begin, ListArrives, Started, SeesSuccess, SeesFailure, PollTimesOut,
                    Redeemed, RedeemRefused, RedeemFails, LoadFails, Goes, TypeOK
<1>5. ASSUME NEW u \in Tasks, ListIsRead(u) \/ Interrupted(u) \/ RedeemRetried(u)
                             \/ OperationMoves(u) \/ \E k \in 1..MaxAttempts : KSeFRedeems(u, k)
      PROVE FALSE
  BY <1>0, <1>5 DEF ListIsRead, Interrupted, RedeemRetried, OperationMoves, KSeFRedeems, TypeOK
<1>6. ~Tick /\ ~UNCHANGED vars
  BY DEF Tick, vars
<1>7. Ends
  BY <1>1, <1>2, <1>3, <1>4, <1>5, <1>6 DEF Next, CallStep
<1> QED
  BY <1>0, <1>7, ListIsGood

(* For want of a certificate fails only a client whose list is older than  *)
(* what KSeF promises of a list: the store cannot be the cause earlier,    *)
(* whatever the tasks that share it do.                                    *)
THEOREM ListsFailOnlyWhenOld == Spec => OnlyOldListsFail
<1>1. IInv /\ [Next]_vars =>
        [\A t \in Tasks :
           pc'[t] \in {"noCertificate", "noKey"} /\ pc[t] # pc'[t] => now > store' + Overlap]_vars
  BY ListStep
<1> QED
  BY Inductive, <1>1, PTL DEF Spec, OnlyOldListsFail
-----------------------------------------------------------------------------
(* Part 2.  Permissions.                                                   *)

(* The tables.                                                             *)

\* A type of an identifier comes back as the word that was sent.
TypesComeBack(types) ==
  \A t \in DOMAIN types : types[t] \in DOMAIN ReadIdentifier /\ ReadIdentifier[types[t]] = t

LEMMA IdentifierTypes ==
  /\ TypesComeBack(NoTypes) /\ TypesComeBack(CertificateSubject)
  /\ TypesComeBack(AuthorizationSubject) /\ TypesComeBack([nip |-> "Nip"])
  /\ TypesComeBack([fingerprint |-> "Fingerprint"]) /\ TypesComeBack(SubunitContext)
  /\ TypesComeBack(EuAdminContext) /\ TypesComeBack(IndirectTarget)
  /\ TypesComeBack(Author) /\ TypesComeBack(PersonAuthorized) /\ TypesComeBack(QueryContext)
  /\ TypesComeBack(QueryTarget) /\ TypesComeBack(AuthorizedEntity)
  /\ TypesComeBack(AuthorizingEntity) /\ TypesComeBack(PersonalContext)
  /\ TypesComeBack(PersonalTarget) /\ TypesComeBack([nip_vat_ue |-> "NipVatUe"])
  BY DEF TypesComeBack, NoTypes, CertificateSubject, AuthorizationSubject, SubunitContext,
     EuAdminContext, IndirectTarget, Author, PersonAuthorized, QueryContext, QueryTarget,
     AuthorizedEntity, AuthorizingEntity, PersonalContext, PersonalTarget, ReadIdentifier, None

LEMMA GrantTypesComeBack ==
  ASSUME NEW grant \in DOMAIN GrantTypes
  PROVE  /\ TypesComeBack(GrantTypes[grant].subject) /\ TypesComeBack(GrantTypes[grant].context)
         /\ TypesComeBack(GrantTypes[grant].target)
         /\ None \notin DOMAIN GrantTypes[grant].subject
         /\ grant \in Kinds
<1>1. None \notin DOMAIN CertificateSubject /\ None \notin DOMAIN AuthorizationSubject
  BY DEF None, CertificateSubject, AuthorizationSubject
<1>2. None \notin DOMAIN [nip |-> "Nip"] /\ None \notin DOMAIN [fingerprint |-> "Fingerprint"]
  BY DEF None
<1>3. grant \in Kinds
  BY DEF Kinds
<1>5. TypesComeBack(GrantTypes[grant].subject) /\ None \notin DOMAIN GrantTypes[grant].subject
  BY <1>1, <1>2, IdentifierTypes DEF GrantTypes
<1>6. TypesComeBack(GrantTypes[grant].context) /\ TypesComeBack(GrantTypes[grant].target)
  BY IdentifierTypes DEF GrantTypes
<1> QED BY <1>3, <1>5, <1>6

LEMMA QueryTypesComeBack ==
  ASSUME NEW list \in Lists, NEW f \in Criteria
  PROVE  TypesComeBack(QueryTypes[list][f])
  BY IdentifierTypes DEF QueryTypes, Lists, Criteria

\* So does an identifier; a comparison at KSeF is the one the caller has in mind.
LEMMA IdentifierComesBack ==
  ASSUME NEW types, TypesComeBack(types), NEW id \in Identifiers, id.type \in DOMAIN types
  PROVE  /\ To(types, id) \in KSeFIdentifiers /\ To(types, id).value = id.value
         /\ Read(To(types, id)) = id
  BY DEF TypesComeBack, Identifiers, KSeFIdentifiers, To, Read

LEMMA ReadTellsApart ==
  ASSUME NEW a \in KSeFIdentifiers, NEW b \in KSeFIdentifiers, Read(a) = Read(b)
  PROVE  a = b
<1>1. a.value = b.value /\ ReadIdentifier[a.type] = ReadIdentifier[b.type]
  BY DEF Read, To
<1>2. \A s, t \in DOMAIN ReadIdentifier : ReadIdentifier[s] = ReadIdentifier[t] => s = t
  BY DEF ReadIdentifier, None
<1> QED BY <1>1, <1>2 DEF KSeFIdentifiers

LEMMA ComparisonIsMeant ==
  ASSUME NEW types, TypesComeBack(types), NEW id \in Identifiers, id.type \in DOMAIN types,
         NEW k \in KSeFIdentifiers
  PROVE  To(types, id) = k <=> Read(k) = id
  BY IdentifierComesBack, ReadTellsApart

LEMMA NothingIsReadAsNothing ==
  /\ NoIdentifier \in WholeIdentifiers /\ Read(NoIdentifier) = NoIdentifier
  /\ WholeIdentifiers \subseteq KSeFIdentifiers
<1>1. None \in DOMAIN ReadIdentifier /\ ReadIdentifier[None] = None
  BY DEF ReadIdentifier, None
<1>2. None \in Values
  BY DEF Values
<1> QED BY <1>1, <1>2 DEF NoIdentifier, WholeIdentifiers, KSeFIdentifiers, Read, To

LEMMA ReadIsAnIdentifier ==
  ASSUME NEW k \in KSeFIdentifiers
  PROVE  Read(k) \in Identifiers
  BY DEF KSeFIdentifiers, Identifiers, Read, To

-----------------------------------------------------------------------------
(* What a grant sends, and what its records say.                           *)

AskedContext(c) ==
  CASE c.op = "grant_authorization" -> Read(Company)
    [] c.op = "grant_eu_entity" -> Read(EuContext)
    [] OTHER -> c.context

AskedTarget(c) ==
  IF c.op = "grant_indirect" /\ ~Given(c.target)
  THEN [type |-> "all_partners", value |-> None] ELSE c.target

LEMMA SubjectIsSent ==
  ASSUME NEW c \in Calls
  PROVE  /\ GrantBody(c).subject \in WholeIdentifiers /\ GrantBody(c).subject.value # None
         /\ Read(GrantBody(c).subject) = c.subject
<1>1. /\ c.op \in DOMAIN GrantTypes /\ c.subject \in Identifiers /\ c.subject.value # None
      /\ c.subject.type \in DOMAIN GrantTypes[c.op].subject
  BY CallsAreTyped
<1>2. GrantBody(c).subject = To(GrantTypes[c.op].subject, c.subject)
  BY DEF GrantBody
<1> QED BY <1>1, <1>2, GrantTypesComeBack, IdentifierComesBack DEF WholeIdentifiers

LEMMA ContextIsSent ==
  ASSUME NEW c \in Calls
  PROVE  /\ ContextOf(GrantBody(c)) \in WholeIdentifiers
         /\ Read(ContextOf(GrantBody(c))) = AskedContext(c)
<1>1. /\ c.op \in DOMAIN GrantTypes /\ c.context \in Identifiers
      /\ c.context.type \in DOMAIN GrantTypes[c.op].context
      /\ (c.context.type = None) = (c.context.value = None)
  BY CallsAreTyped
<1>2. /\ GrantBody(c).kind = c.op
      /\ GrantBody(c).context = Optional(GrantTypes[c.op].context, c.context)
  BY DEF GrantBody
<1>3. Company \in WholeIdentifiers /\ EuContext \in WholeIdentifiers
  BY PartiesAreIdentified DEF WholeIdentifiers
<1>4. CASE c.context.type = None
  <2>1. c.context = NoIdentifier
    BY <1>1, <1>4 DEF Identifiers, NoIdentifier
  <2>2. GrantBody(c).context = NoIdentifier
    BY <1>2, <1>4 DEF Optional
  <2> QED BY <1>2, <1>3, <2>1, <2>2, NothingIsReadAsNothing DEF ContextOf, AskedContext
<1>5. CASE c.context.type # None
  <2>1. GrantBody(c).context = To(GrantTypes[c.op].context, c.context)
    BY <1>1, <1>2, <1>5 DEF Optional
  <2>2. /\ GrantBody(c).context \in WholeIdentifiers
        /\ Read(GrantBody(c).context) = c.context
    BY <1>1, <1>5, <2>1, GrantTypesComeBack, IdentifierComesBack DEF WholeIdentifiers
  <2> QED BY <1>2, <1>3, <2>2 DEF ContextOf, AskedContext
<1> QED BY <1>4, <1>5

LEMMA TargetIsSent ==
  ASSUME NEW c \in Calls
  PROVE  /\ TargetOf(GrantBody(c)) \in WholeIdentifiers
         /\ Whole(c) => Read(TargetOf(GrantBody(c))) = AskedTarget(c)
<1>1. /\ c.op \in DOMAIN GrantTypes /\ c.target \in Identifiers
      /\ c.target.type \in DOMAIN GrantTypes[c.op].target \union {None}
  BY CallsAreTyped
<1>2. /\ GrantBody(c).kind = c.op
      /\ GrantBody(c).target = Optional(GrantTypes[c.op].target, c.target)
  BY DEF GrantBody
<1> DEFINE Everybody == [type |-> "AllPartners", value |-> None]
<1>3. /\ Everybody \in WholeIdentifiers
      /\ Read(Everybody) = [type |-> "all_partners", value |-> None]
  <2>1. /\ "AllPartners" \in DOMAIN ReadIdentifier
        /\ ReadIdentifier["AllPartners"] = "all_partners"
    BY DEF ReadIdentifier
  <2> QED BY <2>1 DEF WholeIdentifiers, KSeFIdentifiers, Values, Read, To
<1>4. CASE Given(c.target)
  <2>1. GrantBody(c).target = To(GrantTypes[c.op].target, c.target)
    BY <1>2, <1>4 DEF Optional, Given
  <2>2. c.target.type \in DOMAIN GrantTypes[c.op].target /\ c.target.value # None
    BY <1>1, <1>4 DEF Given
  <2>3. /\ GrantBody(c).target \in WholeIdentifiers /\ GrantBody(c).target # NoIdentifier
        /\ Read(GrantBody(c).target) = c.target
    BY <1>1, <2>1, <2>2, GrantTypesComeBack, IdentifierComesBack
       DEF WholeIdentifiers, NoIdentifier
  <2> QED BY <1>4, <2>3 DEF TargetOf, AskedTarget
<1>5. CASE ~Given(c.target)
  <2>1. GrantBody(c).target = NoIdentifier
    BY <1>2, <1>5 DEF Optional, Given
  <2>2. CASE c.op = "grant_indirect"
    BY <1>2, <1>3, <1>5, <2>1, <2>2 DEF TargetOf, AskedTarget
  <2>3. CASE c.op # "grant_indirect"
    <3>1. TargetOf(GrantBody(c)) = NoIdentifier
      BY <1>2, <2>1, <2>3 DEF TargetOf
    <3>2. c.target.type = None
      <4>1. GrantTypes[c.op].target = NoTypes
        BY <1>1, <2>3 DEF GrantTypes
      <4> QED BY <1>1, <4>1 DEF NoTypes, None
    <3>3. Whole(c) => c.target = NoIdentifier
      BY <1>1, <3>2 DEF Whole, None, Identifiers, NoIdentifier
    <3> QED BY <2>3, <3>1, <3>3, NothingIsReadAsNothing DEF AskedTarget
  <2> QED BY <2>2, <2>3
<1> QED BY <1>4, <1>5

\* The words of a grant's scopes, those of the two grants without a list of them included.
ScopeTable(grant) ==
  CASE grant = "grant_subunit" -> [credentials_manage |-> "CredentialsManage"]
    [] grant = "grant_eu_entity_administration" -> EuQueryScope
    [] OTHER -> GrantTypes[grant].scope

\* The lists that show the records of each grant.
ShownIn ==
  [grant_person |-> {"persons", "personal"}, grant_entity |-> {"persons", "personal"},
   grant_indirect |-> {"persons", "personal"}, grant_authorization |-> {"authorizations"},
   grant_subunit |-> {"persons", "subunits"}, grant_eu_entity |-> {"eu_entities"},
   grant_eu_entity_administration |-> {"eu_entities"}]

\* A word of the SDK and a scope of KSeF stand for each other in a list.
ScopeFits(word, scope, list) ==
  /\ scope \in DOMAIN ReadScope[list] /\ ReadScope[list][scope] = word
  /\ \A t \in DOMAIN QueryTypes[list].scope : QueryTypes[list].scope[t] = scope <=> t = word

LEMMA ScopeWordsComeBack ==
  ASSUME NEW grant \in DOMAIN GrantTypes, NEW list \in ShownIn[grant],
         NEW word \in DOMAIN ScopeTable(grant)
  PROVE  ScopeFits(word, ScopeTable(grant)[word], list)
<1>1. CASE grant = "grant_person"
  BY <1>1 DEF ScopeTable, GrantTypes, ShownIn, ScopeFits, ReadScope, QueryTypes, PersonScope,
     ReadPersonScope, ReadPersonalScope, QueryPersonScope, PersonalScope
<1>2. CASE grant = "grant_entity"
  BY <1>2 DEF ScopeTable, GrantTypes, ShownIn, ScopeFits, ReadScope, QueryTypes, InvoiceScope,
     ReadPersonScope, ReadPersonalScope, QueryPersonScope, PersonalScope
<1>3. CASE grant = "grant_indirect"
  BY <1>3 DEF ScopeTable, GrantTypes, ShownIn, ScopeFits, ReadScope, QueryTypes, InvoiceScope,
     ReadPersonScope, ReadPersonalScope, QueryPersonScope, PersonalScope
<1>4. CASE grant = "grant_authorization"
  BY <1>4 DEF ScopeTable, GrantTypes, ShownIn, ScopeFits, ReadScope, QueryTypes,
     AuthorizationScope, ReadAuthorizationScope, QueryAuthorizationScope
<1>5. CASE grant = "grant_subunit"
  <2>1. word = "credentials_manage" /\ ScopeTable(grant)[word] = "CredentialsManage"
    BY <1>5 DEF ScopeTable
  <2>2. list \in {"persons", "subunits"}
    BY <1>5 DEF ShownIn
  <2>3. CASE list = "persons"
    BY <2>1, <2>3 DEF ScopeFits, ReadScope, QueryTypes, ReadPersonScope, QueryPersonScope
  <2>4. CASE list = "subunits"
    BY <2>1, <2>4 DEF ScopeFits, ReadScope, QueryTypes, ReadSubunitScope, NoTypes, None
  <2> QED BY <2>2, <2>3, <2>4
<1>6. CASE grant = "grant_eu_entity"
  BY <1>6 DEF ScopeTable, GrantTypes, ShownIn, ScopeFits, ReadScope, QueryTypes, EuScope,
     ReadEuScope, EuQueryScope
<1>7. CASE grant = "grant_eu_entity_administration"
  BY <1>7 DEF ScopeTable, ShownIn, ScopeFits, ReadScope, QueryTypes, ReadEuScope, EuQueryScope
<1> QED BY <1>1, <1>2, <1>3, <1>4, <1>5, <1>6, <1>7 DEF GrantTypes

\* What the caller asked for and what KSeF keeps are the same scopes in two languages.
LEMMA ScopesAreSent ==
  ASSUME NEW c \in Calls
  PROVE  /\ AskedScopes(c) \subseteq DOMAIN ScopeTable(c.op)
         /\ ScopesOf(GrantBody(c)) = {ScopeTable(c.op)[s] : s \in AskedScopes(c)}
<1>1. c.op \in DOMAIN GrantTypes /\ c.scopes \subseteq DOMAIN GrantTypes[c.op].scope
  BY CallsAreTyped
<1>2. /\ GrantBody(c).kind = c.op
      /\ GrantBody(c).scopes = {GrantTypes[c.op].scope[s] : s \in c.scopes}
  BY DEF GrantBody
<1>3. CASE c.op = "grant_subunit"
  BY <1>2, <1>3 DEF AskedScopes, ScopesOf, ScopeTable
<1>4. CASE c.op = "grant_eu_entity_administration"
  BY <1>2, <1>4 DEF AskedScopes, ScopesOf, ScopeTable, EuAdminScopes, EuQueryScope
<1>5. CASE c.op \notin {"grant_subunit", "grant_eu_entity_administration"}
  BY <1>1, <1>2, <1>5 DEF AskedScopes, ScopesOf, ScopeTable
<1> QED BY <1>3, <1>4, <1>5

LEMMA EveryGrantIsShown ==
  ASSUME NEW grant \in DOMAIN GrantTypes
  PROVE  ShownIn[grant] # {} /\ ShownIn[grant] \subseteq Lists
  BY DEF GrantTypes, ShownIn, Lists, QueryTypes

\* No two words stand for one scope.
LEMMA ScopeWordsTellApart ==
  ASSUME NEW grant \in DOMAIN GrantTypes, NEW s \in DOMAIN ScopeTable(grant),
         NEW t \in DOMAIN ScopeTable(grant), ScopeTable(grant)[s] = ScopeTable(grant)[t]
  PROVE  s = t
<1>1. PICK list \in ShownIn[grant] : TRUE
  BY EveryGrantIsShown
<1>2. /\ ReadScope[list][ScopeTable(grant)[s]] = s /\ ReadScope[list][ScopeTable(grant)[t]] = t
  BY ScopeWordsComeBack DEF ScopeFits
<1> QED BY <1>2

LEMMA ScopesAreKnown ==
  ASSUME NEW grant \in DOMAIN GrantTypes, NEW s \in DOMAIN ScopeTable(grant)
  PROVE  ScopeTable(grant)[s] \in KSeFScopes[grant] /\ ScopeTable(grant)[s] \in KnownScopes
<1>1. ScopeTable(grant)[s] \in KSeFScopes[grant]
  BY DEF ScopeTable, KSeFScopes, GrantTypes, EuQueryScope, EuAdminScopes
<1> QED BY <1>1, GrantTypesComeBack DEF KnownScopes

LEMMA AskedScopesAreFew ==
  ASSUME NEW c \in Calls
  PROVE  IsFiniteSet(AskedScopes(c))
<1> DEFINE all == {"invoice_read", "invoice_write", "introspection", "credentials_read",
                   "credentials_manage", "enforcement_operations", "subunit_manage",
                   "self_invoicing", "rr_invoicing", "tax_representative", "pef_invoicing",
                   "vat_ue_manage", "none"}
<1>1. DOMAIN ScopeTable(c.op) \subseteq all
  BY CallsAreTyped DEF ScopeTable, GrantTypes, PersonScope, InvoiceScope, AuthorizationScope,
     EuScope, EuQueryScope, NoTypes
<1>2. IsFiniteSet(all)
  <2> DEFINE word == <<"invoice_read", "invoice_write", "introspection", "credentials_read",
                       "credentials_manage", "enforcement_operations", "subunit_manage",
                       "self_invoicing", "rr_invoicing", "tax_representative",
                       "pef_invoicing", "vat_ue_manage", "none">>
  <2>1. PICK places : places = 1..13
    OBVIOUS
  <2>2. word \in Surjection(places, all)
    BY <2>1 DEF Surjection
  <2>3. IsFiniteSet(places)
    <3>1. PICK first \in Int, last \in Int : first = 1 /\ last = 13
      OBVIOUS
    <3>2. IsFiniteSet(first .. last)
      BY FS_Interval
    <3> QED BY <2>1, <3>1, <3>2
  <2> HIDE DEF word, all
  <2> QED BY <2>2, <2>3, FS_Surjection
<1> QED BY <1>1, <1>2, ScopesAreSent, FS_Subset

\* Each scope asked for is one record.
LEMMA AsManyRecordsAsScopes ==
  ASSUME NEW c \in Calls, NEW n
  PROVE  LET ids == {<<n, s>> : s \in ScopesOf(GrantBody(c))}
         IN  IsFiniteSet(ids) /\ Cardinality(ids) = Cardinality(AskedScopes(c))
<1> DEFINE ids == {<<n, s>> : s \in ScopesOf(GrantBody(c))}
           id == [s \in AskedScopes(c) |-> <<n, ScopeTable(c.op)[s]>>]
<1>1. c.op \in DOMAIN GrantTypes
  BY CallsAreTyped
<1>2. id \in [AskedScopes(c) -> ids] /\ \A i \in ids : \E s \in AskedScopes(c) : id[s] = i
  BY ScopesAreSent
<1>3. \A s, t \in AskedScopes(c) : id[s] = id[t] => s = t
  BY <1>1, ScopesAreSent, ScopeWordsTellApart
<1>4. id \in Bijection(AskedScopes(c), ids)
  BY <1>2, <1>3 DEF Bijection, Injection, Surjection, IsInjective
<1>5. IsFiniteSet(AskedScopes(c))
  BY AskedScopesAreFew
<1>6. ExistsBijection(AskedScopes(c), ids)
  BY <1>4 DEF ExistsBijection
<1> QED BY <1>5, <1>6, FS_Bijection

-----------------------------------------------------------------------------
(* What a listing shows.                                                   *)

\* The record of one scope of a grant, and the same in the caller's words.
RecordOf(n, c, s) ==
  [id |-> <<n, ScopeTable(c.op)[s]>>, kind |-> c.op, author |-> Me,
   authorized |-> GrantBody(c).subject, context |-> ContextOf(GrantBody(c)),
   target |-> TargetOf(GrantBody(c)), scope |-> ScopeTable(c.op)[s], state |-> "Active"]

InWords(c, s) ==
  [author |-> Read(Me), authorized |-> c.subject, context |-> AskedContext(c),
   target |-> AskedTarget(c), scope |-> s, state |-> "active"]

LEMMA RecordsOfACall ==
  ASSUME NEW c \in Calls, NEW n
  PROVE  /\ Records(n, GrantBody(c)) = {RecordOf(n, c, s) : s \in AskedScopes(c)}
         /\ Asked(c) = {InWords(c, s) : s \in AskedScopes(c)}
<1>1. GrantBody(c).kind = c.op
  BY DEF GrantBody
<1>2. Records(n, GrantBody(c)) = {RecordOf(n, c, s) : s \in AskedScopes(c)}
  BY <1>1, ScopesAreSent DEF Records, RecordOf
<1> QED BY <1>2 DEF Asked, InWords, AskedContext, AskedTarget

\* The records of a grant are as many as its scopes.
LEMMA OneRecordOfAScope ==
  ASSUME NEW c \in Calls, NEW n
  PROVE  LET own == {RecordOf(n, c, s) : s \in AskedScopes(c)}
         IN  IsFiniteSet(own) /\ Cardinality(own) = Cardinality(AskedScopes(c))
<1> DEFINE own == {RecordOf(n, c, s) : s \in AskedScopes(c)}
           record == [s \in AskedScopes(c) |-> RecordOf(n, c, s)]
<1>1. \A s, t \in AskedScopes(c) : record[s] = record[t] => s = t
  <2>1. c.op \in DOMAIN GrantTypes
    BY CallsAreTyped
  <2>2. \A s \in AskedScopes(c) : record[s].scope = ScopeTable(c.op)[s]
    BY DEF RecordOf
  <2> HIDE DEF record
  <2> QED BY <2>1, <2>2, ScopesAreSent, ScopeWordsTellApart
<1>2. record \in Bijection(AskedScopes(c), own)
  BY <1>1 DEF Bijection, Injection, Surjection, IsInjective
<1>3. ExistsBijection(AskedScopes(c), own)
  BY <1>2 DEF ExistsBijection
<1> QED BY <1>3, AskedScopesAreFew, FS_Bijection

LEMMA RecordsAreKSeFs ==
  ASSUME NEW c \in Calls, NEW n \in Nat \ {0}, NEW s \in AskedScopes(c)
  PROVE  RecordOf(n, c, s) \in KSeFRecords /\ RecordOf(n, c, s).scope \in KSeFScopes[c.op]
<1>1. c.op \in DOMAIN GrantTypes /\ c.op \in Kinds
  BY CallsAreTyped, GrantTypesComeBack
<1>2. /\ ScopeTable(c.op)[s] \in KSeFScopes[c.op] /\ ScopeTable(c.op)[s] \in KnownScopes
      /\ <<n, ScopeTable(c.op)[s]>> \in RecordIds
  BY <1>1, ScopesAreSent, ScopesAreKnown DEF RecordIds
<1>3. Me \in WholeIdentifiers
  BY PartiesAreIdentified DEF WholeIdentifiers
<1> QED BY <1>1, <1>2, <1>3, SubjectIsSent, ContextIsSent, TargetIsSent DEF RecordOf, KSeFRecords

\* The fields of an entry that its list shows are the record's, read.
LEMMA EntryShows ==
  ASSUME NEW list \in Lists, NEW r, r.author.value # None, r.authorized.value # None,
         NEW d, d.author = Read(r.author), d.authorized = Read(r.authorized),
         d.context = Read(r.context), d.target = Read(r.target),
         d.scope = ReadScope[list][r.scope], d.state = ReadState[r.state]
  PROVE  View(list, Entry(list, r)) = View(list, d)
<1> DEFINE e == Entry(list, r)
<1>1. ReadByValue(r.author) = Read(r.author) /\ ReadByValue(r.authorized) = Read(r.authorized)
  BY DEF ReadByValue
<1>2. SUFFICES \A f \in Shows[list] \union {"scope"} : e[f] = d[f]
  <2>1. \A f \in Criteria \union {"scope", "state"} :
          View(list, e)[f] = View(list, d)[f]
    BY <1>2 DEF View
  <2> QED BY <2>1 DEF View
<1>3. CASE list = "persons"
  BY <1>1, <1>3 DEF Entry, PersonEntry, Bare, ReadScope, Shows, Criteria
<1>4. CASE list = "personal"
  BY <1>4 DEF Entry, PersonalEntry, Bare, ReadScope, Shows
<1>5. CASE list = "entities"
  BY <1>5 DEF Entry, EntityEntry, Bare, ReadScope, Shows
<1>6. CASE list = "authorizations"
  BY <1>6 DEF Entry, AuthorizationEntry, Bare, ReadScope, Shows
<1>7. CASE list = "entity_roles"
  BY <1>7 DEF Entry, RoleEntry, Bare, ReadScope, Shows
<1>8. CASE list = "subunits"
  BY <1>8 DEF Entry, SubunitEntry, Bare, ReadScope, Shows
<1>9. CASE list = "eu_entities"
  BY <1>9 DEF Entry, EuEntry, Bare, ReadScope, Shows
<1>10. CASE list = "subordinate_entities"
  BY <1>10 DEF Entry, SubordinateEntry, Bare, ReadScope, Shows
<1> QED BY <1>3, <1>4, <1>5, <1>6, <1>7, <1>8, <1>9, <1>10 DEF Lists, QueryTypes

\* An entry is a record of the SDK, and carries the record's identifier.
LEMMA EntryIsAnEntry ==
  ASSUME NEW list \in Lists, NEW r \in KSeFRecords, r.scope \in DOMAIN ReadScope[list]
  PROVE  Entry(list, r) \in Entries /\ Entry(list, r).id = r.id
<1> DEFINE e == Entry(list, r)
<1>1. /\ {Read(r.author), Read(r.authorized), Read(r.context), Read(r.target)}
           \subseteq Identifiers
      /\ NoIdentifier \in Identifiers
  BY NothingIsReadAsNothing, ReadIsAnIdentifier DEF KSeFRecords
<1>2. ReadByValue(r.author) \in Identifiers /\ ReadByValue(r.authorized) \in Identifiers
  BY <1>1 DEF ReadByValue
<1>3. r.id \in RecordIds /\ ReadState[r.state] \in {"active", "inactive", None}
  BY DEF KSeFRecords, ReadState
<1>4. ReadScope[list][r.scope] \in EntryScopes
  <2> DEFINE WordsOf(l) == {ReadScope[l][s] : s \in DOMAIN ReadScope[l]}
  <2>1. /\ ReadScope[list][r.scope] \in WordsOf(list)
        /\ WordsOf(list) \in {WordsOf(l) : l \in Lists}
    OBVIOUS
  <2>2. EntryScopes = {None} \union UNION {WordsOf(l) : l \in Lists}
    BY DEF EntryScopes
  <2> HIDE DEF Words
  <2> QED BY <2>1, <2>2
<1>5. SUFFICES /\ e = [id |-> e.id, author |-> e.author, authorized |-> e.authorized,
                       context |-> e.context, target |-> e.target, scope |-> e.scope,
                       state |-> e.state]
               /\ {e.author, e.authorized, e.context, e.target} \subseteq Identifiers
               /\ e.id = r.id /\ e.scope = ReadScope[list][r.scope]
               /\ e.state \in {"active", "inactive", None}
  BY <1>3, <1>4 DEF Entries
<1>6. CASE list = "persons"
  BY <1>1, <1>2, <1>3, <1>6 DEF Entry, PersonEntry, Bare, ReadScope
<1>7. CASE list = "personal"
  BY <1>1, <1>3, <1>7 DEF Entry, PersonalEntry, Bare, ReadScope
<1>8. CASE list = "entities"
  BY <1>1, <1>8 DEF Entry, EntityEntry, Bare, ReadScope
<1>9. CASE list = "authorizations"
  BY <1>1, <1>9 DEF Entry, AuthorizationEntry, Bare, ReadScope
<1>10. CASE list = "entity_roles"
  BY <1>1, <1>10 DEF Entry, RoleEntry, Bare, ReadScope
<1>11. CASE list = "subunits"
  BY <1>1, <1>11 DEF Entry, SubunitEntry, Bare, ReadScope
<1>12. CASE list = "eu_entities"
  BY <1>1, <1>12 DEF Entry, EuEntry, Bare, ReadScope
<1>13. CASE list = "subordinate_entities"
  BY <1>1, <1>13 DEF Entry, SubordinateEntry, Bare, ReadScope
<1> QED BY <1>6, <1>7, <1>8, <1>9, <1>10, <1>11, <1>12, <1>13 DEF Lists, QueryTypes

\* What belongs to a list has a scope the list can be read with, if KSeF has that scope for it.
LEMMA KSeFScopesAreReadable ==
  ASSUME NEW q \in Queries, NEW r, Belongs(QueryBody(q), r), r.scope \in KSeFScopes[r.kind]
  PROVE  r.scope \in DOMAIN ReadScope[q.list]
<1>1. q.list \in Lists /\ QueryBody(q).list = q.list
  BY QueriesAreTyped DEF QueryBody
<1>2. CASE q.list = "persons"
  <2>1. r.kind \in {"grant_person", "grant_entity", "grant_indirect", "grant_subunit"}
    BY <1>1, <1>2 DEF Belongs
  <2> QED BY <1>2, <2>1 DEF KSeFScopes, ReadScope, ReadPersonScope, PersonScope, InvoiceScope
<1>3. CASE q.list = "personal"
  <2>1. r.kind \in {"grant_person", "grant_entity", "grant_indirect"}
    BY <1>1, <1>3 DEF Belongs
  <2> QED BY <1>3, <2>1 DEF KSeFScopes, ReadScope, ReadPersonalScope, PersonScope, InvoiceScope
<1>4. CASE q.list = "authorizations"
  <2>1. r.kind \in {"grant_authorization", "received_authorization"}
    BY <1>1, <1>4 DEF Belongs
  <2> QED BY <1>4, <2>1 DEF KSeFScopes, ReadScope, ReadAuthorizationScope, AuthorizationScope
<1>5. CASE q.list = "entities"
  <2>1. r.kind = "received_invoices"
    BY <1>1, <1>5 DEF Belongs
  <2> QED BY <1>5, <2>1 DEF KSeFScopes, ReadScope, ReadEntityScope, InvoiceScope
<1>6. CASE q.list = "eu_entities"
  <2>1. r.kind \in EuKinds
    BY <1>1, <1>6 DEF Belongs
  <2> QED BY <1>6, <2>1 DEF EuKinds, KSeFScopes, ReadScope, ReadEuScope, EuScope, EuAdminScopes
<1>7. CASE q.list = "subordinate_entities"
  <2>1. r.kind = "subordinate_role"
    BY <1>1, <1>7 DEF Belongs
  <2> QED BY <1>7, <2>1 DEF KSeFScopes, ReadScope
<1>8. CASE q.list = "subunits"
  <2>1. r.kind = "grant_subunit"
    BY <1>1, <1>8 DEF Belongs
  <2> QED BY <1>8, <2>1 DEF KSeFScopes, ReadScope, ReadSubunitScope
<1>9. CASE q.list = "entity_roles"
  <2>1. r.kind = "role"
    BY <1>1, <1>9 DEF Belongs
  <2> QED BY <1>9, <2>1 DEF KSeFScopes, ReadScope
<1> QED BY <1>1, <1>2, <1>3, <1>4, <1>5, <1>6, <1>7, <1>8, <1>9 DEF Lists, QueryTypes

-----------------------------------------------------------------------------
(* What a query asks for.                                                  *)

\* A list to which a record of a grant belongs is one that shows the grant.
LEMMA GrantsAreShown ==
  ASSUME NEW q \in Queries, NEW r, Belongs(QueryBody(q), r), r.kind \in DOMAIN GrantTypes
  PROVE  q.list \in Lists /\ q.list \in ShownIn[r.kind]
<1>1. q.list \in Lists /\ QueryBody(q).list = q.list
  BY QueriesAreTyped DEF QueryBody
<1>2. q.list \notin {"entities", "subordinate_entities", "entity_roles"}
  BY <1>1 DEF Belongs, GrantTypes
<1>3. q.list \in {"persons", "authorizations", "personal", "eu_entities", "subunits"}
  BY <1>1, <1>2 DEF Lists, QueryTypes
<1>4. CASE q.list = "persons"
  BY <1>1, <1>4 DEF Belongs, ShownIn
<1>5. CASE q.list = "authorizations"
  BY <1>1, <1>5 DEF Belongs, ShownIn, GrantTypes
<1>6. CASE q.list = "personal"
  BY <1>1, <1>6 DEF Belongs, ShownIn
<1>7. CASE q.list = "eu_entities"
  BY <1>1, <1>7 DEF Belongs, EuKinds, ShownIn
<1>8. CASE q.list = "subunits"
  BY <1>1, <1>8 DEF Belongs, ShownIn
<1> QED BY <1>1, <1>3, <1>4, <1>5, <1>6, <1>7, <1>8

\* A criterion compares at KSeF what the caller compares.
LEMMA CriterionIsMeant ==
  ASSUME NEW q \in Queries, NEW f \in Criteria, NEW k \in KSeFIdentifiers
  PROVE  (QueryBody(q).where[f] # NoIdentifier => k = QueryBody(q).where[f])
           <=> (Given(q.where[f]) => Read(k) = q.where[f])
<1> DEFINE id == q.where[f]
           types == QueryTypes[q.list][f]
<1>1. /\ q.list \in Lists /\ id \in Identifiers /\ id.type \in DOMAIN types \union {None}
      /\ TypesComeBack(types)
  BY QueriesAreTyped, QueryTypesComeBack
<1>2. QueryBody(q).where[f] = Optional(types, id)
  BY DEF QueryBody
<1>3. CASE Given(id)
  <2>1. id.type \in DOMAIN types /\ id.value # None
    BY <1>1, <1>3 DEF Given
  <2>2. Optional(types, id) = To(types, id) /\ To(types, id) # NoIdentifier
    BY <1>3, <2>1 DEF Optional, Given, To, NoIdentifier
  <2>3. To(types, id) = k <=> Read(k) = id
    BY <1>1, <2>1, ComparisonIsMeant
  <2> QED BY <1>2, <1>3, <2>2, <2>3
<1>4. CASE ~Given(id)
  BY <1>2, <1>4 DEF Optional, Given
<1> QED BY <1>3, <1>4

\* KSeF finds a record of a grant exactly when what was asked for answers the query.
LEMMA QueryIsMeant ==
  ASSUME NEW q \in Queries, NEW c \in Calls, NEW n, NEW s \in AskedScopes(c), Whole(c),
         Belongs(QueryBody(q), RecordOf(n, c, s))
  PROVE  /\ Meets(QueryBody(q), RecordOf(n, c, s)) <=> Satisfies(InWords(c, s), q)
         /\ View(q.list, Entry(q.list, RecordOf(n, c, s))) = View(q.list, InWords(c, s))
<1> DEFINE r == RecordOf(n, c, s)
           d == InWords(c, s)
           body == QueryBody(q)
<1>1. c.op \in DOMAIN GrantTypes /\ r.kind = c.op /\ s \in DOMAIN ScopeTable(c.op)
  BY CallsAreTyped, ScopesAreSent DEF RecordOf
<1>2. q.list \in Lists /\ q.list \in ShownIn[c.op]
  BY <1>1, GrantsAreShown
<1>3. ScopeFits(s, r.scope, q.list)
  BY <1>1, <1>2, ScopeWordsComeBack DEF RecordOf
<1>4. /\ Me \in KSeFIdentifiers /\ Me.value # None
      /\ WholeIdentifiers \subseteq KSeFIdentifiers
  BY PartiesAreIdentified, NothingIsReadAsNothing
<1>5. /\ r.author \in KSeFIdentifiers /\ Read(r.author) = d.author
      /\ r.authorized \in KSeFIdentifiers /\ Read(r.authorized) = d.authorized
      /\ r.context \in KSeFIdentifiers /\ Read(r.context) = d.context
      /\ r.target \in KSeFIdentifiers /\ Read(r.target) = d.target
      /\ r.author.value # None /\ r.authorized.value # None
  BY <1>4, SubjectIsSent, ContextIsSent, TargetIsSent DEF RecordOf, InWords
<1>6. \A f \in Criteria : r[f] \in KSeFIdentifiers /\ Read(r[f]) = d[f]
  BY <1>5 DEF Criteria, RecordOf, InWords
<1>7. View(q.list, Entry(q.list, r)) = View(q.list, d)
  <2>1. /\ d.scope = ReadScope[q.list][r.scope] /\ d.state = ReadState[r.state]
    BY <1>3 DEF ScopeFits, RecordOf, InWords, ReadState
  <2> QED BY <1>2, <1>5, <2>1, EntryShows
<1>8. (\A f \in Criteria : body.where[f] # NoIdentifier => r[f] = body.where[f])
        <=> (\A f \in Criteria : Given(q.where[f]) => d[f] = q.where[f])
  BY <1>6, CriterionIsMeant
<1>9. (body.scopes # {} => r.scope \in body.scopes) <=> (q.scopes # {} => d.scope \in q.scopes)
  <2> DEFINE scope == QueryTypes[q.list].scope
  <2>1. body.scopes = {scope[t] : t \in q.scopes} /\ q.scopes \subseteq DOMAIN scope
    BY QueriesAreTyped DEF QueryBody
  <2>2. \A t \in DOMAIN scope : scope[t] = r.scope <=> t = s
    BY <1>3 DEF ScopeFits
  <2>3. d.scope = s
    BY DEF InWords
  <2> HIDE DEF scope, r, d, body
  <2> QED BY <2>1, <2>2, <2>3
<1>10. (body.state # None => r.state = body.state) <=> (q.state # None => d.state = q.state)
  <2>1. /\ r.state = "Active" /\ d.state = "active" /\ body.state = StateToSpec[q.state]
        /\ q.state \in DOMAIN StateToSpec
    BY QueriesAreTyped DEF RecordOf, InWords, QueryBody
  <2> HIDE DEF r, d, body
  <2> QED BY <2>1 DEF StateToSpec, None
<1> HIDE DEF r, d, body
<1>11. Meets(body, r) <=> Satisfies(d, q)
  BY <1>8, <1>9, <1>10 DEF Meets, Satisfies, r, body
<1> QED BY <1>7, <1>11 DEF r, d, body

-----------------------------------------------------------------------------
(* The inductive invariant.                                                *)

\* The operation was a grant, and KSeF has carried it out.
CarriedOut(n) == n \in DOMAIN ops /\ ops[n].op = "grant" /\ ops[n].state = "done"

GrantsSendTheirCalls ==
  \A n \in DOMAIN ops : ops[n].op = "grant" => ops[n].body = GrantBody(ops[n].call)

ConfirmedAreDone == \A n \in confirmed : ops[n].state = "done"

\* A record is somebody else's, or one of a grant of the caller that was carried out.
RecordsAreOfGrants ==
  \A r \in granted :
    \/ r \in Foreign
    \/ CarriedOut(r.id[1]) /\ r \in Records(r.id[1], ops[r.id[1]].body)

GoneAreOfGrants ==
  \A id \in gone :
    CarriedOut(id[1]) /\ \E s \in ScopesOf(ops[id[1]].body) : id = <<id[1], s>>

\* What was granted is in force or was revoked.
NothingIsLost ==
  \A n \in DOMAIN ops : CarriedOut(n) =>
    \A s \in ScopesOf(ops[n].body) : <<n, s>> \in gone \/ \E r \in granted : r.id = <<n, s>>

PermissionsInv ==
  /\ PermissionsTypeOK /\ GrantsSendTheirCalls /\ ConfirmedAreDone
  /\ RecordsAreOfGrants /\ GoneAreOfGrants /\ NothingIsLost

\* The caller's records, and the operations that made them.
LEMMA OperationTypes ==
  ASSUME PermissionsTypeOK, NEW n \in DOMAIN ops
  PROVE  /\ n \in Nat \ {0} /\ ops[n] \in Operations
         /\ ops[n].op = "grant" => ops[n].call \in Calls
         /\ ops[n].op = "revoke" => ops[n].id \in RecordIds
  BY DEF PermissionsTypeOK, Operations

\* A record of the caller's is that of a scope asked for.
LEMMA OwnRecords ==
  ASSUME PermissionsInv, NEW r \in granted, r \notin Foreign
  PROVE  /\ CarriedOut(r.id[1])
         /\ \E s \in AskedScopes(ops[r.id[1]].call) :
              r = RecordOf(r.id[1], ops[r.id[1]].call, s)
<1> DEFINE n == r.id[1]
<1>1. CarriedOut(n) /\ r \in Records(n, ops[n].body)
  BY DEF PermissionsInv, RecordsAreOfGrants
<1>2. ops[n].call \in Calls /\ ops[n].body = GrantBody(ops[n].call)
  BY <1>1, OperationTypes DEF PermissionsInv, GrantsSendTheirCalls, CarriedOut
<1> QED BY <1>1, <1>2, RecordsOfACall

\* The number of a record tells whose it is.
LEMMA NumbersTell ==
  ASSUME PermissionsInv, NEW r \in granted
  PROVE  (r.id[1] = 0) = (r \in Foreign)
<1>1. CASE r \in Foreign
  BY <1>1, ForeignRecordsAreOthers
<1>2. CASE r \notin Foreign
  <2>1. r.id[1] \in DOMAIN ops
    BY <1>2, OwnRecords DEF CarriedOut
  <2> QED BY <1>2, <2>1, OperationTypes DEF PermissionsInv
<1> QED BY <1>1, <1>2

\* The operations keep what they are about; only their states move, and done is for good.
OpsGrow ==
  /\ DOMAIN ops \subseteq DOMAIN ops'
  /\ \A n \in DOMAIN ops :
       /\ ops'[n].op = ops[n].op
       /\ ops[n].op = "grant" => ops'[n].call = ops[n].call /\ ops'[n].body = ops[n].body
       /\ ops[n].state = "done" => ops'[n].state = "done"

LEMMA FinishingGrows ==
  ASSUME PermissionsTypeOK, NEW n \in DOMAIN ops, PendingOp(n), NEW state \in OpStates,
         ops' = [ops EXCEPT ![n].state = state]
  PROVE  /\ ops' \in Seq(Operations) /\ DOMAIN ops' = DOMAIN ops /\ OpsGrow
         /\ ops'[n].state = state /\ \A m \in DOMAIN ops : m # n => ops'[m] = ops[m]
<1>1. ops \in Seq(Operations) /\ ops[n] \in Operations
  BY DEF PermissionsTypeOK
<1> DEFINE new == [ops[n] EXCEPT !.state = state]
<1>2. /\ new \in Operations /\ new.op = ops[n].op /\ new.state = state
      /\ ops[n].op = "grant" => new.call = ops[n].call /\ new.body = ops[n].body
  <2>1. CASE ops[n] \in [op : {"grant"}, call : Calls, body : {GrantBody(c) : c \in Calls},
                         state : OpStates]
    <3> DEFINE bodies == {GrantBody(c) : c \in Calls}
    <3> HIDE DEF bodies
    <3>1. ops[n] \in [op : {"grant"}, call : Calls, body : bodies, state : OpStates]
      BY <2>1 DEF bodies
    <3>2. new \in [op : {"grant"}, call : Calls, body : bodies, state : OpStates]
      BY <3>1
    <3>3. new \in Operations
      BY <3>2 DEF Operations, bodies
    <3> QED BY <3>1, <3>3
  <2>2. CASE ops[n] \in [op : {"revoke"}, branch : {"common", "authorizations"},
                         id : RecordIds, state : OpStates]
    <3>1. new \in [op : {"revoke"}, branch : {"common", "authorizations"},
                   id : RecordIds, state : OpStates]
      BY <2>2
    <3>2. new \in Operations
      BY <3>1 DEF Operations
    <3> QED BY <2>2, <3>2
  <2> QED BY <1>1, <2>1, <2>2 DEF Operations
<1>3. ops' = [ops EXCEPT ![n] = new]
  OBVIOUS
<1> HIDE DEF new
<1>4. /\ DOMAIN ops' = DOMAIN ops /\ ops'[n] = new
      /\ \A m \in DOMAIN ops : m # n => ops'[m] = ops[m]
  BY <1>1, <1>3
<1>5. ops' \in Seq(Operations)
  BY <1>1, <1>2, <1>3
<1> QED BY <1>2, <1>4, <1>5 DEF OpsGrow, PendingOp

LEMMA StartingGrows ==
  ASSUME PermissionsTypeOK, NEW new \in Operations, ops' = Append(ops, new)
  PROVE  /\ ops' \in Seq(Operations) /\ OpsGrow
         /\ DOMAIN ops' = DOMAIN ops \union {Len(ops) + 1} /\ ops'[Len(ops) + 1] = new
         /\ \A m \in DOMAIN ops : ops'[m] = ops[m]
<1>1. ops \in Seq(Operations) /\ Len(ops) \in Nat /\ DOMAIN ops = 1..Len(ops)
  BY DEF PermissionsTypeOK
<1>2. /\ ops' \in Seq(Operations) /\ DOMAIN ops' = 1 .. (Len(ops) + 1)
      /\ ops'[Len(ops) + 1] = new /\ \A m \in 1..Len(ops) : ops'[m] = ops[m]
  BY <1>1
<1> QED BY <1>1, <1>2 DEF OpsGrow

LEMMA CarriedOutStays ==
  ASSUME OpsGrow, NEW n, CarriedOut(n)
  PROVE  CarriedOut(n)' /\ ops'[n].body = ops[n].body
  BY DEF OpsGrow, CarriedOut

\* What keeps the records, and carries no grant out, keeps the invariant.
LEMMA KeepingRecords ==
  ASSUME PermissionsInv, PermissionsTypeOK', GrantsSendTheirCalls', OpsGrow,
         \A n : CarriedOut(n)' => CarriedOut(n), UNCHANGED <<granted, confirmed, gone>>
  PROVE  PermissionsInv'
<1>1. ConfirmedAreDone'
  BY DEF PermissionsInv, PermissionsTypeOK, ConfirmedAreDone, OpsGrow
<1>2. RecordsAreOfGrants' /\ GoneAreOfGrants'
  BY CarriedOutStays DEF PermissionsInv, RecordsAreOfGrants, GoneAreOfGrants
<1>3. NothingIsLost'
  <2> SUFFICES ASSUME NEW n, CarriedOut(n)', NEW s \in ScopesOf(ops'[n].body)
               PROVE  <<n, s>> \in gone \/ \E r \in granted : r.id = <<n, s>>
    BY DEF NothingIsLost
  <2>1. CarriedOut(n) /\ n \in DOMAIN ops /\ s \in ScopesOf(ops[n].body)
    BY CarriedOutStays DEF CarriedOut
  <2> QED BY <2>1 DEF PermissionsInv, NothingIsLost
<1> QED BY <1>1, <1>2, <1>3 DEF PermissionsInv

LEMMA GrantKeepsInv ==
  ASSUME PermissionsInv, NEW c \in Calls, Grant(c)
  PROVE  PermissionsInv'
<1> DEFINE new == [op |-> "grant", call |-> c, body |-> GrantBody(c), state |-> "pending"]
<1>1. PermissionsTypeOK /\ GrantsSendTheirCalls
  BY DEF PermissionsInv
<1>2. ops' = Append(ops, new) /\ UNCHANGED <<granted, confirmed, answer, gone>>
  BY DEF Grant
<1>3. new \in Operations
  <2> DEFINE bodies == {GrantBody(d) : d \in Calls}
  <2>1. GrantBody(c) \in bodies
    OBVIOUS
  <2> HIDE DEF bodies
  <2>2. new \in [op : {"grant"}, call : Calls, body : bodies, state : OpStates]
    BY <2>1 DEF OpStates
  <2> QED BY <2>2 DEF Operations, bodies
<1>4. new.op = "grant" /\ new.call = c /\ new.body = GrantBody(c) /\ new.state # "done"
  OBVIOUS
<1> HIDE DEF new
<1>5. /\ ops' \in Seq(Operations) /\ OpsGrow
      /\ DOMAIN ops' = DOMAIN ops \union {Len(ops) + 1} /\ ops'[Len(ops) + 1] = new
      /\ \A m \in DOMAIN ops : ops'[m] = ops[m]
  BY <1>1, <1>2, <1>3, StartingGrows
<1>6. PermissionsTypeOK'
  BY <1>1, <1>2, <1>5 DEF PermissionsTypeOK
<1>7. GrantsSendTheirCalls'
  BY <1>1, <1>4, <1>5 DEF GrantsSendTheirCalls
<1>8. \A n : CarriedOut(n)' => CarriedOut(n)
  BY <1>4, <1>5 DEF CarriedOut
<1> QED BY <1>2, <1>5, <1>6, <1>7, <1>8, KeepingRecords

LEMMA RevokeKeepsInv ==
  ASSUME PermissionsInv, NEW e \in answer.entries, NEW branch \in {"common", "authorizations"},
         Revoke(branch, e)
  PROVE  PermissionsInv'
<1> DEFINE new == [op |-> "revoke", branch |-> branch, id |-> e.id, state |-> "pending"]
<1>1. PermissionsTypeOK /\ GrantsSendTheirCalls
  BY DEF PermissionsInv
<1>2. ops' = Append(ops, new) /\ answer' = NoAnswer /\ UNCHANGED <<granted, confirmed, gone>>
  BY DEF Revoke
<1>3. new \in Operations
  <2>1. e.id \in RecordIds
    BY <1>1 DEF PermissionsTypeOK, Entries
  <2>2. new \in [op : {"revoke"}, branch : {"common", "authorizations"}, id : RecordIds,
                state : OpStates]
    BY <2>1 DEF OpStates
  <2> QED BY <2>2 DEF Operations
<1>4. new.op = "revoke" /\ new.state # "done"
  OBVIOUS
<1> HIDE DEF new
<1>5. /\ ops' \in Seq(Operations) /\ OpsGrow
      /\ DOMAIN ops' = DOMAIN ops \union {Len(ops) + 1} /\ ops'[Len(ops) + 1] = new
      /\ \A m \in DOMAIN ops : ops'[m] = ops[m]
  BY <1>1, <1>2, <1>3, StartingGrows
<1>6. PermissionsTypeOK'
  BY <1>1, <1>2, <1>5 DEF PermissionsTypeOK, NoAnswer
<1>7. GrantsSendTheirCalls'
  BY <1>1, <1>4, <1>5 DEF GrantsSendTheirCalls
<1>8. \A n : CarriedOut(n)' => CarriedOut(n)
  BY <1>4, <1>5 DEF CarriedOut
<1> QED BY <1>2, <1>5, <1>6, <1>7, <1>8, KeepingRecords

LEMMA RefusalKeepsInv ==
  ASSUME PermissionsInv, NEW n \in DOMAIN ops, KSeFRefuses(n)
  PROVE  PermissionsInv'
<1>1. /\ PermissionsTypeOK /\ GrantsSendTheirCalls /\ PendingOp(n)
      /\ ops' = [ops EXCEPT ![n].state = "failed"]
      /\ UNCHANGED <<granted, confirmed, answer, gone>>
  BY DEF PermissionsInv, KSeFRefuses
<1>2. /\ ops' \in Seq(Operations) /\ DOMAIN ops' = DOMAIN ops /\ OpsGrow
      /\ ops'[n].state = "failed" /\ \A m \in DOMAIN ops : m # n => ops'[m] = ops[m]
  <2>1. "failed" \in OpStates
    BY DEF OpStates
  <2> QED BY <1>1, <2>1, FinishingGrows
<1>3. PermissionsTypeOK'
  BY <1>1, <1>2 DEF PermissionsTypeOK
<1>4. GrantsSendTheirCalls'
  BY <1>1, <1>2 DEF GrantsSendTheirCalls, OpsGrow
<1>5. \A m : CarriedOut(m)' => CarriedOut(m)
  BY <1>2 DEF CarriedOut
<1> QED BY <1>1, <1>2, <1>3, <1>4, <1>5, KeepingRecords

LEMMA StatusKeepsInv ==
  ASSUME PermissionsInv, NEW n \in DOMAIN ops, GetOperationStatus(n)
  PROVE  PermissionsInv'
<1>1. UNCHANGED <<granted, ops, answer, gone>>
  BY DEF GetOperationStatus
<1>2. confirmed' = confirmed \/ (confirmed' = confirmed \union {n} /\ ops[n].state = "done")
  <2>1. ops[n].state \in OpStates
    BY OperationTypes DEF PermissionsInv, Operations
  <2> QED BY <2>1 DEF GetOperationStatus, StatusCode, OpStates
<1>3. PermissionsTypeOK' /\ ConfirmedAreDone'
  BY <1>1, <1>2 DEF PermissionsInv, PermissionsTypeOK, ConfirmedAreDone
<1>4. GrantsSendTheirCalls' /\ RecordsAreOfGrants' /\ GoneAreOfGrants' /\ NothingIsLost'
  BY <1>1 DEF PermissionsInv, GrantsSendTheirCalls, RecordsAreOfGrants, GoneAreOfGrants,
     NothingIsLost, CarriedOut
<1> QED BY <1>3, <1>4 DEF PermissionsInv

LEMMA CarryingOutKeepsInv ==
  ASSUME PermissionsInv, NEW n \in DOMAIN ops, KSeFGrants(n)
  PROVE  PermissionsInv'
<1> DEFINE c == ops[n].call
<1>1. /\ PermissionsTypeOK /\ PendingOp(n) /\ ops[n].op = "grant"
      /\ granted' = granted \union Records(n, ops[n].body)
      /\ ops' = [ops EXCEPT ![n].state = "done"]
      /\ UNCHANGED <<confirmed, answer, gone>>
  BY DEF PermissionsInv, KSeFGrants
<1>2. /\ ops' \in Seq(Operations) /\ DOMAIN ops' = DOMAIN ops /\ OpsGrow
      /\ ops'[n].state = "done" /\ \A m \in DOMAIN ops : m # n => ops'[m] = ops[m]
  <2>1. "done" \in OpStates
    BY DEF OpStates
  <2> QED BY <1>1, <2>1, FinishingGrows
<1>3. n \in Nat \ {0} /\ c \in Calls /\ ops[n].body = GrantBody(c)
  BY <1>1, OperationTypes DEF PermissionsInv, GrantsSendTheirCalls
<1>4. CarriedOut(n)' /\ ops'[n].body = ops[n].body
  BY <1>1, <1>2 DEF CarriedOut, OpsGrow
<1>5. \A r \in Records(n, ops[n].body) : r \in KSeFRecords /\ r.id[1] = n
  <2>1. \A s \in AskedScopes(c) : RecordOf(n, c, s) \in KSeFRecords
    BY <1>3, RecordsAreKSeFs
  <2>2. \A s \in AskedScopes(c) : RecordOf(n, c, s).id[1] = n
    BY DEF RecordOf
  <2>3. Records(n, ops[n].body) = {RecordOf(n, c, s) : s \in AskedScopes(c)}
    BY <1>3, RecordsOfACall
  <2> QED BY <2>1, <2>2, <2>3
<1>6. PermissionsTypeOK'
  BY <1>1, <1>2, <1>5 DEF PermissionsTypeOK
<1>7. GrantsSendTheirCalls' /\ ConfirmedAreDone'
  BY <1>1, <1>2 DEF PermissionsInv, PermissionsTypeOK, GrantsSendTheirCalls, ConfirmedAreDone,
     OpsGrow
<1>8. RecordsAreOfGrants'
  <2> SUFFICES ASSUME NEW r \in granted', r \notin Foreign
               PROVE  CarriedOut(r.id[1])' /\ r \in Records(r.id[1], ops'[r.id[1]].body)
    BY DEF RecordsAreOfGrants
  <2>1. CASE r \in granted
    BY <1>2, <2>1, CarriedOutStays DEF PermissionsInv, RecordsAreOfGrants
  <2>2. CASE r \in Records(n, ops[n].body)
    BY <1>4, <1>5, <2>2
  <2> QED BY <1>1, <2>1, <2>2
<1>9. GoneAreOfGrants'
  BY <1>1, <1>2, CarriedOutStays DEF PermissionsInv, GoneAreOfGrants
<1>10. NothingIsLost'
  <2> SUFFICES ASSUME NEW m, CarriedOut(m)', NEW s \in ScopesOf(ops'[m].body)
               PROVE  <<m, s>> \in gone' \/ \E r \in granted' : r.id = <<m, s>>
    BY DEF NothingIsLost
  <2>1. CASE m = n
    <3> DEFINE r == [id |-> <<n, s>>, kind |-> ops[n].body.kind, author |-> Me,
                     authorized |-> ops[n].body.subject, context |-> ContextOf(ops[n].body),
                     target |-> TargetOf(ops[n].body), scope |-> s, state |-> "Active"]
    <3>1. r \in Records(n, ops[n].body) /\ r.id = <<n, s>>
      BY <1>4, <2>1 DEF Records
    <3> QED BY <1>1, <2>1, <3>1
  <2>2. CASE m # n
    <3>1. CarriedOut(m) /\ m \in DOMAIN ops /\ s \in ScopesOf(ops[m].body)
      BY <1>2, <2>2 DEF CarriedOut
    <3> QED BY <1>1, <3>1 DEF PermissionsInv, NothingIsLost
  <2> QED BY <2>1, <2>2
<1> QED BY <1>6, <1>7, <1>8, <1>9, <1>10 DEF PermissionsInv

\* A record that goes is remembered, if it was the caller's.
LEMMA RevocationKeepsInv ==
  ASSUME PermissionsInv, PermissionsTypeOK', GrantsSendTheirCalls', OpsGrow,
         \A n : CarriedOut(n)' => CarriedOut(n), confirmed' = confirmed, NEW id,
         granted' \subseteq granted, \A r \in granted : r.id # id => r \in granted',
         \E r \in granted : r.id = id, gone' = gone \union {i \in {id} : i[1] # 0}
  PROVE  PermissionsInv'
<1>1. ConfirmedAreDone'
  BY DEF PermissionsInv, PermissionsTypeOK, ConfirmedAreDone, OpsGrow
<1>2. RecordsAreOfGrants'
  BY CarriedOutStays DEF PermissionsInv, RecordsAreOfGrants
<1>3. GoneAreOfGrants'
  <2> SUFFICES ASSUME NEW i \in gone'
               PROVE  CarriedOut(i[1])' /\ \E s \in ScopesOf(ops'[i[1]].body) : i = <<i[1], s>>
    BY DEF GoneAreOfGrants
  <2>1. CarriedOut(i[1]) /\ \E s \in ScopesOf(ops[i[1]].body) : i = <<i[1], s>>
    <3>1. CASE i \in gone
      BY <3>1 DEF PermissionsInv, GoneAreOfGrants
    <3>2. CASE i = id /\ i[1] # 0
      <4>1. PICK r \in granted : r.id = i
        BY <3>2
      <4>2. CarriedOut(i[1]) /\ r \in Records(i[1], ops[i[1]].body)
        BY <3>2, <4>1, NumbersTell DEF PermissionsInv, RecordsAreOfGrants
      <4> QED BY <4>1, <4>2 DEF Records
    <3> QED BY <3>1, <3>2
  <2> QED BY <2>1, CarriedOutStays
<1>4. NothingIsLost'
  <2> SUFFICES ASSUME NEW n, CarriedOut(n)', NEW s \in ScopesOf(ops'[n].body)
               PROVE  <<n, s>> \in gone' \/ \E r \in granted' : r.id = <<n, s>>
    BY DEF NothingIsLost
  <2>1. CarriedOut(n) /\ n \in DOMAIN ops /\ s \in ScopesOf(ops[n].body)
    BY CarriedOutStays DEF CarriedOut
  <2>2. <<n, s>> \in gone \/ \E r \in granted : r.id = <<n, s>>
    BY <2>1 DEF PermissionsInv, NothingIsLost
  <2>3. n # 0
    BY <2>1, OperationTypes DEF PermissionsInv
  <2> QED BY <2>2, <2>3
<1> QED BY <1>1, <1>2, <1>3, <1>4 DEF PermissionsInv

LEMMA KSeFRevokesKeepsInv ==
  ASSUME PermissionsInv, NEW n \in DOMAIN ops, KSeFRevokes(n)
  PROVE  PermissionsInv'
<1> DEFINE id == ops[n].id
<1>1. /\ PermissionsTypeOK /\ GrantsSendTheirCalls /\ PendingOp(n) /\ ops[n].op = "revoke"
      /\ \E r \in granted : r.id = id
      /\ granted' = {r \in granted : r.id # id}
      /\ gone' = gone \union {i \in {id} : i[1] # 0}
      /\ ops' = [ops EXCEPT ![n].state = "done"]
      /\ UNCHANGED <<confirmed, answer>>
  BY DEF PermissionsInv, KSeFRevokes
<1>2. /\ ops' \in Seq(Operations) /\ DOMAIN ops' = DOMAIN ops /\ OpsGrow
      /\ \A m \in DOMAIN ops : m # n => ops'[m] = ops[m]
  <2>1. "done" \in OpStates
    BY DEF OpStates
  <2> QED BY <1>1, <2>1, FinishingGrows
<1>3. id \in RecordIds
  BY <1>1, OperationTypes
<1> HIDE DEF id
<1>4. PermissionsTypeOK'
  BY <1>1, <1>2, <1>3 DEF PermissionsTypeOK
<1>5. GrantsSendTheirCalls'
  BY <1>1, <1>2 DEF GrantsSendTheirCalls, OpsGrow
<1>6. \A m : CarriedOut(m)' => CarriedOut(m)
  BY <1>1, <1>2 DEF CarriedOut, OpsGrow
<1> QED BY <1>1, <1>2, <1>4, <1>5, <1>6, RevocationKeepsInv

LEMMA OthersRevokeKeepsInv ==
  ASSUME PermissionsInv, NEW r \in granted, OthersRevoke(r)
  PROVE  PermissionsInv'
<1> DEFINE id == r.id
<1>1. /\ granted' = granted \ {r} /\ gone' = gone \union {i \in {id} : i[1] # 0}
      /\ UNCHANGED <<ops, confirmed, answer>>
  BY DEF OthersRevoke
<1>2. PermissionsTypeOK /\ GrantsSendTheirCalls /\ id \in RecordIds
  BY DEF PermissionsInv, PermissionsTypeOK, KSeFRecords
<1>3. \E q \in granted : q.id = id
  OBVIOUS
<1>4. \A q \in granted : q.id # id => q \in granted'
  BY <1>1
<1> HIDE DEF id
<1>5. PermissionsTypeOK' /\ GrantsSendTheirCalls'
  BY <1>1, <1>2 DEF PermissionsTypeOK, GrantsSendTheirCalls
<1>6. OpsGrow /\ \A n : CarriedOut(n)' => CarriedOut(n)
  BY <1>1 DEF OpsGrow, CarriedOut
<1> QED BY <1>1, <1>3, <1>4, <1>5, <1>6, RevocationKeepsInv

LEMMA OthersGrantKeepsInv ==
  ASSUME PermissionsInv, NEW r \in Foreign, OthersGrant(r)
  PROVE  PermissionsInv'
<1>1. granted' = granted \union {r} /\ UNCHANGED <<ops, confirmed, answer, gone>>
  BY DEF OthersGrant
<1>2. PermissionsTypeOK'
  BY <1>1, ForeignRecordsAreOthers DEF PermissionsInv, PermissionsTypeOK
<1>3. GrantsSendTheirCalls' /\ ConfirmedAreDone' /\ GoneAreOfGrants'
  BY <1>1 DEF PermissionsInv, GrantsSendTheirCalls, ConfirmedAreDone, GoneAreOfGrants, CarriedOut
<1>4. RecordsAreOfGrants' /\ NothingIsLost'
  BY <1>1 DEF PermissionsInv, RecordsAreOfGrants, NothingIsLost, CarriedOut
<1> QED BY <1>2, <1>3, <1>4 DEF PermissionsInv

LEMMA QueryKeepsInv ==
  ASSUME PermissionsInv, NEW q \in Queries, Query(q)
  PROVE  PermissionsInv'
<1>1. UNCHANGED <<granted, ops, confirmed, gone>>
  BY DEF Query
<1>2. PICK page \in SUBSET Found(q) : answer' = Listing(q, page, page # Found(q))
  BY DEF Query
<1>3. PermissionsTypeOK /\ page \subseteq KSeFRecords /\ q.list \in Lists
  BY QueriesAreTyped DEF PermissionsInv, PermissionsTypeOK, Found
<1>4. PermissionsTypeOK'
  <2>1. CASE Readable(q.list, page)
    <3> DEFINE entries == {Entry(q.list, r) : r \in page}
    <3>1. entries \subseteq Entries
      BY <1>3, <2>1, EntryIsAnEntry DEF Readable
    <3>2. answer' = [outcome |-> "page", query |-> q, more |-> page # Found(q),
                     entries |-> entries]
      BY <1>2, <2>1 DEF Listing
    <3> HIDE DEF entries
    <3> QED BY <1>1, <1>3, <3>1, <3>2 DEF PermissionsTypeOK
  <2>2. CASE ~Readable(q.list, page)
    BY <1>1, <1>2, <1>3, <2>2 DEF PermissionsTypeOK, Listing
  <2> QED BY <2>1, <2>2
<1>5. /\ GrantsSendTheirCalls' /\ ConfirmedAreDone' /\ RecordsAreOfGrants' /\ GoneAreOfGrants'
      /\ NothingIsLost'
  BY <1>1 DEF PermissionsInv, GrantsSendTheirCalls, ConfirmedAreDone, RecordsAreOfGrants,
     GoneAreOfGrants, NothingIsLost, CarriedOut
<1> QED BY <1>4, <1>5 DEF PermissionsInv

LEMMA PermissionsStart == PermissionsInit => PermissionsInv
<1> SUFFICES ASSUME PermissionsInit PROVE PermissionsInv
  OBVIOUS
<1>1. /\ granted = {} /\ ops = <<>> /\ confirmed = {} /\ gone = {}
      /\ answer = [outcome |-> "none", query |-> NoQuery, more |-> FALSE, entries |-> {}]
  BY DEF PermissionsInit, NoAnswer
<1>2. PermissionsTypeOK
  BY <1>1 DEF PermissionsTypeOK
<1> QED BY <1>1, <1>2 DEF PermissionsInv, GrantsSendTheirCalls, ConfirmedAreDone,
      RecordsAreOfGrants, GoneAreOfGrants, NothingIsLost

LEMMA PermissionsStep == PermissionsInv /\ [PermissionsNext]_permissionsVars => PermissionsInv'
<1> SUFFICES ASSUME PermissionsInv, [PermissionsNext]_permissionsVars PROVE PermissionsInv'
  OBVIOUS
<1>1. CASE \E c \in Calls : Grant(c)
  BY <1>1, GrantKeepsInv
<1>2. CASE \E e \in answer.entries : RevokeAuthorization(e) \/ RevokeCommon(e)
  BY <1>2, RevokeKeepsInv DEF RevokeAuthorization, RevokeCommon
<1>3. CASE \E q \in Queries : Query(q)
  BY <1>3, QueryKeepsInv
<1>4. CASE \E n \in DOMAIN ops :
             GetOperationStatus(n) \/ KSeFGrants(n) \/ KSeFRevokes(n) \/ KSeFRefuses(n)
  BY <1>4, StatusKeepsInv, CarryingOutKeepsInv, KSeFRevokesKeepsInv, RefusalKeepsInv
<1>5. CASE \E r \in Foreign : OthersGrant(r)
  BY <1>5, OthersGrantKeepsInv
<1>6. CASE \E r \in granted : OthersRevoke(r)
  BY <1>6, OthersRevokeKeepsInv
<1>7. CASE UNCHANGED permissionsVars
  BY <1>7 DEF permissionsVars, PermissionsInv, PermissionsTypeOK, GrantsSendTheirCalls,
     ConfirmedAreDone, RecordsAreOfGrants, GoneAreOfGrants, NothingIsLost, CarriedOut
<1> QED BY <1>1, <1>2, <1>3, <1>4, <1>5, <1>6, <1>7 DEF PermissionsNext

LEMMA PermissionsInvariance == PermissionsSpec => []PermissionsInv
  BY PermissionsStart, PermissionsStep, PTL DEF PermissionsSpec

-----------------------------------------------------------------------------
(* The theorems.                                                           *)

LEMMA OnlyQueriesAnswer ==
  ASSUME [PermissionsNext]_permissionsVars, answer' # answer, answer'.outcome # "none"
  PROVE  \E q \in Queries : Query(q)
<1>1. \A e, branch : ~Revoke(branch, e)
  BY DEF Revoke, NoAnswer
<1>2. ~ \E e \in answer.entries : RevokeAuthorization(e) \/ RevokeCommon(e)
  BY <1>1 DEF RevokeAuthorization, RevokeCommon
<1>3. ~ \E c \in Calls : Grant(c)
  BY DEF Grant
<1>4. ~ \E n \in DOMAIN ops :
          GetOperationStatus(n) \/ KSeFGrants(n) \/ KSeFRevokes(n) \/ KSeFRefuses(n)
  BY DEF GetOperationStatus, KSeFGrants, KSeFRevokes, KSeFRefuses
<1>5. /\ ~ \E r \in Foreign : OthersGrant(r)
      /\ ~ \E r \in granted : OthersRevoke(r)
  BY DEF OthersGrant, OthersRevoke
<1>6. ~ UNCHANGED permissionsVars
  BY DEF permissionsVars
<1> QED BY <1>2, <1>3, <1>4, <1>5, <1>6 DEF PermissionsNext

\* The records, the operations and the answers are of their types in every state; in
\* particular no record of KSeF has half an identifier, whatever halves the caller gives.
THEOREM PermissionsAreTyped == PermissionsSpec => []PermissionsTypeOK
<1>1. PermissionsInv => PermissionsTypeOK
  BY DEF PermissionsInv
<1> QED BY <1>1, PermissionsInvariance, PTL

\* A grant whose status was read as done (code 200) has made every record asked for: each
\* is in force or was revoked.
THEOREM DoneMeansGranted == PermissionsSpec => []ConfirmedIsInForce
<1>1. ASSUME PermissionsInv PROVE ConfirmedIsInForce
  <2> SUFFICES ASSUME NEW n \in confirmed, ops[n].op = "grant"
               PROVE  Cardinality({r.id : r \in RecordsOf(n)} \union {id \in gone : id[1] = n})
                        = Cardinality(AskedScopes(ops[n].call))
    BY DEF ConfirmedIsInForce
  <2> DEFINE body == ops[n].body
             ids == {<<n, s>> : s \in ScopesOf(body)}
  <2>1. CarriedOut(n) /\ n \in DOMAIN ops
    BY <1>1 DEF PermissionsInv, PermissionsTypeOK, ConfirmedAreDone, CarriedOut
  <2>2. ops[n].call \in Calls /\ body = GrantBody(ops[n].call) /\ n # 0
    BY <1>1, <2>1, OperationTypes DEF PermissionsInv, GrantsSendTheirCalls
  <2>3. \A r \in RecordsOf(n) : r.id \in ids
    <3> SUFFICES ASSUME NEW r \in granted, r.id[1] = n PROVE r.id \in ids
      BY DEF RecordsOf
    <3>1. r \in Records(n, body)
      BY <1>1, <2>2, NumbersTell DEF PermissionsInv, RecordsAreOfGrants
    <3> QED BY <3>1 DEF Records
  <2>4. \A id \in gone : id[1] = n => id \in ids
    BY <1>1 DEF PermissionsInv, GoneAreOfGrants
  <2>5. \A s \in ScopesOf(body) : <<n, s>> \in gone \/ \E r \in RecordsOf(n) : r.id = <<n, s>>
    BY <1>1, <2>1 DEF PermissionsInv, NothingIsLost, RecordsOf
  <2>6. {r.id : r \in RecordsOf(n)} \union {id \in gone : id[1] = n} = ids
    BY <2>3, <2>4, <2>5
  <2> QED BY <2>2, <2>6, AsManyRecordsAsScopes
<1> QED BY <1>1, PermissionsInvariance, PTL

\* A page is unreadable (assert_never in the listings' mappers) only because of a scope the
\* SDK has no word for, in a record somebody else made.
THEOREM OwnGrantsAreReadable == PermissionsSpec => OnlyForeignScopesBreakAPage
<1> DEFINE Unreadable ==
      answer' # answer /\ answer'.outcome = "AssertionError" =>
        \E r \in granted : r.id[1] = 0 /\ r.scope \notin Words
<1>1. ASSUME PermissionsInv, [PermissionsNext]_permissionsVars PROVE Unreadable
  <2> SUFFICES ASSUME answer' # answer, answer'.outcome = "AssertionError"
               PROVE  \E r \in granted : r.id[1] = 0 /\ r.scope \notin Words
    OBVIOUS
  <2>1. PICK q \in Queries : Query(q)
    BY <1>1, OnlyQueriesAnswer
  <2>2. PICK page \in SUBSET Found(q) : answer' = Listing(q, page, page # Found(q))
    BY <2>1 DEF Query
  <2>3. PICK r \in page : r.scope \notin DOMAIN ReadScope[q.list]
    BY <2>2 DEF Listing, Readable
  <2>4. r \in granted /\ Belongs(QueryBody(q), r)
    BY DEF Found, Meets
  <2>5. r.scope \notin KSeFScopes[r.kind]
    BY <2>3, <2>4, KSeFScopesAreReadable
  <2>6. r \in Foreign
    <3> SUFFICES ASSUME r \notin Foreign PROVE FALSE
      OBVIOUS
    <3>1. PICK s \in AskedScopes(ops[r.id[1]].call) :
            r = RecordOf(r.id[1], ops[r.id[1]].call, s)
      BY <1>1, <2>4, OwnRecords
    <3>2. ops[r.id[1]].call \in Calls /\ r.id[1] \in Nat \ {0}
      BY <1>1, <2>4, OwnRecords, OperationTypes DEF PermissionsInv, CarriedOut
    <3>3. r.scope \in KSeFScopes[ops[r.id[1]].call.op] /\ r.kind = ops[r.id[1]].call.op
      BY <3>1, <3>2, RecordsAreKSeFs DEF RecordOf
    <3> QED BY <2>5, <3>3
  <2> QED BY <2>4, <2>5, <2>6, ForeignRecordsAreOthers
<1>2. PermissionsInv /\ [PermissionsNext]_permissionsVars => [Unreadable]_permissionsVars
  BY <1>1
<1> QED BY <1>2, PermissionsInvariance, PTL DEF PermissionsSpec, OnlyForeignScopesBreakAPage

\* A listing that ends with its page shows of every grant of the caller that is whole and
\* intact exactly what was asked for, as far as it answers the query.
THEOREM ListingsSayWhatWasAsked == PermissionsSpec => ListsWhatWasAsked
<1> DEFINE Faithful ==
      answer' # answer /\ answer'.outcome = "page" /\ ~answer'.more =>
       LET q == answer'.query
       IN  \A n \in DOMAIN ops :
             /\ Intact(n) /\ Whole(ops[n].call)
             /\ \A r \in RecordsOf(n) : Belongs(QueryBody(q), r)
             => Told(n)' = {View(q.list, d) : d \in {e \in Asked(ops[n].call) : Satisfies(e, q)}}
<1>1. ASSUME PermissionsInv, [PermissionsNext]_permissionsVars PROVE Faithful
  <2> SUFFICES ASSUME answer' # answer, answer'.outcome = "page", ~answer'.more,
                      NEW n \in DOMAIN ops, Intact(n), Whole(ops[n].call),
                      \A r \in RecordsOf(n) : Belongs(QueryBody(answer'.query), r)
               PROVE  Told(n)' =
                        {View(answer'.query.list, d) :
                           d \in {e \in Asked(ops[n].call) : Satisfies(e, answer'.query)}}
    OBVIOUS
  <2> DEFINE c == ops[n].call
             own(s) == RecordOf(n, c, s)
  <2>1. PICK q \in Queries : Query(q)
    BY <1>1, OnlyQueriesAnswer
  <2>2. /\ answer'.query = q /\ q.list \in Lists
        /\ answer'.entries = {Entry(q.list, r) : r \in Found(q)}
        /\ Readable(q.list, Found(q))
    <3>1. PICK page \in SUBSET Found(q) : answer' = Listing(q, page, page # Found(q))
      BY <2>1 DEF Query
    <3> QED BY <3>1, QueriesAreTyped DEF Listing
  <2>3. c \in Calls /\ n \in Nat \ {0} /\ ops[n].body = GrantBody(c)
    BY <1>1, OperationTypes DEF PermissionsInv, GrantsSendTheirCalls, Intact
  <2>4. RecordsOf(n) = {own(s) : s \in AskedScopes(c)}
    <3>1. RecordsOf(n) \subseteq {own(s) : s \in AskedScopes(c)}
      <4> SUFFICES ASSUME NEW r \in granted, r.id[1] = n
                   PROVE  r \in {own(s) : s \in AskedScopes(c)}
        BY DEF RecordsOf
      <4> QED BY <1>1, <2>3, NumbersTell, OwnRecords
    <3>2. /\ IsFiniteSet({own(s) : s \in AskedScopes(c)})
          /\ Cardinality({own(s) : s \in AskedScopes(c)}) = Cardinality(AskedScopes(c))
      BY <2>3, OneRecordOfAScope
    <3> QED BY <3>1, <3>2, FS_Subset DEF Intact
  <2>5. \A s \in AskedScopes(c) :
          /\ Meets(QueryBody(q), own(s)) <=> Satisfies(InWords(c, s), q)
          /\ View(q.list, Entry(q.list, own(s))) = View(q.list, InWords(c, s))
    BY <2>2, <2>3, <2>4, QueryIsMeant
  <2>6. \A r \in Found(q) : Entry(q.list, r).id = r.id
    BY <1>1, <2>2, EntryIsAnEntry DEF PermissionsInv, PermissionsTypeOK, Readable, Found
  <2>7. Told(n)' = {View(q.list, e) : e \in {d \in answer'.entries : d.id[1] = n}}
    BY <2>2 DEF Told
  <2>8. {View(q.list, e) : e \in {d \in answer'.entries : d.id[1] = n}}
          = {View(q.list, Entry(q.list, r)) :
               r \in {r \in RecordsOf(n) : Meets(QueryBody(q), r)}}
    BY <2>2, <2>6 DEF Found, RecordsOf
  <2>9. Asked(c) = {InWords(c, s) : s \in AskedScopes(c)}
    BY <2>3, RecordsOfACall
  <2> HIDE DEF c, own
  <2>10. {View(q.list, Entry(q.list, r)) : r \in {r \in RecordsOf(n) : Meets(QueryBody(q), r)}}
           = {View(q.list, d) : d \in {e \in Asked(c) : Satisfies(e, q)}}
    BY <2>4, <2>5, <2>9
  <2> QED BY <2>2, <2>7, <2>8, <2>10 DEF c
<1>2. PermissionsInv /\ [PermissionsNext]_permissionsVars => [Faithful]_permissionsVars
  BY <1>1
<1> QED BY <1>2, PermissionsInvariance, PTL DEF PermissionsSpec, ListsWhatWasAsked
=============================================================================
