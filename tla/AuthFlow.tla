------------------------------ MODULE AuthFlow ------------------------------
(***************************************************************************)
(* clients/async_auth.py and core/stores.py: tasks that authenticate, with *)
(* a KSeF token or a signature, on one root client, and then make key      *)
(* material for sessions and exports.  They share the root client's        *)
(* certificate store.                                                      *)
(*                                                                         *)
(* Authentication is challenge, start, poll, redeem.  KSeF gives the pair  *)
(* of tokens of an operation out once; the request for it goes through the *)
(* retry middleware, so it is modelled attempt by attempt.  When a poll    *)
(* gives up is Polling's subject; here it may give up at any time.  A      *)
(* certificate serves both usages.                                         *)
(***************************************************************************)
EXTENDS Naturals

CONSTANTS
  Tasks,          \* the calls on one root client
  TokenTasks,     \* those that use with_token(); the others use with_xades()
  Certificates,   \* what KSeF publishes in the course of time
  PublishedFrom, ValidFrom, ValidTo, \* functions of the certificates to times
  Overlap,        \* how long each list KSeF gives out is good for at least
  MaxTime,        \* bound on the clock
  MaxAttempts,    \* RetryConfig.max_attempts
  NoList          \* the store is empty; the list has not been read

VARIABLES
  now,      \* the clock
  store,    \* when KSeF read the list in the certificate store, or NoList
  pc,       \* pc[t]: where the call of t is, or how it ended
  listed,   \* listed[t]: when KSeF read the list t is waiting for, or NoList
  op,       \* op[t]: the authentication operation at KSeF
  attempt,  \* attempt[t]: the number of redeem requests t has sent
  wire,     \* wire[t]: those that KSeF has not received
  reply,    \* reply[t]: the answer to the last of them, on its way
  redeemer  \* redeemer[t]: the attempt KSeF gave the pair to, or 0 (history)

vars == <<now, store, pc, listed, op, attempt, wire, reply, redeemer>>
storeVars == <<now, store, listed>>
redeemVars == <<attempt, wire, reply, redeemer>>

Times == 0..MaxTime

Published(n) == {c \in Certificates : PublishedFrom[c] <= n /\ n <= ValidTo[c]}

ASSUME TokenTasksAreTasks == TokenTasks \subseteq Tasks
ASSUME SomeAttempts == MaxAttempts \in Nat \ {0}
ASSUME TimesAreNat == MaxTime \in Nat /\ Overlap \in Nat /\ NoList \notin Nat
ASSUME ValidityIsNat == ValidFrom \in [Certificates -> Nat] /\ ValidTo \in [Certificates -> Nat]
ASSUME ListsAreGood ==
  \A n \in Times : \E c \in Published(n) : ValidFrom[c] <= n /\ n + Overlap <= ValidTo[c]

Pending == {"fetching", "challenging", "starting", "polling", "redeeming", "loading"}
Holding == {"authenticated", "loading", "encrypted", "noKey"}
Outcomes == {"noCertificate", "authFailed", "timeout", "refused", "raised"}

Init ==
  /\ now = 0
  /\ store = NoList
  /\ pc = [t \in Tasks |-> "idle"]
  /\ listed = [t \in Tasks |-> NoList]
  /\ op = [t \in Tasks |-> "none"]
  /\ attempt = [t \in Tasks |-> 0]
  /\ wire = [t \in Tasks |-> {}]
  /\ reply = [t \in Tasks |-> "none"]
  /\ redeemer = [t \in Tasks |-> 0]

Goes(t, from, to) == pc[t] = from /\ pc' = [pc EXCEPT ![t] = to]

-----------------------------------------------------------------------------
(* The certificate store.                                                  *)

\* Fault: a certificate is no longer used on the last day of its validity.
ValidExclusive(c, n) == ValidFrom[c] <= n /\ n < ValidTo[c]

Valid(c, n) == ValidFrom[c] <= n /\ n <= ValidTo[c]

\* get_valid(): the list read at s has a certificate that is valid now.
HasValid(s) == \E c \in Published(s) : Valid(c, now)

\* _ensure_certificates(): only an empty store is filled.
Begin(t) ==
  /\ Goes(t, "idle", IF t \in TokenTasks /\ store = NoList THEN "fetching" ELSE "challenging")
  /\ UNCHANGED <<storeVars, op, redeemVars>>

ListIsRead(t) ==
  /\ pc[t] \in {"fetching", "loading"} /\ listed[t] = NoList
  /\ listed' = [listed EXCEPT ![t] = now]
  /\ UNCHANGED <<now, store, pc, op, redeemVars>>

\* The answer replaces whatever is in the store by then.
Loads(t) ==
  /\ listed[t] # NoList
  /\ store' = listed[t]
  /\ listed' = [listed EXCEPT ![t] = NoList]
  /\ UNCHANGED <<now, op, redeemVars>>

ListArrives(t) == Loads(t) /\ Goes(t, "fetching", "challenging")

-----------------------------------------------------------------------------
(* with_token() and with_xades().                                          *)

\* The challenge is there: the certificate is chosen after the wait for it.
Challenged(t) ==
  /\ Goes(t, "challenging",
          IF t \in TokenTasks /\ ~HasValid(store) THEN "noCertificate" ELSE "starting")
  /\ UNCHANGED <<storeVars, op, redeemVars>>

Started(t) ==
  /\ Goes(t, "starting", "polling")
  /\ op' = [op EXCEPT ![t] = "processing"]
  /\ UNCHANGED <<storeVars, redeemVars>>

SendsRedeem(t, k) ==
  /\ attempt' = [attempt EXCEPT ![t] = k]
  /\ wire' = [wire EXCEPT ![t] = @ \union {k}]
  /\ reply' = [reply EXCEPT ![t] = "none"]
  /\ UNCHANGED redeemer

\* Fault: the operation is redeemed as soon as a status was read.
SeesSuccessEarly(t) ==
  /\ op[t] \in {"processing", "success"}
  /\ Goes(t, "polling", "redeeming")
  /\ SendsRedeem(t, 1)
  /\ UNCHANGED <<storeVars, op>>

SeesSuccess(t) ==
  /\ op[t] = "success"
  /\ Goes(t, "polling", "redeeming")
  /\ SendsRedeem(t, 1)
  /\ UNCHANGED <<storeVars, op>>

SeesFailure(t) ==
  /\ op[t] = "failed"
  /\ Goes(t, "polling", "authFailed")
  /\ UNCHANGED <<storeVars, op, redeemVars>>

\* Fault: the timeout spans the redemption, too.
CallTimesOut(t) ==
  /\ pc[t] \in {"polling", "redeeming"}
  /\ pc' = [pc EXCEPT ![t] = "timeout"]
  /\ reply' = [reply EXCEPT ![t] = "none"]
  /\ UNCHANGED <<storeVars, op, attempt, wire, redeemer>>

PollTimesOut(t) ==
  /\ Goes(t, "polling", "timeout")
  /\ UNCHANGED <<storeVars, op, redeemVars>>

(* A request fails, or the task is cancelled.  A start that fails may have *)
(* been carried out.                                                       *)
Interrupted(t) ==
  /\ pc[t] \in {"fetching", "challenging", "starting", "polling"}
  /\ pc' = [pc EXCEPT ![t] = "raised"]
  /\ listed' = [listed EXCEPT ![t] = NoList]
  /\ op' \in {op, [op EXCEPT ![t] = IF pc[t] = "starting" THEN "processing" ELSE @]}
  /\ UNCHANGED <<now, store, redeemVars>>

-----------------------------------------------------------------------------
(* _redeem(), through AsyncRetryMiddleware.                                *)

\* The authenticated client is built from the pair.
Redeemed(t) ==
  /\ reply[t] = "pair"
  /\ Goes(t, "redeeming", "authenticated")
  /\ reply' = [reply EXCEPT ![t] = "none"]
  /\ UNCHANGED <<storeVars, op, attempt, wire, redeemer>>

RedeemRefused(t) ==
  /\ reply[t] = "refused"
  /\ Goes(t, "redeeming", "refused")
  /\ reply' = [reply EXCEPT ![t] = "none"]
  /\ UNCHANGED <<storeVars, op, attempt, wire, redeemer>>

(* A transport error or a status that is retried: the request is under way *)
(* still, was carried out and its answer lost, or never comes to anything. *)
RedeemRetried(t) ==
  /\ pc[t] = "redeeming"
  /\ attempt[t] < MaxAttempts
  /\ SendsRedeem(t, attempt[t] + 1)
  /\ UNCHANGED <<storeVars, pc, op>>

\* The last attempt fails so, or the task is cancelled.
RedeemFails(t) ==
  /\ Goes(t, "redeeming", "raised")
  /\ reply' = [reply EXCEPT ![t] = "none"]
  /\ UNCHANGED <<storeVars, op, attempt, wire, redeemer>>

-----------------------------------------------------------------------------
(* _get_encryption_material() of the authenticated client.                 *)

Selected(s) == IF HasValid(s) THEN "encrypted" ELSE "noKey"

MakeKey(t) ==
  /\ pc[t] \in {"authenticated", "encrypted", "noKey"}
  /\ pc' = [pc EXCEPT ![t] = IF store = NoList THEN "loading" ELSE Selected(store)]
  /\ UNCHANGED <<storeVars, op, redeemVars>>

LoadedForKey(t) == Loads(t) /\ Goes(t, "loading", Selected(listed[t]))

LoadFails(t) ==
  /\ Goes(t, "loading", "authenticated")
  /\ listed' = [listed EXCEPT ![t] = NoList]
  /\ UNCHANGED <<now, store, op, redeemVars>>

-----------------------------------------------------------------------------
(* KSeF: the operation is decided; its authentication token, once good,    *)
(* expires; the pair is given out once.                                    *)

OperationMoves(t) ==
  /\ \/ op[t] = "processing" /\ \E s \in {"success", "failed"} : op' = [op EXCEPT ![t] = s]
     \/ op[t] = "success" /\ op' = [op EXCEPT ![t] = "expired"]
  /\ UNCHANGED <<storeVars, pc, redeemVars>>

KSeFRedeems(t, k) ==
  /\ k \in wire[t]
  /\ wire' = [wire EXCEPT ![t] = @ \ {k}]
  /\ op' = [op EXCEPT ![t] = IF @ = "success" THEN "redeemed" ELSE @]
  /\ redeemer' = [redeemer EXCEPT ![t] = IF op[t] = "success" THEN k ELSE @]
  /\ reply' = IF pc[t] = "redeeming" /\ k = attempt[t]
              THEN [reply EXCEPT ![t] = IF op[t] = "success" THEN "pair" ELSE "refused"]
              ELSE reply
  /\ UNCHANGED <<storeVars, pc, attempt>>

Tick ==
  /\ now < MaxTime
  /\ now' = now + 1
  /\ UNCHANGED <<store, pc, listed, op, redeemVars>>

-----------------------------------------------------------------------------
CallStep(t) ==
  \/ ListArrives(t) \/ Challenged(t) \/ Started(t)
  \/ SeesSuccess(t) \/ SeesFailure(t) \/ PollTimesOut(t) \/ Interrupted(t)
  \/ Redeemed(t) \/ RedeemRefused(t) \/ RedeemRetried(t) \/ RedeemFails(t)
  \/ LoadedForKey(t) \/ LoadFails(t)

Next ==
  \/ \E t \in Tasks :
       \/ Begin(t) \/ ListIsRead(t) \/ CallStep(t) \/ MakeKey(t)
       \/ OperationMoves(t)
       \/ \E k \in 1..MaxAttempts : KSeFRedeems(t, k)
  \/ Tick

Spec == Init /\ [][Next]_vars

-----------------------------------------------------------------------------
\* The types; an answer is waited for, and attempts are numbered from 1.
TypeOK ==
  /\ now \in Times
  /\ store \in Times \union {NoList}
  /\ pc \in [Tasks -> {"idle"} \union Pending \union Holding \union Outcomes]
  /\ listed \in [Tasks -> Times \union {NoList}]
  /\ op \in [Tasks -> {"none", "processing", "success", "failed", "expired", "redeemed"}]
  /\ attempt \in [Tasks -> 0..MaxAttempts]
  /\ redeemer \in [Tasks -> 0..MaxAttempts]
  /\ reply \in [Tasks -> {"none", "pair", "refused"}]
  /\ wire \in [Tasks -> SUBSET (1..MaxAttempts)]
  /\ \A t \in Tasks : wire[t] \subseteq 1..attempt[t]
  /\ \A t \in Tasks : reply[t] # "none" => pc[t] = "redeeming"

(* A task with an authenticated client has the one pair that KSeF gave out *)
(* for its operation, as the answer to the last request it made.           *)
AuthenticatedHoldsThePair ==
  \A t \in Tasks :
    pc[t] \in Holding => op[t] = "redeemed" /\ redeemer[t] = attempt[t]

(* The repetition of the one request that KSeF carries out once: when it   *)
(* is refused, an earlier attempt of the same call has the pair, or the    *)
(* call has taken so long that its authentication token expired.           *)
RefusalIsExplained ==
  \A t \in Tasks :
    pc[t] = "refused" =>
      \/ op[t] = "expired"
      \/ op[t] = "redeemed" /\ redeemer[t] < attempt[t]

(* A call that reports that no authentication took place has left no pair  *)
(* of tokens behind, and none will be given out later.                     *)
FailureLeavesNoPair ==
  \A t \in Tasks :
    pc[t] \in {"noCertificate", "authFailed", "timeout"} =>
      op[t] # "redeemed" /\ wire[t] = {}

(* Encryption and token authentication fail for want of a certificate only *)
(* on a client whose list is older than what KSeF promises of a list,      *)
(* whichever task loaded it and however long the answer was on its way.    *)
OnlyOldListsFail ==
  [][\A t \in Tasks :
       pc'[t] \in {"noCertificate", "noKey"} /\ pc[t] # pc'[t] => now > store' + Overlap]_vars

=============================================================================
