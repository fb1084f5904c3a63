-------------------------- MODULE RequestContract --------------------------
(***************************************************************************)
(* What the SDK's transport promises about one request(), whatever the     *)
(* network does: a call may act on the server at most "budget" times, it   *)
(* returns once, it never acts before it is made, and a call that returns  *)
(* a success has acted.  Nothing is promised about WHEN the server acts:   *)
(* an abandoned request may still be carried out after the call returned.  *)
(***************************************************************************)
EXTENDS Naturals

CONSTANTS
  Calls,      \* the calls made on a client
  Budgets     \* how often a call may act on the server: a set of numbers

VARIABLES
  status,     \* status[c]: "new", "pending" or "returned"
  success,    \* success[c]: the call returned a successful response
  budget,     \* budget[c]: the most actions on the server the call is entitled to
  acted       \* acted[c]: the attempts of the call the server carried out

vars == <<status, success, budget, acted>>

Init ==
  /\ status = [c \in Calls |-> "new"]
  /\ success = [c \in Calls |-> FALSE]
  /\ budget = [c \in Calls |-> 0]
  /\ acted = [c \in Calls |-> {}]

Begin(c) ==
  /\ status[c] = "new"
  /\ status' = [status EXCEPT ![c] = "pending"]
  /\ \E b \in Budgets : budget' = [budget EXCEPT ![c] = b]
  /\ UNCHANGED <<success, acted>>

Act(c) ==
  /\ status[c] # "new"
  /\ \E n \in (1..budget[c]) \ acted[c] :
       acted' = [acted EXCEPT ![c] = @ \union {n}]
  /\ UNCHANGED <<status, success, budget>>

Return(c) ==
  /\ status[c] = "pending"
  /\ status' = [status EXCEPT ![c] = "returned"]
  /\ \E ok \in BOOLEAN :
       /\ ok => acted[c] # {}
       /\ success' = [success EXCEPT ![c] = ok]
  /\ UNCHANGED <<budget, acted>>

Next == \E c \in Calls : Begin(c) \/ Act(c) \/ Return(c)

Spec == Init /\ [][Next]_vars
=============================================================================
