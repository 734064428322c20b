-------------------------- MODULE DeletionContract --------------------------
(***************************************************************************)
(* What account deletion promises, without jobs, leases, steps, workers or *)
(* failures: a requested account loses its data service by service, then   *)
(* its row, and never comes back.  AccountDeletion implements it.          *)
(***************************************************************************)
CONSTANTS
  Users,     \* accounts
  Services   \* downstream services

VARIABLES
  state,   \* of the account: active, deletion_pending or deleted
  holders  \* services that hold data of the account

vars == <<state, holders>>

Init ==
  /\ state = [u \in Users |-> "active"]
  /\ holders = [u \in Users |-> Services]

Request(u) ==
  /\ state[u] = "active"
  /\ state' = [state EXCEPT ![u] = "deletion_pending"]
  /\ UNCHANGED holders

Purge(u, s) ==
  /\ state[u] = "deletion_pending"
  /\ s \in holders[u]
  /\ holders' = [holders EXCEPT ![u] = @ \ {s}]
  /\ UNCHANGED state

Close(u) ==
  /\ state[u] = "deletion_pending"
  /\ holders[u] = {}
  /\ state' = [state EXCEPT ![u] = "deleted"]
  /\ UNCHANGED holders

Next ==
  \E u \in Users : Request(u) \/ Close(u) \/ \E s \in Services : Purge(u, s)

Spec == Init /\ [][Next]_vars

(* No step of a requested deletion is put off for ever.                     *)
Fairness ==
  \A u \in Users : WF_vars(Close(u)) /\ \A s \in Services : WF_vars(Purge(u, s))

FairSpec == Spec /\ Fairness
=============================================================================
