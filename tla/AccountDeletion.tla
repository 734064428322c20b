-------------------------- MODULE AccountDeletion --------------------------
(***************************************************************************)
(* The durable account-deletion workflow: RequestDeletion records a job    *)
(* with one step per downstream service, and the deletion workers (one per *)
(* replica of the service) claim a job under a two-minute lease, call the  *)
(* services one after the other, and remove the user row last.             *)
(*                                                                         *)
(* Every call of the job store and of the user repository is a transaction *)
(* of its own.  A lease is only looked at when a job is claimed: a worker  *)
(* whose lease has run out goes on, next to the worker that claimed the    *)
(* job after it.  The attempt counters and the steps' next_attempt_at are  *)
(* written but never read by a decision, and are left out.                 *)
(***************************************************************************)
EXTENDS Naturals, Sequences

CONSTANTS
  Users,        \* accounts; a job has the id of its account (UNIQUE user_id)
  NumServices,  \* the downstream services, numbered in the order of ORDER BY service
  Workers,      \* deletion workers
  MaxFailures,  \* bound: calls of a service that fail
  MaxAborts,    \* bound: rounds of a worker cut short by an error or a stop
  NoUser

ASSUME DeletionAssumption ==
  /\ NumServices \in Nat
  /\ MaxFailures \in Nat
  /\ MaxAborts \in Nat
  /\ NoUser \notin Users

Services == 1..NumServices

VARIABLES
  account,   \* users.deletion_status, or "deleted" once the row is gone
  data,      \* the services that still hold data of the account
  job,       \* account_deletion_jobs.status, "none" before the request
  leased,    \* lease_until is in the future
  step,      \* account_deletion_steps.status
  queue,     \* jobs in the order of next_attempt_at, which is never moved
  worker,    \* the round each worker is in
  failures,  \* failed service calls so far
  aborts     \* aborted rounds so far

jobs == <<job, leased, step, queue>>
vars == <<account, data, job, leased, step, queue, worker, failures, aborts>>

Idle == [pc |-> "idle", user |-> NoUser, at |-> 0, done |-> {}]

Rounds == [pc : {"idle", "call", "completeStep", "retryStep", "retryJob",
                 "deleteUser", "completeJob"},
           user : Users \cup {NoUser},
           at : 0..NumServices,
           done : SUBSET Services]

Init ==
  /\ account = [u \in Users |-> "active"]
  /\ data = [u \in Users |-> Services]
  /\ job = [u \in Users |-> "none"]
  /\ leased = [u \in Users |-> FALSE]
  /\ step = [u \in Users |-> [s \in Services |-> "none"]]
  /\ queue = <<>>
  /\ worker = [w \in Workers |-> Idle]
  /\ failures = 0
  /\ aborts = 0

-----------------------------------------------------------------------------
(* The RequestDeletion transaction.  On an account that is already marked   *)
(* it commits without a change.                                             *)
RequestDeletion(u) ==
  /\ account[u] = "active"
  /\ account' = [account EXCEPT ![u] = "deletion_pending"]
  /\ job' = [job EXCEPT ![u] = "pending"]
  /\ step' = [step EXCEPT ![u] = [s \in Services |-> "pending"]]
  /\ queue' = Append(queue, u)
  /\ UNCHANGED <<data, leased, worker, failures, aborts>>

(* now() passes lease_until.                                                *)
LeaseExpires(u) ==
  /\ leased[u]
  /\ leased' = [leased EXCEPT ![u] = FALSE]
  /\ UNCHANGED <<account, data, job, step, queue, worker, failures, aborts>>

-----------------------------------------------------------------------------
At(w, l)  == worker[w].pc = l
Return(w) == worker' = [worker EXCEPT ![w] = Idle]
Goto(w, l) == worker' = [worker EXCEPT ![w].pc = l]

(* Fault: a job whose worker stopped is never claimed again.                *)
ClaimablePendingOnly(u) == job[u] = "pending" /\ ~leased[u]

Claimable(u) == job[u] \in {"pending", "processing"} /\ ~leased[u]

(* The steps still to do after step i of a round: those that were not       *)
(* completed when the job was claimed.                                      *)
Remaining(done, i) == {s \in Services : s > i /\ s \notin done}

(* The loop of RunOnce goes on to the next step, or to the user row after   *)
(* the last one.                                                            *)
Continue(w, u, done, i) ==
  LET rest == Remaining(done, i) IN
  \/ /\ rest = {}
     /\ worker' = [worker EXCEPT ![w] =
          [pc |-> "deleteUser", user |-> u, at |-> 0, done |-> done]]
  \/ \E s \in rest :
       /\ \A r \in rest : s <= r
       /\ worker' = [worker EXCEPT ![w] =
            [pc |-> "call", user |-> u, at |-> s, done |-> done]]

(* ClaimDeletion: the first claimable job in the order of next_attempt_at,  *)
(* with the statuses its steps have now.                                    *)
Claim(w) ==
  /\ At(w, "idle")
  /\ \E i \in DOMAIN queue :
       LET u == queue[i] IN
       /\ Claimable(u)
       /\ \A k \in 1..(i - 1) : ~Claimable(queue[k])
       /\ job' = [job EXCEPT ![u] = "processing"]
       /\ leased' = [leased EXCEPT ![u] = TRUE]
       /\ Continue(w, u, {s \in Services : step[u][s] = "completed"}, 0)
  /\ UNCHANGED <<account, data, step, queue, failures, aborts>>

(* A tick that finds no claimable job does nothing.                         *)
ClaimNone(w) ==
  /\ At(w, "idle")
  /\ \A i \in DOMAIN queue : ~Claimable(queue[i])
  /\ UNCHANGED vars

(* DeleteUserData is answered with success: the service has removed the     *)
(* account's data.                                                          *)
CallSucceeds(w) ==
  LET u == worker[w].user IN
  /\ At(w, "call")
  /\ data' = [data EXCEPT ![u] = @ \ {worker[w].at}]
  /\ Goto(w, "completeStep")
  /\ UNCHANGED <<account, jobs, failures, aborts>>

(* DeleteUserData fails or times out; the service may or may not have       *)
(* removed the data.                                                        *)
CallFails(w) ==
  LET u == worker[w].user IN
  /\ At(w, "call")
  /\ failures < MaxFailures
  /\ failures' = failures + 1
  /\ \/ data' = [data EXCEPT ![u] = @ \ {worker[w].at}]
     \/ data' = data
  /\ Goto(w, "retryStep")
  /\ UNCHANGED <<account, jobs, aborts>>

CompleteStep(w) ==
  LET r == worker[w] IN
  /\ At(w, "completeStep")
  /\ step' = [step EXCEPT ![r.user][r.at] = "completed"]
  /\ Continue(w, r.user, r.done, r.at)
  /\ UNCHANGED <<account, data, job, leased, queue, failures, aborts>>

(* Fault: the step gets a status the schema does not know.                  *)
RetryStepMarksFailed(w) ==
  LET r == worker[w] IN
  /\ At(w, "retryStep")
  /\ step' = [step EXCEPT ![r.user][r.at] = "failed"]
  /\ Goto(w, "retryJob")
  /\ UNCHANGED <<account, data, job, leased, queue, failures, aborts>>

(* Fault: RunOnce goes on to the next step after a failed one.              *)
RetryStepContinues(w) ==
  LET r == worker[w] IN
  /\ At(w, "retryStep")
  /\ step' = [step EXCEPT ![r.user][r.at] = "pending"]
  /\ Continue(w, r.user, r.done, r.at)
  /\ UNCHANGED <<account, data, job, leased, queue, failures, aborts>>

(* RetryDeletionStep is two statements outside a transaction, and neither   *)
(* asks whether the lease is still this worker's.                           *)
RetryStep(w) ==
  LET r == worker[w] IN
  /\ At(w, "retryStep")
  /\ step' = [step EXCEPT ![r.user][r.at] = "pending"]
  /\ Goto(w, "retryJob")
  /\ UNCHANGED <<account, data, job, leased, queue, failures, aborts>>

RetryJob(w) ==
  LET u == worker[w].user IN
  /\ At(w, "retryJob")
  /\ job' = [job EXCEPT ![u] = "pending"]
  /\ leased' = [leased EXCEPT ![u] = FALSE]
  /\ Return(w)
  /\ UNCHANGED <<account, data, step, queue, failures, aborts>>

(* Fault: every error of users.Delete is ignored.                           *)
DeleteUserIgnoresError(w) ==
  /\ At(w, "deleteUser")
  /\ account' \in {account, [account EXCEPT ![worker[w].user] = "deleted"]}
  /\ Goto(w, "completeJob")
  /\ UNCHANGED <<data, jobs, failures, aborts>>

(* users.Delete; a row that is already gone is not an error.                *)
DeleteUser(w) ==
  /\ At(w, "deleteUser")
  /\ account' = [account EXCEPT ![worker[w].user] = "deleted"]
  /\ Goto(w, "completeJob")
  /\ UNCHANGED <<data, jobs, failures, aborts>>

CompleteJob(w) ==
  LET u == worker[w].user IN
  /\ At(w, "completeJob")
  /\ job' = [job EXCEPT ![u] = "completed"]
  /\ leased' = [leased EXCEPT ![u] = FALSE]
  /\ Return(w)
  /\ UNCHANGED <<account, data, step, queue, failures, aborts>>

(* A statement fails, or the replica stops, in the middle of a round: the   *)
(* job keeps its lease until it expires.                                    *)
Abort(w) ==
  /\ ~At(w, "idle")
  /\ aborts < MaxAborts
  /\ aborts' = aborts + 1
  /\ Return(w)
  /\ UNCHANGED <<account, data, jobs, failures>>

Work(w) ==
  \/ Claim(w) \/ CallSucceeds(w) \/ CompleteStep(w) \/ RetryStep(w)
  \/ RetryJob(w) \/ DeleteUser(w) \/ CompleteJob(w)

Next ==
  \/ \E u \in Users : RequestDeletion(u) \/ LeaseExpires(u)
  \/ \E w \in Workers : Work(w) \/ ClaimNone(w) \/ CallFails(w) \/ Abort(w)

Spec == Init /\ [][Next]_vars

(* Each worker's ticker keeps firing and each call it makes ends (clients   *)
(* time out after 25 seconds); time passes, so a lease that is not released *)
(* expires.  A service that fails recovers: only MaxFailures calls fail.    *)
Fairness ==
  /\ \A w \in Workers : WF_vars(Work(w))
  /\ \A u \in Users : WF_vars(LeaseExpires(u))

FairSpec == Spec /\ Fairness

-----------------------------------------------------------------------------
(* The shape of the job tables and of the workers' rounds.                  *)
TypeOK ==
  /\ account \in [Users -> {"active", "deletion_pending", "deleted"}]
  /\ data \in [Users -> SUBSET Services]
  /\ job \in [Users -> {"none", "pending", "processing", "completed"}]
  /\ leased \in [Users -> BOOLEAN]
  /\ step \in [Users -> [Services -> {"none", "pending", "completed"}]]
  /\ queue \in Seq(Users)
  /\ worker \in [Workers -> Rounds]
  /\ failures \in 0..MaxFailures /\ aborts \in 0..MaxAborts

(* The user row is removed last: no service still holds data of an account  *)
(* whose row is gone, however many workers overlapped, failed or stopped.   *)
UserRowOutlivesData ==
  \A u \in Users : account[u] = "deleted" => data[u] = {}

(* An account that is pending deletion always has a job a worker can still  *)
(* take: no crash or overlap closes the job before the account is gone.     *)
PendingAccountHasOpenJob ==
  \A u \in Users :
    account[u] = "deletion_pending" => job[u] \in {"pending", "processing"}

(* The job tables, leases, retries and overlapping workers implement the    *)
(* plain contract of account deletion, its promise of progress included:    *)
(* data is only dropped from requested accounts, one service at a time, the *)
(* row goes after the last of it, and none of this is put off for ever.     *)
Contract == INSTANCE DeletionContract WITH state <- account, holders <- data

ImplementsContract == Contract!FairSpec

(* Every requested deletion finishes, and stays finished: the data and the  *)
(* user row are gone and the job is closed for good.                        *)
DeletionCompletes ==
  \A u \in Users :
    account[u] = "deletion_pending"
      ~> [](account[u] = "deleted" /\ data[u] = {} /\ job[u] = "completed")
=============================================================================
