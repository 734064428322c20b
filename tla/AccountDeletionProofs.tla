----------------------- MODULE AccountDeletionProofs -----------------------
(***************************************************************************)
(* Proofs about AccountDeletion, for every set of accounts and workers,    *)
(* every number of services and every bound on failures.                   *)
(***************************************************************************)
EXTENDS AccountDeletion, TLAPS

(***************************************************************************)
(* The inductive invariant.  What makes overlapping workers harmless is    *)
(* that a worker's claim about the data is about the past and data never   *)
(* comes back: a step recorded as completed, a step a round has passed and *)
(* a step a round skipped because it was completed at the claim all belong *)
(* to a service that holds nothing any more.                               *)
(***************************************************************************)
RoundOK(w) ==
  LET r == worker[w] IN
  r.pc # "idle" =>
    /\ r.user \in Users /\ account[r.user] # "active"
    /\ \A s \in r.done : s \notin data[r.user]
    /\ r.pc \in {"call", "completeStep", "retryStep"} =>
         /\ r.at \in Services
         /\ \A s \in Services : s < r.at => s \notin data[r.user]
    /\ r.pc = "completeStep" => r.at \notin data[r.user]
    /\ r.pc \in {"deleteUser", "completeJob"} => data[r.user] = {}
    /\ r.pc = "completeJob" => account[r.user] = "deleted"

CompletedStepsDone ==
  \A u \in Users : \A s \in Services : step[u][s] = "completed" => s \notin data[u]

JobsMatchAccounts ==
  \A u \in Users : /\ account[u] = "deletion_pending" => job[u] \in {"pending", "processing"}
                   /\ job[u] # "none" => account[u] # "active"

IInv ==
  /\ TypeOK
  /\ \A w \in Workers : RoundOK(w)
  /\ CompletedStepsDone
  /\ JobsMatchAccounts
  /\ UserRowOutlivesData

-----------------------------------------------------------------------------
(* A round that goes on stays well-typed.                                   *)
LEMMA GotoType ==
  ASSUME worker \in [Workers -> Rounds], NEW w \in Workers,
         NEW l \in {"completeStep", "retryStep", "retryJob", "completeJob"}, Goto(w, l)
  PROVE  /\ worker' \in [Workers -> Rounds]
         /\ \A v \in Workers : v # w => worker'[v] = worker[v]
         /\ worker'[w].pc = l /\ worker'[w].user = worker[w].user
         /\ worker'[w].at = worker[w].at /\ worker'[w].done = worker[w].done
BY DEF Goto, Rounds

(* A round that ends leaves the worker idle and the others alone.           *)
LEMMA ReturnType ==
  ASSUME worker \in [Workers -> Rounds], NEW w \in Workers, Return(w)
  PROVE  /\ worker' \in [Workers -> Rounds]
         /\ \A v \in Workers : v # w => worker'[v] = worker[v]
         /\ worker'[w].pc = "idle"
BY DeletionAssumption DEF Return, Rounds, Idle

(* The loop of RunOnce: everything before the step it goes on to has been   *)
(* done, and when no step is left the account has no data anywhere.         *)
LEMMA ContinueRound ==
  ASSUME TypeOK, NEW w \in Workers, NEW u \in Users, NEW done \in SUBSET Services,
         NEW i \in 0..NumServices, Continue(w, u, done, i),
         \A s \in done : s \notin data[u],
         \A s \in Services : s <= i => s \notin data[u]
  PROVE  /\ worker' \in [Workers -> Rounds]
         /\ \A v \in Workers : v # w => worker'[v] = worker[v]
         /\ worker'[w].user = u /\ worker'[w].done = done
         /\ \/ worker'[w].pc = "deleteUser" /\ data[u] = {}
            \/ /\ worker'[w].pc = "call" /\ worker'[w].at \in Services
               /\ \A s \in Services : s < worker'[w].at => s \notin data[u]
<1> USE DeletionAssumption
<1>1. CASE Remaining(done, i) = {} /\ worker' = [worker EXCEPT ![w] =
          [pc |-> "deleteUser", user |-> u, at |-> 0, done |-> done]]
  <2>1. [pc |-> "deleteUser", user |-> u, at |-> 0, done |-> done] \in Rounds
    BY DEF Rounds
  <2>2. data[u] = {}
    BY <1>1 DEF Remaining, TypeOK, Services
  <2> QED BY <1>1, <2>1, <2>2 DEF TypeOK
<1>2. ASSUME NEW s \in Remaining(done, i), \A r \in Remaining(done, i) : s <= r,
             worker' = [worker EXCEPT ![w] =
               [pc |-> "call", user |-> u, at |-> s, done |-> done]]
      PROVE  /\ worker' \in [Workers -> Rounds]
             /\ \A v \in Workers : v # w => worker'[v] = worker[v]
             /\ worker'[w].user = u /\ worker'[w].done = done
             /\ worker'[w].pc = "call" /\ worker'[w].at \in Services
             /\ \A t \in Services : t < worker'[w].at => t \notin data[u]
  <2>1. s \in Services
    BY DEF Remaining
  <2>2. [pc |-> "call", user |-> u, at |-> s, done |-> done] \in Rounds
    BY <2>1 DEF Rounds, Services
  <2>3. \A t \in Services : t < s => t \notin data[u]
    BY <1>2, <2>1 DEF Remaining, Services
  <2> QED BY <1>2, <2>1, <2>2, <2>3 DEF TypeOK
<1> QED BY <1>1, <1>2 DEF Continue

(* Steps that only take data away, never make an account active and keep    *)
(* job and account in line need to be checked for the worker that moves.    *)
LEMMA RoundsKept ==
  ASSUME IInv, NEW v \in Workers, worker'[v] = worker[v],
         \A u \in Users : /\ data'[u] \subseteq data[u]
                          /\ account[u] # "active" => account'[u] # "active"
                          /\ account[u] = "deleted" => account'[u] = "deleted"
  PROVE  RoundOK(v)'
BY DEF IInv, RoundOK

(* One action of one worker.                                                *)
LEMMA ClaimStep ==
  ASSUME IInv, NEW w \in Workers, Claim(w) PROVE IInv'
<1> USE DeletionAssumption
<1>0. TypeOK /\ CompletedStepsDone /\ JobsMatchAccounts
  BY DEF IInv
<1>1. PICK i \in DOMAIN queue :
        /\ Claimable(queue[i])
        /\ job' = [job EXCEPT ![queue[i]] = "processing"]
        /\ leased' = [leased EXCEPT ![queue[i]] = TRUE]
        /\ Continue(w, queue[i], {s \in Services : step[queue[i]][s] = "completed"}, 0)
  BY DEF Claim
<1>2. UNCHANGED <<account, data, step, queue, failures, aborts>>
  BY DEF Claim
<1> DEFINE u == queue[i]
           done == {s \in Services : step[u][s] = "completed"}
<1>3. u \in Users /\ job[u] \in {"pending", "processing"} /\ account[u] # "active"
  <2>1. u \in Users
    BY <1>0 DEF TypeOK
  <2> QED BY <1>0, <1>1, <2>1 DEF Claimable, JobsMatchAccounts
<1>4. /\ done \in SUBSET Services /\ \A s \in done : s \notin data[u]
      /\ \A s \in Services : s <= 0 => s \notin data[u]
  BY <1>0, <1>3 DEF CompletedStepsDone, Services
<1>5. Continue(w, u, done, 0)
  BY <1>1
<1> HIDE DEF u, done
<1>6. /\ worker' \in [Workers -> Rounds]
      /\ \A v \in Workers : v # w => worker'[v] = worker[v]
      /\ worker'[w].user = u /\ worker'[w].done = done
      /\ \/ worker'[w].pc = "deleteUser" /\ data[u] = {}
         \/ /\ worker'[w].pc = "call" /\ worker'[w].at \in Services
            /\ \A s \in Services : s < worker'[w].at => s \notin data[u]
  BY <1>0, <1>3, <1>4, <1>5, ContinueRound
<1>7. TypeOK'
  BY <1>0, <1>1, <1>2, <1>3, <1>6 DEF TypeOK
<1>8. \A v \in Workers : RoundOK(v)'
  BY <1>2, <1>3, <1>4, <1>6, RoundsKept DEF RoundOK
<1>9. CompletedStepsDone' /\ UserRowOutlivesData'
  BY <1>2 DEF IInv, CompletedStepsDone, UserRowOutlivesData
<1>10. JobsMatchAccounts'
  BY <1>0, <1>1, <1>2, <1>3 DEF JobsMatchAccounts, TypeOK, u
<1> QED BY <1>7, <1>8, <1>9, <1>10 DEF IInv

(* A call of a service can only take data away.                             *)
LEMMA CallStep ==
  ASSUME IInv, NEW w \in Workers, CallSucceeds(w) \/ CallFails(w) PROVE IInv'
<1> USE DeletionAssumption
<1> DEFINE u == worker[w].user
           a == worker[w].at
<1>0. TypeOK /\ RoundOK(w) /\ worker[w].pc = "call" /\ u \in Users /\ a \in Services
  BY DEF IInv, CallSucceeds, CallFails, At, RoundOK
<1>1. /\ \/ Goto(w, "completeStep") /\ data' = [data EXCEPT ![u] = @ \ {a}]
         \/ Goto(w, "retryStep") /\ (data' = [data EXCEPT ![u] = @ \ {a}] \/ data' = data)
      /\ UNCHANGED <<account, jobs, aborts>>
      /\ failures' \in 0..MaxFailures
  BY <1>0 DEF CallSucceeds, CallFails, TypeOK
<1> HIDE DEF u, a
<1>2. data' \in [Users -> SUBSET Services] /\ \A v \in Users : data'[v] \subseteq data[v]
  <2>1. data \in [Users -> SUBSET Services] /\ data[u] \ {a} \in SUBSET Services
    BY <1>0 DEF TypeOK
  <2>2. CASE data' = [data EXCEPT ![u] = data[u] \ {a}]
    BY <1>0, <2>1, <2>2
  <2>3. CASE data' = data
    BY <2>1, <2>3
  <2> QED BY <1>1, <2>2, <2>3
<1>3. /\ worker' \in [Workers -> Rounds]
      /\ \A v \in Workers : v # w => worker'[v] = worker[v]
      /\ worker'[w].user = u /\ worker'[w].at = a /\ worker'[w].done = worker[w].done
      /\ \/ worker'[w].pc = "completeStep" /\ a \notin data'[u]
         \/ worker'[w].pc = "retryStep"
  BY <1>0, <1>1, GotoType DEF TypeOK, u, a
<1>4. TypeOK'
  BY <1>0, <1>1, <1>2, <1>3 DEF TypeOK, jobs
<1>5. RoundOK(w)'
  BY <1>0, <1>1, <1>2, <1>3 DEF RoundOK, u, a
<1>6. \A v \in Workers : RoundOK(v)'
  BY <1>1, <1>2, <1>3, <1>5, RoundsKept
<1>7. CompletedStepsDone' /\ UserRowOutlivesData' /\ JobsMatchAccounts'
  BY <1>0, <1>1, <1>2 DEF IInv, CompletedStepsDone, UserRowOutlivesData,
     JobsMatchAccounts, jobs
<1> QED BY <1>4, <1>6, <1>7 DEF IInv

(* A step is recorded only after its service has answered with success.     *)
LEMMA CompleteStepStep ==
  ASSUME IInv, NEW w \in Workers, CompleteStep(w) PROVE IInv'
<1> USE DeletionAssumption
<1> DEFINE u == worker[w].user
           a == worker[w].at
           done == worker[w].done
<1>0. /\ TypeOK /\ u \in Users /\ a \in Services /\ a \notin data[u] /\ account[u] # "active"
      /\ done \in SUBSET Services /\ \A s \in done : s \notin data[u]
      /\ \A s \in Services : s <= a => s \notin data[u]
  <2>1. TypeOK /\ RoundOK(w) /\ worker[w].pc = "completeStep" /\ worker[w] \in Rounds
    BY DEF IInv, CompleteStep, At, TypeOK
  <2>2. done \in SUBSET Services
    BY <2>1 DEF Rounds
  <2>3. /\ u \in Users /\ a \in Services /\ a \notin data[u] /\ account[u] # "active"
        /\ \A s \in done : s \notin data[u]
        /\ \A s \in Services : s < a => s \notin data[u]
    BY <2>1 DEF RoundOK
  <2>4. \A s \in Services : s <= a => s \notin data[u]
    BY <2>3 DEF Services
  <2> QED BY <2>1, <2>2, <2>3, <2>4
<1>1. /\ step' = [step EXCEPT ![u][a] = "completed"]
      /\ Continue(w, u, done, a)
      /\ UNCHANGED <<account, data, job, leased, queue, failures, aborts>>
  BY DEF CompleteStep
<1> HIDE DEF u, a, done
<1>2. a \in 0..NumServices
  BY <1>0 DEF Services
<1>3. /\ worker' \in [Workers -> Rounds]
      /\ \A v \in Workers : v # w => worker'[v] = worker[v]
      /\ worker'[w].user = u /\ worker'[w].done = done
      /\ \/ worker'[w].pc = "deleteUser" /\ data[u] = {}
         \/ /\ worker'[w].pc = "call" /\ worker'[w].at \in Services
            /\ \A s \in Services : s < worker'[w].at => s \notin data[u]
  BY <1>0, <1>1, <1>2, ContinueRound
<1>4. TypeOK'
  BY <1>0, <1>1, <1>3 DEF TypeOK
<1>5. \A v \in Workers : RoundOK(v)'
  BY <1>0, <1>1, <1>3, RoundsKept DEF RoundOK
<1>6. CompletedStepsDone' /\ UserRowOutlivesData' /\ JobsMatchAccounts'
  BY <1>0, <1>1 DEF IInv, CompletedStepsDone, UserRowOutlivesData, JobsMatchAccounts, TypeOK
<1> QED BY <1>4, <1>5, <1>6 DEF IInv

(* Giving a step or a job back never closes the job.                        *)
LEMMA RetryStepStep ==
  ASSUME IInv, NEW w \in Workers, RetryStep(w) \/ RetryJob(w) \/ Abort(w) PROVE IInv'
<1> USE DeletionAssumption
<1>0. TypeOK /\ RoundOK(w)
  BY DEF IInv
<1>1. CASE RetryStep(w)
  <2>1. /\ worker' \in [Workers -> Rounds]
        /\ \A v \in Workers : v # w => worker'[v] = worker[v]
        /\ worker'[w].pc = "retryJob" /\ worker'[w].user = worker[w].user
        /\ worker'[w].done = worker[w].done
    BY <1>0, <1>1, GotoType DEF RetryStep, TypeOK
  <2>2. worker[w].user \in Users /\ worker[w].at \in Services
    BY <1>0, <1>1 DEF RetryStep, RoundOK, At
  <2>3. TypeOK'
    BY <1>0, <1>1, <2>1, <2>2 DEF RetryStep, TypeOK
  <2>4. RoundOK(w)'
    BY <1>0, <1>1, <2>1 DEF RetryStep, RoundOK, At
  <2>5. \A v \in Workers : RoundOK(v)'
    BY <1>1, <2>1, <2>4, RoundsKept DEF RetryStep
  <2>6. CompletedStepsDone' /\ UserRowOutlivesData' /\ JobsMatchAccounts'
    BY <1>0, <1>1, <2>2 DEF RetryStep, IInv, CompletedStepsDone, UserRowOutlivesData,
       JobsMatchAccounts, TypeOK
  <2> QED BY <2>3, <2>5, <2>6 DEF IInv
<1>2. CASE RetryJob(w)
  <2>1. /\ worker' \in [Workers -> Rounds]
        /\ \A v \in Workers : v # w => worker'[v] = worker[v]
        /\ worker'[w].pc = "idle"
    BY <1>0, <1>2, ReturnType DEF RetryJob, TypeOK
  <2>2. worker[w].user \in Users /\ account[worker[w].user] # "active"
    BY <1>0, <1>2 DEF RetryJob, RoundOK, At
  <2>3. TypeOK'
    BY <1>0, <1>2, <2>1, <2>2 DEF RetryJob, TypeOK
  <2>4. \A v \in Workers : RoundOK(v)'
    BY <1>2, <2>1, RoundsKept DEF RetryJob, RoundOK
  <2>5. CompletedStepsDone' /\ UserRowOutlivesData' /\ JobsMatchAccounts'
    BY <1>0, <1>2, <2>2 DEF RetryJob, IInv, CompletedStepsDone, UserRowOutlivesData,
       JobsMatchAccounts, TypeOK
  <2> QED BY <2>3, <2>4, <2>5 DEF IInv
<1>3. CASE Abort(w)
  <2>1. /\ worker' \in [Workers -> Rounds]
        /\ \A v \in Workers : v # w => worker'[v] = worker[v]
        /\ worker'[w].pc = "idle"
    BY <1>0, <1>3, ReturnType DEF Abort, TypeOK
  <2>2. TypeOK'
    BY <1>0, <1>3, <2>1 DEF Abort, TypeOK, jobs
  <2>3. \A v \in Workers : RoundOK(v)'
    BY <1>3, <2>1, RoundsKept DEF Abort, RoundOK
  <2>4. CompletedStepsDone' /\ UserRowOutlivesData' /\ JobsMatchAccounts'
    BY <1>3 DEF Abort, IInv, CompletedStepsDone, UserRowOutlivesData, JobsMatchAccounts, jobs
  <2> QED BY <2>2, <2>3, <2>4 DEF IInv
<1> QED BY <1>1, <1>2, <1>3

(* The row goes only when no data is left; the job is closed after the row. *)
LEMMA FinishStep ==
  ASSUME IInv, NEW w \in Workers, DeleteUser(w) \/ CompleteJob(w) PROVE IInv'
<1> USE DeletionAssumption
<1> DEFINE u == worker[w].user
<1>0. TypeOK /\ RoundOK(w) /\ u \in Users /\ data[u] = {}
  BY DEF IInv, DeleteUser, CompleteJob, RoundOK, At
<1>1. CASE DeleteUser(w)
  <2>1. /\ worker' \in [Workers -> Rounds]
        /\ \A v \in Workers : v # w => worker'[v] = worker[v]
        /\ worker'[w].pc = "completeJob" /\ worker'[w].user = u
        /\ worker'[w].done = worker[w].done
    BY <1>0, <1>1, GotoType DEF DeleteUser, TypeOK
  <2>2. account' = [account EXCEPT ![u] = "deleted"] /\ UNCHANGED <<data, jobs, failures, aborts>>
    BY <1>1 DEF DeleteUser
  <2>3. TypeOK'
    BY <1>0, <2>1, <2>2 DEF TypeOK, jobs
  <2>4. RoundOK(w)'
    BY <1>0, <2>1, <2>2 DEF RoundOK, TypeOK
  <2>5. \A v \in Workers : RoundOK(v)'
    BY <1>0, <2>1, <2>2, <2>4, RoundsKept DEF TypeOK
  <2>6. CompletedStepsDone' /\ UserRowOutlivesData' /\ JobsMatchAccounts'
    BY <1>0, <2>2 DEF IInv, CompletedStepsDone, UserRowOutlivesData, JobsMatchAccounts,
       TypeOK, jobs
  <2> QED BY <2>3, <2>5, <2>6 DEF IInv
<1>2. CASE CompleteJob(w)
  <2>1. /\ worker' \in [Workers -> Rounds]
        /\ \A v \in Workers : v # w => worker'[v] = worker[v]
        /\ worker'[w].pc = "idle"
    BY <1>0, <1>2, ReturnType DEF CompleteJob, TypeOK
  <2>2. account[u] = "deleted"
    BY <1>0, <1>2 DEF CompleteJob, RoundOK, At
  <2>3. TypeOK'
    BY <1>0, <1>2, <2>1 DEF CompleteJob, TypeOK
  <2>4. \A v \in Workers : RoundOK(v)'
    BY <1>2, <2>1, RoundsKept DEF CompleteJob, RoundOK
  <2>5. CompletedStepsDone' /\ UserRowOutlivesData' /\ JobsMatchAccounts'
    BY <1>0, <1>2, <2>2 DEF CompleteJob, IInv, CompletedStepsDone, UserRowOutlivesData,
       JobsMatchAccounts, TypeOK
  <2> QED BY <2>3, <2>4, <2>5 DEF IInv
<1> QED BY <1>1, <1>2

(* Requests and the passing of time.                                        *)
LEMMA RequestStep ==
  ASSUME IInv, NEW u \in Users, RequestDeletion(u) \/ LeaseExpires(u) PROVE IInv'
<1> USE DeletionAssumption
<1>0. TypeOK
  BY DEF IInv
<1>1. CASE RequestDeletion(u)
  <2>1. TypeOK'
    <3>1. queue' \in Seq(Users)
      BY <1>0, <1>1 DEF RequestDeletion, TypeOK
    <3> QED BY <1>0, <1>1, <3>1 DEF RequestDeletion, TypeOK
  <2>2. \A v \in Workers : RoundOK(v)'
    BY <1>0, <1>1, RoundsKept DEF RequestDeletion, TypeOK
  <2>3. CompletedStepsDone' /\ UserRowOutlivesData' /\ JobsMatchAccounts'
    BY <1>0, <1>1 DEF RequestDeletion, IInv, CompletedStepsDone, UserRowOutlivesData,
       JobsMatchAccounts, TypeOK
  <2> QED BY <2>1, <2>2, <2>3 DEF IInv
<1>2. CASE LeaseExpires(u)
  <2>1. TypeOK'
    BY <1>0, <1>2 DEF LeaseExpires, TypeOK
  <2>2. \A v \in Workers : RoundOK(v)'
    BY <1>2, RoundsKept DEF LeaseExpires
  <2>3. CompletedStepsDone' /\ UserRowOutlivesData' /\ JobsMatchAccounts'
    BY <1>2 DEF LeaseExpires, IInv, CompletedStepsDone, UserRowOutlivesData, JobsMatchAccounts
  <2> QED BY <2>1, <2>2, <2>3 DEF IInv
<1> QED BY <1>1, <1>2

(* The invariant holds before the first request.                            *)
LEMMA InvInit == Init => IInv
<1> SUFFICES ASSUME Init PROVE IInv
  OBVIOUS
<1>1. Idle \in Rounds /\ Idle.pc = "idle"
  BY DeletionAssumption DEF Idle, Rounds
<1>2. TypeOK
  BY <1>1, DeletionAssumption DEF Init, TypeOK
<1>3. \A w \in Workers : RoundOK(w)
  BY <1>1 DEF Init, RoundOK
<1>4. CompletedStepsDone /\ UserRowOutlivesData /\ JobsMatchAccounts
  BY DEF Init, CompletedStepsDone, UserRowOutlivesData, JobsMatchAccounts
<1> QED BY <1>2, <1>3, <1>4 DEF IInv

(* Every step of the workflow keeps the invariant.                          *)
LEMMA InvStep == IInv /\ [Next]_vars => IInv'
<1> SUFFICES ASSUME IInv, [Next]_vars PROVE IInv'
  OBVIOUS
<1>1. CASE UNCHANGED vars
  <2>1. TypeOK' /\ \A v \in Workers : RoundOK(v)'
    BY <1>1 DEF vars, IInv, TypeOK, RoundOK
  <2> QED BY <1>1, <2>1 DEF vars, IInv, CompletedStepsDone, UserRowOutlivesData, JobsMatchAccounts
<1>2. ASSUME NEW w \in Workers, Work(w) \/ CallFails(w) \/ Abort(w) PROVE IInv'
  BY <1>2, ClaimStep, CallStep, CompleteStepStep, RetryStepStep, FinishStep DEF Work
<1> QED BY <1>1, <1>2, RequestStep DEF Next, ClaimNone

-----------------------------------------------------------------------------
(* The inductive invariant holds in every reachable state.                  *)
THEOREM Invariance == Spec => []IInv
BY InvInit, InvStep, PTL DEF Spec

(* Job tables and rounds stay within their types.                           *)
THEOREM TypeCorrect == Spec => []TypeOK
<1>1. IInv => TypeOK
  BY DEF IInv
<1> QED BY <1>1, Invariance, PTL

(* The user row is removed only once every service's data of the account is *)
(* gone, with any number of overlapping workers, failures and stops.        *)
THEOREM RowOutlivesData == Spec => []UserRowOutlivesData
<1>1. IInv => UserRowOutlivesData
  BY DEF IInv
<1> QED BY <1>1, Invariance, PTL

(* An account pending deletion always has an open job.                      *)
THEOREM OpenJob == Spec => []PendingAccountHasOpenJob
<1>1. IInv => PendingAccountHasOpenJob
  BY DEF IInv, JobsMatchAccounts, PendingAccountHasOpenJob
<1> QED BY <1>1, Invariance, PTL
-----------------------------------------------------------------------------
(* The last step of a round is a Close of the contract, or nothing when     *)
(* another worker has removed the row already.                              *)
LEMMA DeleteRefines ==
  ASSUME IInv, NEW w \in Workers, DeleteUser(w)
  PROVE  [Contract!Next]_<<account, data>>
<1> DEFINE u == worker[w].user
<1>1. u \in Users /\ account[u] # "active" /\ data[u] = {}
  BY DEF DeleteUser, At, IInv, RoundOK
<1>2. account \in [Users -> {"active", "deletion_pending", "deleted"}]
  BY DEF IInv, TypeOK
<1>3. account' = [account EXCEPT ![u] = "deleted"] /\ UNCHANGED data
  BY DEF DeleteUser
<1> HIDE DEF u
<1>4. CASE account[u] = "deleted"
  BY <1>1, <1>2, <1>3, <1>4
<1>5. CASE account[u] = "deletion_pending"
  <2>1. Contract!Close(u)
    BY <1>1, <1>3, <1>5 DEF Contract!Close
  <2> QED BY <1>1, <2>1 DEF Contract!Next
<1> QED BY <1>1, <1>2, <1>4, <1>5

(* A call that removes data is a Purge; a repeated one changes nothing.     *)
LEMMA CallRefines ==
  ASSUME IInv, NEW w \in Workers, CallSucceeds(w) \/ CallFails(w)
  PROVE  [Contract!Next]_<<account, data>>
<1> DEFINE u == worker[w].user
           s == worker[w].at
<1>1. u \in Users /\ account[u] # "active" /\ s \in Services
  BY DEF CallSucceeds, CallFails, At, IInv, RoundOK
<1>2. /\ account \in [Users -> {"active", "deletion_pending", "deleted"}]
      /\ data \in [Users -> SUBSET Services]
      /\ account[u] = "deleted" => data[u] = {}
  BY <1>1 DEF IInv, TypeOK, UserRowOutlivesData
<1>3. /\ data' = data \/ data' = [data EXCEPT ![u] = @ \ {s}]
      /\ UNCHANGED account
  BY DEF CallSucceeds, CallFails
<1> HIDE DEF u, s
<1>4. CASE data' = data \/ s \notin data[u]
  <2>1. s \notin data[u] => [data EXCEPT ![u] = @ \ {s}] = data
    <3>1. s \notin data[u] => data[u] \ {s} = data[u]
      OBVIOUS
    <3> QED BY <1>1, <1>2, <3>1
  <2> QED BY <1>3, <1>4, <2>1
<1>5. CASE data' = [data EXCEPT ![u] = @ \ {s}] /\ s \in data[u]
  <2>1. account[u] = "deletion_pending"
    BY <1>1, <1>2, <1>5
  <2>2. Contract!Purge(u, s)
    BY <1>3, <1>5, <2>1 DEF Contract!Purge
  <2> QED BY <1>1, <2>2 DEF Contract!Next
<1> QED BY <1>3, <1>4, <1>5

(* Every step of the workflow is a step of the contract or invisible to it. *)
LEMMA StepRefines == IInv /\ [Next]_vars => [Contract!Next]_<<account, data>>
<1> SUFFICES ASSUME IInv, [Next]_vars PROVE [Contract!Next]_<<account, data>>
  OBVIOUS
<1>1. CASE UNCHANGED vars
  BY <1>1 DEF vars
<1>2. ASSUME NEW u \in Users, RequestDeletion(u) \/ LeaseExpires(u)
      PROVE  [Contract!Next]_<<account, data>>
  <2>1. CASE RequestDeletion(u)
    BY <2>1 DEF RequestDeletion, Contract!Next, Contract!Request
  <2>2. CASE LeaseExpires(u)
    BY <2>2 DEF LeaseExpires
  <2> QED BY <1>2, <2>1, <2>2
<1>3. ASSUME NEW w \in Workers, Work(w) \/ CallFails(w) \/ Abort(w)
      PROVE  [Contract!Next]_<<account, data>>
  <2>1. CASE Claim(w) \/ CompleteStep(w) \/ RetryStep(w) \/ RetryJob(w) \/ CompleteJob(w) \/ Abort(w)
    BY <2>1 DEF Claim, CompleteStep, RetryStep, RetryJob, CompleteJob, Abort
  <2> QED BY <1>3, <2>1, CallRefines, DeleteRefines DEF Work
<1> QED BY <1>1, <1>2, <1>3 DEF Next, ClaimNone

(* The workflow of jobs, leases and overlapping workers implements the      *)
(* safety part of the deletion contract, for any number of accounts,        *)
(* services and workers: what is dropped is dropped from requested          *)
(* accounts, and the row goes after the last of the data, once.             *)
THEOREM RefinesContract == Spec => Contract!Spec
<1>1. Init => Contract!Init
  BY DEF Init, Contract!Init
<1>2. IInv /\ [Next]_vars => [Contract!Next]_<<account, data>>
  BY StepRefines
<1> QED BY <1>1, <1>2, Invariance, PTL DEF Spec, Contract!Spec, Contract!vars
=============================================================================
