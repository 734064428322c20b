----------------------- MODULE AccountLifecycleProofs -----------------------
(***************************************************************************)
(* Proofs about sessions and deletion of an account together.  Each step   *)
(* of AccountLifecycle is a step of Sessions, or leaves it alone, and a    *)
(* step of AccountDeletion, or leaves that alone; so the composition       *)
(* implements both, and what is proved of either holds of it.              *)
(***************************************************************************)
EXTENDS AccountLifecycle, SessionsProofs

(* AccountDeletion with its theorems, and the account's status for account: *)
(* the definitions are those of D.                                          *)
DP == INSTANCE AccountDeletionProofs WITH account <- status

(* The row of a token goes with the row of its user.                        *)
RowsGone ==
  \A u \in Users : status[u] = "deleted" =>
    \A s \in Sids : owner[s] = u => rows[s] = "absent"

(* Each part's invariant names the accounts of its requests and rounds,     *)
(* which the joint steps hand to the other part.                            *)
JointInv == IInv /\ RowsGone /\ DP!IInv

-----------------------------------------------------------------------------
(* D and DP are the same specification.                                     *)
LEMMA SameInit == D!Init <=> DP!Init
BY DEF D!Init, DP!Init, D!Idle, DP!Idle, D!Services, DP!Services

(* The actions of a worker.                                                 *)
LEMMA SameWork ==
  ASSUME NEW w
  PROVE  /\ D!Work(w) <=> DP!Work(w)
         /\ D!ClaimNone(w) <=> DP!ClaimNone(w)
         /\ D!CallFails(w) <=> DP!CallFails(w)
         /\ D!Abort(w) <=> DP!Abort(w)
<1> USE DEF D!At, DP!At, D!Goto, DP!Goto, D!Return, DP!Return, D!Idle, DP!Idle,
            D!Services, DP!Services, D!Claimable, DP!Claimable, D!jobs, DP!jobs
<1>1. D!Work(w) <=> DP!Work(w)
  BY Zenon
     DEF D!Work, DP!Work, D!Claim, DP!Claim, D!CallSucceeds, DP!CallSucceeds,
         D!CompleteStep, DP!CompleteStep, D!RetryStep, DP!RetryStep, D!RetryJob, DP!RetryJob,
         D!DeleteUser, DP!DeleteUser, D!CompleteJob, DP!CompleteJob,
         D!Continue, DP!Continue, D!Remaining, DP!Remaining
<1>2. D!ClaimNone(w) <=> DP!ClaimNone(w)
  BY Zenon DEF D!ClaimNone, DP!ClaimNone, D!vars, DP!vars
<1>3. D!CallFails(w) <=> DP!CallFails(w)
  BY Zenon DEF D!CallFails, DP!CallFails
<1>4. D!Abort(w) <=> DP!Abort(w)
  BY Zenon DEF D!Abort, DP!Abort
<1> QED BY <1>1, <1>2, <1>3, <1>4

(* The actions on an account.                                               *)
LEMMA SameAccountSteps ==
  ASSUME NEW u
  PROVE  /\ D!RequestDeletion(u) <=> DP!RequestDeletion(u)
         /\ D!LeaseExpires(u) <=> DP!LeaseExpires(u)
BY Zenon DEF D!RequestDeletion, DP!RequestDeletion, D!LeaseExpires, DP!LeaseExpires,
             D!Services, DP!Services

(* The two next-state relations.                                            *)
LEMMA SameNext == D!Next <=> DP!Next
BY SameWork, SameAccountSteps, Zenon DEF D!Next, DP!Next

-----------------------------------------------------------------------------
(* A handler of Sessions and a worker never undo the cascade: a token gets  *)
(* a row only while its user has one.                                       *)
LEMMA RowsGoneStep == IInv /\ RowsGone /\ [Next]_vars => RowsGone'
<1> SUFFICES ASSUME IInv, RowsGone, [Next]_vars PROVE RowsGone'
  OBVIOUS
<1>0. TypeOK /\ RowsOwned /\ RequestsOK
  BY DEF IInv
<1>1. CASE UNCHANGED <<status, rows, owner>>
  BY <1>1 DEF RowsGone
<1>2. ASSUME NEW p \in Reqs, Step(p) PROVE RowsGone'
  <2>1. CASE IssueActivate(p)
    <3>1. PICK s \in Sids : /\ owner[s] = NoUser /\ owner' = [owner EXCEPT ![s] = req[p].user]
                            /\ UNCHANGED <<status, rows>>
      BY <2>1 DEF IssueActivate
    <3>2. rows[s] = "absent"
      BY <1>0, <3>1, SessionsAssumption DEF RowsOwned
    <3> QED BY <1>0, <3>1, <3>2 DEF RowsGone, TypeOK
  <2>2. CASE IssueCreate(p)
    <3>1. CASE UNCHANGED rows
      BY <2>2, <3>1 DEF IssueCreate, RowsGone
    <3>2. CASE ~UNCHANGED rows
      <4>1. /\ rows' = [rows EXCEPT ![req[p].sid] = "live"] /\ status[req[p].user] # "deleted"
            /\ UNCHANGED <<status, owner>> /\ req[p].pc = "create"
        BY <2>2, <3>2 DEF IssueCreate, Created, At
      <4>2. req[p].sid \in Sids /\ owner[req[p].sid] = req[p].user
        BY <1>0, <4>1 DEF RequestsOK, RequestArgs
      <4> QED BY <1>0, <4>1, <4>2 DEF RowsGone, TypeOK
    <3> QED BY <3>1, <3>2
  <2>3. CASE RequestDeletion(p)
    <3>1. req[p].user \in Users
      BY <1>0, <2>3 DEF RequestDeletion, At, RequestsOK, RequestArgs
    <3>2. /\ \A u \in Users : status'[u] = "deleted" => status[u] = "deleted"
          /\ \A s \in Sids : rows[s] = "absent" => rows'[s] = "absent"
          /\ owner' = owner
      BY <1>0, <2>3, <3>1 DEF RequestDeletion, RevokedAll, TypeOK
    <3> QED BY <3>2 DEF RowsGone
  <2>4. CASE RefreshReuse(p) \/ IssueRevokeAll(p) \/ PurgeTokens(p)
    BY <2>4 DEF RefreshReuse, IssueRevokeAll, PurgeTokens, RevokedAll, RowsGone
  <2>5. CASE RefreshRotate(p) \/ LogoutRevoke(p)
    <3>1. UNCHANGED <<status, owner>> /\ rows' = RevokedOne(req[p].tok)
      BY <2>5 DEF RefreshRotate, LogoutRevoke
    <3>2. \A s \in Sids : rows[s] = "absent" => rows'[s] = "absent"
      BY <1>0, <3>1 DEF RevokedOne, TypeOK
    <3> QED BY <3>1, <3>2 DEF RowsGone
  <2> QED BY <1>1, <1>2, <2>1, <2>2, <2>3, <2>4, <2>5
       DEF Step, store, RefreshLookup, RefreshUser, LoginUser, LoginFinalize, LogoutLookup,
           LogoutDeactivate, UpdatePassword, DeleteUser, ClearSession
<1>3. ASSUME NEW u \in Users, DeleteUserRow(u) PROVE RowsGone'
  BY <1>0, <1>3 DEF DeleteUserRow, RowsGone, TypeOK
<1>4. ASSUME NEW p \in Reqs, ArriveAny(p) \/ Fail(p) PROVE RowsGone'
  BY <1>1, <1>4 DEF ArriveAny, ArriveLogin, ArriveReset, ArriveRefresh, ArriveLogout, ArriveChange,
     ArriveDelete, Arrive, Fail, store
<1>5. CASE Environment
  BY <1>1, <1>3, <1>5 DEF Environment, CleanupEnds, Expire, MarkerExpires, store
<1> QED BY <1>1, <1>2, <1>3, <1>4, <1>5 DEF Next, vars

-----------------------------------------------------------------------------
(* A step of the composition, seen from the sessions.                       *)
LEMMA SessionsStep == JointInv /\ [LifecycleNext]_allVars => [Next]_vars
<1> SUFFICES ASSUME JointInv, [LifecycleNext]_allVars, ~UNCHANGED vars PROVE Next
  OBVIOUS
<1>1. LifecycleNext
  BY DEF allVars
<1>2. ASSUME NEW p \in Reqs, SessionsOnly(ArriveAny(p)) \/ Handle(p) PROVE Next
  BY <1>2 DEF SessionsOnly, Handle, JointRequest, Step, Next
<1>3. CASE SessionsOnly(Environment)
  BY <1>3 DEF SessionsOnly, Next
<1>4. ASSUME NEW w \in Workers, JointDelete(w) PROVE Next
  <2>1. worker[w].pc = "deleteUser" /\ DeleteUserRow(worker[w].user)
    BY <1>4 DEF JointDelete, D!DeleteUser, D!At
  <2>2. worker[w].user \in Users
    BY <2>1 DEF JointInv, DP!IInv, DP!RoundOK
  <2> QED BY <2>1, <2>2 DEF Next, Environment
<1> QED BY <1>1, <1>2, <1>3, <1>4 DEF LifecycleNext, Tick, DeletionOnly

(* The same step, seen from the deletion.                                   *)
LEMMA DeletionStep == JointInv /\ [LifecycleNext]_allVars => [D!Next]_D!vars
<1> SUFFICES ASSUME JointInv, [LifecycleNext]_allVars, ~UNCHANGED D!vars PROVE D!Next
  OBVIOUS
<1>1. LifecycleNext
  BY DEF allVars, vars, deletion, D!vars
<1>2. ASSUME NEW A, SessionsOnly(A) PROVE FALSE
  BY <1>2 DEF SessionsOnly, deletion, D!vars
<1>3. ASSUME NEW p \in Reqs, JointRequest(p) PROVE D!Next
  <2>1. req[p].user \in Users
    BY <1>3 DEF JointRequest, RequestDeletion, At, JointInv, IInv, RequestsOK, RequestArgs
  <2> QED BY <1>3, <2>1 DEF JointRequest, D!Next
<1>4. ASSUME NEW w \in Workers, Tick(w) PROVE D!Next
  BY <1>4 DEF Tick, DeletionOnly, JointDelete, D!Next, D!Work
<1>5. ASSUME NEW w \in Workers, DeletionOnly(D!ClaimNone(w) \/ D!CallFails(w) \/ D!Abort(w))
      PROVE  D!Next
  BY <1>5 DEF DeletionOnly, D!Next
<1>6. ASSUME NEW u \in Users, DeletionOnly(D!LeaseExpires(u)) PROVE D!Next
  BY <1>6 DEF DeletionOnly, D!Next
<1> QED BY <1>1, <1>2, <1>3, <1>4, <1>5, <1>6 DEF LifecycleNext, Handle

(* Every step keeps the invariants of both parts.                           *)
LEMMA JointStep == JointInv /\ [LifecycleNext]_allVars => JointInv'
<1> SUFFICES ASSUME JointInv, [LifecycleNext]_allVars PROVE JointInv'
  OBVIOUS
<1>1. IInv' /\ RowsGone'
  BY SessionsStep, InvStep, RowsGoneStep DEF JointInv
<1>2. [DP!Next]_DP!vars
  BY DeletionStep, SameNext DEF D!vars, DP!vars
<1>3. DP!IInv'
  BY <1>2, DP!InvStep, LifecycleAssumption, SessionsAssumption DEF JointInv
<1> QED BY <1>1, <1>3 DEF JointInv

(* At first accounts are active and have no session and no job.             *)
LEMMA JointInit == LifecycleInit => JointInv
<1> SUFFICES ASSUME LifecycleInit PROVE JointInv
  OBVIOUS
<1>1. IInv
  BY InvInit DEF LifecycleInit
<1>2. RowsGone
  BY DEF LifecycleInit, Init, RowsGone
<1>3. DP!IInv
  BY SameInit, DP!InvInit, LifecycleAssumption, SessionsAssumption DEF LifecycleInit
<1> QED BY <1>1, <1>2, <1>3 DEF JointInv

(* No interleaving of handlers and deletion workers leaves the invariants.  *)
THEOREM JointInvariance == LifecycleSpec => []JointInv
BY JointInit, JointStep, PTL DEF LifecycleSpec

(* Sessions and deletion together do to the sessions what Sessions allows:  *)
(* what is proved of its handlers holds while jobs run, too.                *)
THEOREM ImplementsSessions == LifecycleSpec => Spec
<1>1. LifecycleInit => Init
  BY DEF LifecycleInit
<1> QED BY <1>1, SessionsStep, JointInvariance, PTL DEF LifecycleSpec, Spec

(* And they do to jobs and data what AccountDeletion allows.                *)
THEOREM ImplementsDeletion == LifecycleSpec => D!Spec
<1>1. LifecycleInit => D!Init
  BY DEF LifecycleInit
<1> QED BY <1>1, DeletionStep, JointInvariance, PTL DEF LifecycleSpec, D!Spec

(* Once the user row is gone no service holds data of the account and no    *)
(* token row exists or is created, however many handlers that read the user *)
(* before go on, issueSession among them.                                   *)
THEOREM GoneHasNothing == LifecycleSpec => []GoneAccountHasNothing
<1>1. JointInv => GoneAccountHasNothing
  BY DEF JointInv, RowsGone, DP!IInv, DP!UserRowOutlivesData, GoneAccountHasNothing
<1> QED BY <1>1, JointInvariance, PTL
=============================================================================
