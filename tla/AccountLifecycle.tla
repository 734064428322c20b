-------------------------- MODULE AccountLifecycle --------------------------
(***************************************************************************)
(* Sessions and AccountDeletion together.  They share users: the status    *)
(* that DeleteAccount sets and every handler reads is the one the deletion *)
(* job acts on, and removing the user row also removes its refresh tokens. *)
(* Two steps are joint; every other step belongs to one of the two and     *)
(* leaves the other alone.                                                 *)
(***************************************************************************)
EXTENDS Sessions

CONSTANTS NumServices, Workers, MaxFailures, MaxAborts

ASSUME LifecycleAssumption ==
  NumServices \in Nat /\ MaxFailures \in Nat /\ MaxAborts \in Nat

VARIABLES data, job, leased, step, queue, worker, failures, aborts

deletion == <<data, job, leased, step, queue, worker, failures, aborts>>
allVars  == <<vars, deletion>>

D == INSTANCE AccountDeletion WITH account <- status

LifecycleInit == Init /\ D!Init

(* The transaction of RequestDeletion on an active account: the session     *)
(* side (status, tokens) and the job side commit together.                  *)
JointRequest(p) == RequestDeletion(p) /\ D!RequestDeletion(req[p].user)

(* users.Delete: DELETE FROM users, with the cascade to refresh_tokens.     *)
JointDelete(w) == D!DeleteUser(w) /\ DeleteUserRow(worker[w].user)

(* Everything else the handlers and the environment of Sessions do leaves   *)
(* the status alone: RequestDeletion does on an account that is not active. *)
SessionsOnly(A) == A /\ UNCHANGED <<status, deletion>>

(* Everything else a worker does leaves the sessions alone: users.Delete    *)
(* does once the row is gone.                                               *)
DeletionOnly(A) == A /\ UNCHANGED vars

Handle(p) == SessionsOnly(Step(p) \/ Fail(p)) \/ JointRequest(p)
Tick(w)   == DeletionOnly(D!Work(w)) \/ JointDelete(w)

LifecycleNext ==
  \/ \E p \in Reqs : SessionsOnly(ArriveAny(p)) \/ Handle(p)
  \/ SessionsOnly(Environment)
  \/ \E w \in Workers :
       Tick(w) \/ DeletionOnly(D!ClaimNone(w) \/ D!CallFails(w) \/ D!Abort(w))
  \/ \E u \in Users : DeletionOnly(D!LeaseExpires(u))

(* A handler ends, at the latest when the 30 s timeout of the router cuts   *)
(* it off; time passes, so tokens, markers and leases run out; workers tick *)
(* and their calls end.                                                     *)
LifecycleFairness ==
  /\ \A p \in Reqs : WF_allVars(Handle(p))
  /\ \A s \in Sids : WF_allVars(SessionsOnly(Expire(s)))
  /\ \A u \in Users : /\ WF_allVars(SessionsOnly(MarkerExpires(u)))
                      /\ WF_allVars(DeletionOnly(D!LeaseExpires(u)))
  /\ \A w \in Workers : WF_allVars(Tick(w))

LifecycleSpec == LifecycleInit /\ [][LifecycleNext]_allVars /\ LifecycleFairness

-----------------------------------------------------------------------------
(* Once the user row is gone nothing of the account is left and nothing of  *)
(* it comes back: no service holds data, no token row exists, although      *)
(* handlers that read the user before go on, and issueSession among them.   *)
GoneAccountHasNothing ==
  \A u \in Users : status[u] = "deleted" =>
    data[u] = {} /\ \A s \in Sids : owner[s] = u => rows[s] = "absent"

(* However DeleteAccount is cut short after RequestDeletion committed, with *)
(* tokens unrevoked or the marker in place, and whatever requests overlap   *)
(* it: in the end, and from then on, the data and the row are gone, the job *)
(* is closed and no access token is accepted.                               *)
DeletionIsTotal ==
  \A u \in Users :
    status[u] = "deletion_pending" ~>
      [](/\ status[u] = "deleted" /\ data[u] = {} /\ job[u] = "completed"
         /\ LiveTokens(u) = {} /\ marker[u] = NoSid)
=============================================================================
