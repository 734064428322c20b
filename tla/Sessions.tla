------------------------------ MODULE Sessions ------------------------------
(***************************************************************************)
(* The session life cycle of the auth service: refresh-token rows in       *)
(* PostgreSQL, the active-session marker in Redis, and the request         *)
(* handlers that change them (Refresh, Logout, the issueSession tail of    *)
(* LoginVerifyOTP and SetupVerifyOTP, ChangePassword,                      *)
(* ConfirmPasswordReset, DeleteAccount).                                   *)
(*                                                                         *)
(* A handler holds no lock and opens no transaction across its repository  *)
(* calls, so each call is one atomic step and other requests run between   *)
(* any two of them.  Credential checks (password, TOTP, reset flow) decide *)
(* whether a request reaches these steps; here any request may.  A session *)
(* and its refresh token share one id (token.New / rt.ID).                 *)
(***************************************************************************)
EXTENDS Naturals, FiniteSets

CONSTANTS
  Users,      \* accounts
  Sids,       \* ids of refresh tokens, which are also the session ids
  Reqs,       \* requests the server handles at the same time
  Ops,        \* the operations clients call
  NoUser, NoSid

AllOps == {"login", "refresh", "logout", "change", "reset", "delete"}

ASSUME SessionsAssumption ==
  /\ NoUser \notin Users
  /\ NoSid \notin Sids
  /\ Ops \subseteq AllOps

VARIABLES
  status,    \* users.deletion_status, or "deleted" once the row is gone
  rows,      \* refresh_tokens: absent, live (revoked_at IS NULL) or revoked
  owner,     \* the user a session id was generated for, NoUser before that
  expired,   \* session ids whose RefreshTTL has passed
  marker,    \* Redis: the session id whose access token is accepted
  req,       \* the requests in progress
  held,      \* sessions whose tokens were returned to a client
  cleanups,  \* device-cleanup goroutines in flight, as <<user, session>>
  parent,    \* history: the token a session was exchanged for in Refresh
  acked,     \* history: tokens for which a Logout answered success
  closed,    \* history: tokens for which a Logout ran to its end
  ended      \* history: sessions ended by ChangePassword,
             \* ConfirmPasswordReset or DeleteAccount, and their successors

store   == <<status, rows, owner, expired, marker>>
history == <<parent, acked, closed, ended>>
vars    == <<status, rows, owner, expired, marker, req, held, cleanups,
             parent, acked, closed, ended>>

Pcs == {"idle", "lookup", "reuse", "user", "rotate", "revokeAll", "activate",
        "create", "finalize", "revoke", "deactivate", "update", "request",
        "purge", "clear"}

Idle == [op |-> "none", pc |-> "idle", user |-> NoUser, tok |-> NoSid,
         sid |-> NoSid, prev |-> NoSid]

Requests == [op : AllOps \cup {"none"}, pc : Pcs, user : Users \cup {NoUser},
             tok : Sids \cup {NoSid}, sid : Sids \cup {NoSid},
             prev : Sids \cup {NoSid}]

Init ==
  /\ status = [u \in Users |-> "active"]
  /\ rows = [s \in Sids |-> "absent"]
  /\ owner = [s \in Sids |-> NoUser]
  /\ expired = {}
  /\ marker = [u \in Users |-> NoSid]
  /\ req = [p \in Reqs |-> Idle]
  /\ held = {}
  /\ cleanups = {}
  /\ parent = [s \in Sids |-> NoSid]
  /\ acked = {}
  /\ closed = {}
  /\ ended = {}

-----------------------------------------------------------------------------
(***************************************************************************)
(* Control and storage helpers.                                            *)
(***************************************************************************)
At(p, l)   == req[p].pc = l
Goto(p, l) == req' = [req EXCEPT ![p].pc = l]
Return(p)  == req' = [req EXCEPT ![p] = Idle]

(* refreshTokens.Create: the row of a new token, not revoked.               *)
Created(s) == [rows EXCEPT ![s] = "live"]

(* refreshTokens.RevokeAllForUser: one UPDATE ... WHERE revoked_at IS NULL *)
RevokedAll(u) ==
  [s \in Sids |-> IF owner[s] = u /\ rows[s] = "live" THEN "revoked" ELSE rows[s]]

(* refreshTokens.Revoke: one UPDATE by id; no row is not an error.          *)
RevokedOne(s) ==
  [rows EXCEPT ![s] = IF @ = "live" THEN "revoked" ELSE @]

(* Fault: the marker is removed whichever session it names.                 *)
DeactivatedAlways(u, s) == [marker EXCEPT ![u] = NoSid]

(* sessions.DeactivateIfCurrent: clears the marker only while it still      *)
(* names the session that is being logged out.                              *)
DeactivatedIfCurrent(u, s) ==
  [marker EXCEPT ![u] = IF @ = s THEN NoSid ELSE @]

(* Fault: hadPrevious is not looked at.                                     *)
CleanupStartedAlways(u, s) == cleanups \cup {<<u, s>>}

(* cleanupSessionDevices: starts one detached goroutine for an ended        *)
(* session; NoSid stands for hadPrevious = false.                           *)
CleanupStarted(u, s) == cleanups \cup (IF s = NoSid THEN {} ELSE {<<u, s>>})

-----------------------------------------------------------------------------
(***************************************************************************)
(* Arrival of a request.  Refresh and Logout carry a refresh token a       *)
(* client holds.  ChangePassword and DeleteAccount pass RequireAuth: the   *)
(* access token of session s is accepted while the marker names s.  Login  *)
(* and reset requests name the user of their challenge or flow.            *)
(***************************************************************************)
Arrive(p, op, u, s, l) ==
  /\ op \in Ops
  /\ At(p, "idle")
  /\ req' = [req EXCEPT ![p] = [Idle EXCEPT !.op = op, !.pc = l, !.user = u, !.tok = s]]
  /\ UNCHANGED <<store, held, cleanups, history>>

ArriveLogin(p, u)   == Arrive(p, "login", u, NoSid, "user")
ArriveRefresh(p, s) == s \in held /\ Arrive(p, "refresh", owner[s], s, "lookup")
ArriveLogout(p, s)  == s \in held /\ Arrive(p, "logout", owner[s], s, "lookup")

Authenticated(s) == s \in held /\ marker[owner[s]] = s

ArriveChange(p, s) == Authenticated(s) /\ Arrive(p, "change", owner[s], NoSid, "update")
ArriveReset(p, u)  == Arrive(p, "reset", u, NoSid, "update")
ArriveDelete(p, s) == Authenticated(s) /\ Arrive(p, "delete", owner[s], NoSid, "user")

-----------------------------------------------------------------------------
(***************************************************************************)
(* Refresh, up to its call of issueSession.                                *)
(***************************************************************************)
(* Fault: Refresh does not look at revoked_at.                              *)
RefreshLookupIgnoresRevoked(p) ==
  LET t == req[p].tok IN
  /\ At(p, "lookup") /\ req[p].op = "refresh"
  /\ \/ rows[t] # "absent" /\ t \notin expired /\ Goto(p, "user")
     \/ rows[t] = "absent" /\ Return(p)
     \/ rows[t] # "absent" /\ t \in expired /\ Return(p)
  /\ UNCHANGED <<store, held, cleanups, history>>

RefreshLookup(p) ==
  LET t == req[p].tok IN
  /\ At(p, "lookup") /\ req[p].op = "refresh"
  /\ \/ rows[t] = "revoked" /\ Goto(p, "reuse")
     \/ rows[t] = "live" /\ t \notin expired /\ Goto(p, "user")
     \/ rows[t] = "absent" /\ Return(p)
     \/ rows[t] = "live" /\ t \in expired /\ Return(p)
  /\ UNCHANGED <<store, held, cleanups, history>>

(* A revoked token, or any token of an account that is being deleted,       *)
(* revokes every token of the user and fails.                               *)
RefreshReuse(p) ==
  /\ At(p, "reuse")
  /\ rows' = RevokedAll(req[p].user)
  /\ Return(p)
  /\ UNCHANGED <<status, owner, expired, marker, held, cleanups, history>>

RefreshUser(p) ==
  LET u == req[p].user IN
  /\ At(p, "user") /\ req[p].op = "refresh"
  /\ \/ status[u] = "active" /\ Goto(p, "rotate")
     \/ status[u] = "deletion_pending" /\ Goto(p, "reuse")
     \/ status[u] = "deleted" /\ Return(p)
  /\ UNCHANGED <<store, held, cleanups, history>>

RefreshRotate(p) ==
  /\ At(p, "rotate")
  /\ rows' = RevokedOne(req[p].tok)
  /\ Goto(p, "revokeAll")
  /\ UNCHANGED <<status, owner, expired, marker, held, cleanups, history>>

(***************************************************************************)
(* LoginVerifyOTP and SetupVerifyOTP, from the read of the user on: the    *)
(* deletion check after verifyOTP looks at this read's copy.               *)
(***************************************************************************)
LoginUser(p) ==
  /\ At(p, "user") /\ req[p].op = "login"
  /\ IF status[req[p].user] = "active" THEN Goto(p, "revokeAll") ELSE Return(p)
  /\ UNCHANGED <<store, held, cleanups, history>>

(* loginChallenges.Consume or credentials.Update, after which the session   *)
(* is returned to the client.                                               *)
LoginFinalize(p) ==
  /\ At(p, "finalize")
  /\ held' = held \cup {req[p].sid}
  /\ Return(p)
  /\ UNCHANGED <<store, cleanups, history>>

-----------------------------------------------------------------------------
(***************************************************************************)
(* issueSession, shared by Refresh, LoginVerifyOTP and SetupVerifyOTP.     *)
(***************************************************************************)
(* Fault: issueSession leaves the user's other tokens alone.                *)
IssueWithoutRevoke(p) ==
  /\ At(p, "revokeAll")
  /\ Goto(p, "activate")
  /\ UNCHANGED <<store, held, cleanups, history>>

IssueRevokeAll(p) ==
  /\ At(p, "revokeAll")
  /\ rows' = RevokedAll(req[p].user)
  /\ Goto(p, "activate")
  /\ UNCHANGED <<status, owner, expired, marker, held, cleanups, history>>

(* token.New generates a fresh id and ActivateAndReturnPrevious swaps it    *)
(* into the marker, returning the id it replaced.                           *)
IssueActivate(p) ==
  LET u == req[p].user
      t == req[p].tok
  IN
  /\ At(p, "activate")
  /\ \E s \in Sids :
       /\ owner[s] = NoUser
       /\ owner' = [owner EXCEPT ![s] = u]
       /\ marker' = [marker EXCEPT ![u] = s]
       /\ parent' = [parent EXCEPT ![s] = t]
       /\ ended' = IF t \in ended THEN ended \cup {s} ELSE ended
       /\ req' = [req EXCEPT ![p] = [@ EXCEPT !.pc = "create", !.sid = s, !.prev = marker[u]]]
  /\ UNCHANGED <<status, rows, expired, held, cleanups, acked, closed>>

(* Fault: no foreign key ties a token row to its user.                      *)
IssueCreateWithoutUser(p) ==
  LET u == req[p].user
      s == req[p].sid
  IN
  /\ At(p, "create")
  /\ rows' = Created(s)
  /\ cleanups' = CleanupStarted(u, req[p].prev)
  /\ IF req[p].op = "refresh"
     THEN Return(p) /\ held' = held \cup {s}
     ELSE Goto(p, "finalize") /\ UNCHANGED held
  /\ UNCHANGED <<status, owner, expired, marker, history>>

(* refreshTokens.Create fails on the foreign key once the user row is gone. *)
(* Otherwise the replaced session's devices are cleaned up, the access      *)
(* token is signed locally and Refresh returns the new pair (a client that  *)
(* does not get it is one that never uses it).                              *)
IssueCreate(p) ==
  LET u == req[p].user
      s == req[p].sid
  IN
  /\ At(p, "create")
  /\ \/ /\ status[u] = "deleted"
        /\ Return(p)
        /\ UNCHANGED <<rows, held, cleanups>>
     \/ /\ status[u] # "deleted"
        /\ rows' = Created(s)
        /\ cleanups' = CleanupStarted(u, req[p].prev)
        /\ IF req[p].op = "refresh"
           THEN Return(p) /\ held' = held \cup {s}
           ELSE Goto(p, "finalize") /\ UNCHANGED held
  /\ UNCHANGED <<status, owner, expired, marker, history>>

-----------------------------------------------------------------------------
(***************************************************************************)
(* Logout.                                                                 *)
(***************************************************************************)
LogoutLookup(p) ==
  LET t == req[p].tok IN
  /\ At(p, "lookup") /\ req[p].op = "logout"
  /\ \/ rows[t] = "live" /\ Goto(p, "revoke") /\ UNCHANGED acked
     \/ rows[t] # "live" /\ Return(p) /\ acked' = acked \cup {t}
  /\ UNCHANGED <<store, held, cleanups, parent, closed, ended>>

(* Fault: the device cleanup is started before the marker is cleared.       *)
LogoutCleansUpEarly(p) ==
  /\ At(p, "revoke")
  /\ rows' = RevokedOne(req[p].tok)
  /\ cleanups' = CleanupStarted(req[p].user, req[p].tok)
  /\ Goto(p, "deactivate")
  /\ UNCHANGED <<status, owner, expired, marker, held, history>>

(* Fault: Logout clears the marker only.                                    *)
LogoutKeepsToken(p) ==
  /\ At(p, "revoke")
  /\ Goto(p, "deactivate")
  /\ UNCHANGED <<store, held, cleanups, history>>

LogoutRevoke(p) ==
  /\ At(p, "revoke")
  /\ rows' = RevokedOne(req[p].tok)
  /\ Goto(p, "deactivate")
  /\ UNCHANGED <<status, owner, expired, marker, held, cleanups, history>>

LogoutDeactivate(p) ==
  LET u == req[p].user
      t == req[p].tok
  IN
  /\ At(p, "deactivate")
  /\ marker' = DeactivatedIfCurrent(u, t)
  /\ cleanups' = CleanupStarted(u, t)
  /\ acked' = acked \cup {t}
  /\ closed' = closed \cup {t}
  /\ Return(p)
  /\ UNCHANGED <<status, rows, owner, expired, held, parent, ended>>

-----------------------------------------------------------------------------
(***************************************************************************)
(* ChangePassword and ConfirmPasswordReset from users.UpdatePassword on,   *)
(* and DeleteAccount.  All three end with RevokeAllForUser and the         *)
(* unconditional removal of the marker.                                    *)
(***************************************************************************)
UpdatePassword(p) ==
  /\ At(p, "update")
  /\ IF status[req[p].user] = "deleted" THEN Return(p) ELSE Goto(p, "purge")
  /\ UNCHANGED <<store, held, cleanups, history>>

DeleteUser(p) ==
  /\ At(p, "user") /\ req[p].op = "delete"
  /\ IF status[req[p].user] = "deleted" THEN Return(p) ELSE Goto(p, "request")
  /\ UNCHANGED <<store, held, cleanups, history>>

(* Fault: the transaction does not revoke the tokens.                       *)
RequestDeletionKeepsTokens(p) ==
  LET u == req[p].user IN
  /\ At(p, "request")
  /\ status' = IF status[u] = "active" THEN [status EXCEPT ![u] = "deletion_pending"]
               ELSE status
  /\ IF status[u] = "deleted" THEN Return(p) ELSE Goto(p, "purge")
  /\ UNCHANGED <<rows, owner, expired, marker, held, cleanups, history>>

(* The RequestDeletion transaction: marks the account and revokes its       *)
(* tokens; on an account already marked it commits without a change.        *)
RequestDeletion(p) ==
  LET u == req[p].user IN
  /\ At(p, "request")
  /\ \/ /\ status[u] = "active"
        /\ status' = [status EXCEPT ![u] = "deletion_pending"]
        /\ rows' = RevokedAll(u)
        /\ Goto(p, "purge")
     \/ /\ status[u] = "deletion_pending"
        /\ Goto(p, "purge")
        /\ UNCHANGED <<status, rows>>
     \/ /\ status[u] = "deleted"
        /\ Return(p)
        /\ UNCHANGED <<status, rows>>
  /\ UNCHANGED <<owner, expired, marker, held, cleanups, history>>

(* Fault: only the marker is cleared after a password change.               *)
PurgeNothing(p) ==
  /\ At(p, "purge")
  /\ Goto(p, "clear")
  /\ UNCHANGED <<store, held, cleanups, history>>

PurgeTokens(p) ==
  /\ At(p, "purge")
  /\ rows' = RevokedAll(req[p].user)
  /\ Goto(p, "clear")
  /\ UNCHANGED <<status, owner, expired, marker, held, cleanups, history>>

(* Fault: only the tokens are revoked after a password change.              *)
ClearNothing(p) ==
  LET u == req[p].user IN
  /\ At(p, "clear")
  /\ ended' = ended \cup {s \in Sids : owner[s] = u}
  /\ Return(p)
  /\ UNCHANGED <<store, held, cleanups, parent, acked, closed>>

(* DeactivateAndReturnPrevious (password paths, which then clean up the     *)
(* replaced session's devices) or Deactivate (DeleteAccount, which does     *)
(* not: the notification service's deletion step removes them).             *)
ClearSession(p) ==
  LET u == req[p].user IN
  /\ At(p, "clear")
  /\ marker' = [marker EXCEPT ![u] = NoSid]
  /\ cleanups' = IF req[p].op = "delete" THEN cleanups ELSE CleanupStarted(u, marker[u])
  /\ ended' = ended \cup {s \in Sids : owner[s] = u}
  /\ Return(p)
  /\ UNCHANGED <<status, rows, owner, expired, held, parent, acked, closed>>

-----------------------------------------------------------------------------
(***************************************************************************)
(* Everything else that can happen.                                        *)
(***************************************************************************)

(* A call fails, the request's context times out or the server stops: the   *)
(* handler returns with the steps it took and none of the rest.  An error   *)
(* from a call that did take effect is that step followed by this one.      *)
Fail(p) ==
  /\ ~At(p, "idle")
  /\ Return(p)
  /\ UNCHANGED <<store, held, cleanups, history>>

(* A device-cleanup goroutine ends: its call was answered, it timed out or  *)
(* the server stopped; errors are only logged.                              *)
CleanupEnds(c) ==
  /\ c \in cleanups
  /\ cleanups' = cleanups \ {c}
  /\ UNCHANGED <<store, req, held, history>>

(* The RefreshTTL of a session passes.                                      *)
Expire(s) ==
  /\ owner[s] # NoUser /\ s \notin expired
  /\ expired' = expired \cup {s}
  /\ UNCHANGED <<status, rows, owner, marker, req, held, cleanups, history>>

(* Redis drops a marker when the TTL it was set with has passed; the TTL    *)
(* starts after the token's own lifetime does.                              *)
MarkerExpires(u) ==
  /\ marker[u] \in expired
  /\ marker' = [marker EXCEPT ![u] = NoSid]
  /\ UNCHANGED <<status, rows, owner, expired, req, held, cleanups, history>>

(* The deletion worker removes the user row; refresh_tokens rows cascade.   *)
DeleteUserRow(u) ==
  /\ status[u] = "deletion_pending"
  /\ status' = [status EXCEPT ![u] = "deleted"]
  /\ rows' = [s \in Sids |-> IF owner[s] = u THEN "absent" ELSE rows[s]]
  /\ UNCHANGED <<owner, expired, marker, req, held, cleanups, history>>

ArriveAny(p) ==
  \/ \E u \in Users : ArriveLogin(p, u) \/ ArriveReset(p, u)
  \/ \E s \in Sids : \/ ArriveRefresh(p, s) \/ ArriveLogout(p, s)
                     \/ ArriveChange(p, s) \/ ArriveDelete(p, s)

Step(p) ==
  \/ RefreshLookup(p) \/ RefreshReuse(p) \/ RefreshUser(p) \/ RefreshRotate(p)
  \/ LoginUser(p) \/ LoginFinalize(p)
  \/ IssueRevokeAll(p) \/ IssueActivate(p) \/ IssueCreate(p)
  \/ LogoutLookup(p) \/ LogoutRevoke(p) \/ LogoutDeactivate(p)
  \/ UpdatePassword(p) \/ DeleteUser(p) \/ RequestDeletion(p)
  \/ PurgeTokens(p) \/ ClearSession(p)

Environment ==
  \/ \E c \in cleanups : CleanupEnds(c)
  \/ \E s \in Sids : Expire(s)
  \/ \E u \in Users : MarkerExpires(u) \/ DeleteUserRow(u)

Next ==
  \/ \E p \in Reqs : ArriveAny(p) \/ Step(p) \/ Fail(p)
  \/ Environment

Spec == Init /\ [][Next]_vars

-----------------------------------------------------------------------------
(***************************************************************************)
(* Properties.                                                             *)
(***************************************************************************)

(* The shape of the state: rows, markers and requests name users and        *)
(* session ids of the model.                                                *)
TypeOK ==
  /\ status \in [Users -> {"active", "deletion_pending", "deleted"}]
  /\ rows \in [Sids -> {"absent", "live", "revoked"}]
  /\ owner \in [Sids -> Users \cup {NoUser}]
  /\ expired \subseteq Sids
  /\ marker \in [Users -> Sids \cup {NoSid}]
  /\ req \in [Reqs -> Requests]
  /\ held \subseteq Sids
  /\ cleanups \subseteq Users \X Sids
  /\ parent \in [Sids -> Sids \cup {NoSid}]
  /\ acked \subseteq Sids /\ closed \subseteq Sids /\ ended \subseteq Sids

LiveTokens(u) == {s \in Sids : owner[s] = u /\ rows[s] = "live"}

(* cleanupSessionDevices is only ever started for "a session that has just  *)
(* stopped being valid", and the goroutine may run arbitrarily late: while  *)
(* one is in flight its session is never the active one again, so no push   *)
(* device of the current session is removed.                                *)
CleanupOnlyDeadSessions ==
  \A u \in Users, s \in Sids : <<u, s>> \in cleanups => marker[u] # s

(* Once a Logout has run to its end, its refresh token is never live and    *)
(* its access token never accepted again, whatever runs at the same time.   *)
CompletedLogoutIsFinal ==
  \A s \in closed : rows[s] # "live" /\ marker[owner[s]] # s

(* The marker of a session disappears only because its TTL passed, its own  *)
(* token was logged out, or its user changed or reset the password or       *)
(* deleted the account: a Logout with an older token spares it.             *)
SessionEndsForCause ==
  [][\A u \in Users :
       marker[u] # NoSid /\ marker'[u] = NoSid =>
         \/ marker[u] \in expired
         \/ \E p \in Reqs :
              /\ req[p].user = u /\ req'[p] = Idle
              /\ \/ req[p].op = "logout" /\ req[p].tok = marker[u]
                 \/ req[p].op \in {"change", "reset", "delete"}]_vars

(* issueSession: "Only one session may be active per user at a time": a     *)
(* user never has two refresh tokens that can both be exchanged.            *)
SingleSession ==
  \A u \in Users : Cardinality(LiveTokens(u)) <= 1

(* A refresh token that still works belongs to the active session, so the   *)
(* access token and the refresh token of a session die together.            *)
LiveTokenIsActive ==
  \A u \in Users : \A s \in LiveTokens(u) : s \in expired \/ marker[u] = s

(* Refresh rotates: a refresh token is exchanged for at most one session.   *)
TokenRotatesOnce ==
  \A s, t \in held : parent[s] = parent[t] /\ parent[s] # NoSid => s = t

(* Once ChangePassword, ConfirmPasswordReset or DeleteAccount has answered  *)
(* success, no session the account had by then, and none refreshed from     *)
(* one, has a live refresh token or an accepted access token.               *)
EndedSessionsStayDead ==
  \A s \in ended : rows[s] # "live" /\ marker[owner[s]] # s

(* RequestDeletion "makes the account unusable": an account that is pending *)
(* deletion or deleted has no live refresh token.                           *)
PendingAccountHasNoLiveToken ==
  \A u \in Users : status[u] # "active" => LiveTokens(u) = {}

(* Logout answers success only when "neither token can be used".            *)
AckedLogoutIsDead ==
  \A s \in acked : rows[s] # "live" /\ marker[owner[s]] # s
=============================================================================
