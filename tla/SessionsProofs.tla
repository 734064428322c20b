--------------------------- MODULE SessionsProofs ---------------------------
(***************************************************************************)
(* Proofs about Sessions, for every set of users, session ids and          *)
(* concurrent requests.                                                    *)
(***************************************************************************)
EXTENDS Sessions, TLAPS

(***************************************************************************)
(* The inductive invariant.  Session ids are fresh: an id is in a row, a   *)
(* marker, a client's hands or a goroutine only after IssueActivate        *)
(* generated it, and IssueActivate never generates it again.  That is what *)
(* keeps a session that lost its marker from ever getting it back.         *)
(***************************************************************************)

(* A request names its user; one that works on a client's token was given   *)
(* it by a client, for that token's owner.                                  *)
RequestArgs(p) ==
  /\ req[p].pc # "idle" => req[p].user \in Users
  /\ \/ req[p].pc \in {"lookup", "rotate", "revoke", "deactivate"}
     \/ req[p].pc = "user" /\ req[p].op = "refresh"
     => req[p].tok \in held /\ owner[req[p].tok] = req[p].user
  /\ req[p].pc \in {"revoke", "deactivate"} => req[p].op = "logout"
  /\ req[p].pc \in {"update", "request", "purge", "clear"}
     => req[p].op \in {"change", "reset", "delete"}
  /\ req[p].pc \in {"create", "finalize"}
     => req[p].sid \in Sids /\ owner[req[p].sid] = req[p].user

(* A session being issued is in nobody's hands and has no row yet; the      *)
(* session it replaced is the same user's and no longer active.  A Logout   *)
(* that is about to clear the marker has revoked its token.                 *)
RequestProgress(p) ==
  /\ req[p].pc = "create" =>
       /\ rows[req[p].sid] = "absent"
       /\ req[p].sid \notin held
       /\ req[p].prev # NoSid => /\ owner[req[p].prev] = req[p].user
                                 /\ marker[req[p].user] # req[p].prev
  /\ req[p].pc = "deactivate" => rows[req[p].tok] # "live"

(* No two requests issue the same session.                                  *)
DistinctIssues ==
  \A p, q \in Reqs :
    /\ p # q
    /\ req[p].pc \in {"create", "finalize"}
    /\ req[q].pc \in {"create", "finalize"}
    => req[p].sid # req[q].sid

(* Ids in use have an owner.                                                *)
Owned ==
  /\ \A u \in Users : marker[u] # NoSid => owner[marker[u]] = u
  /\ \A s \in held : owner[s] \in Users
  /\ \A u \in Users, s \in Sids : <<u, s>> \in cleanups => owner[s] = u

RowsOwned == \A s \in Sids : rows[s] # "absent" => owner[s] \in Users

RequestsOK == \A p \in Reqs : RequestArgs(p) /\ RequestProgress(p)

ClosedHeld == closed \subseteq held

IInv ==
  /\ TypeOK /\ RequestsOK /\ DistinctIssues /\ Owned /\ RowsOwned /\ ClosedHeld
  /\ CleanupOnlyDeadSessions /\ CompletedLogoutIsFinal

-----------------------------------------------------------------------------
(* Moving a handler to another program counter, or ending it, keeps the     *)
(* table of requests well-typed and touches no other request.               *)
LEMMA GotoType ==
  ASSUME req \in [Reqs -> Requests], NEW p \in Reqs, NEW l \in Pcs, Goto(p, l)
  PROVE  /\ req' \in [Reqs -> Requests]
         /\ \A q \in Reqs : q # p => req'[q] = req[q]
         /\ req'[p].pc = l /\ req'[p].op = req[p].op /\ req'[p].user = req[p].user
         /\ req'[p].tok = req[p].tok /\ req'[p].sid = req[p].sid
         /\ req'[p].prev = req[p].prev
BY DEF Goto, Requests

(* A handler that returns.                                                  *)
LEMMA ReturnType ==
  ASSUME req \in [Reqs -> Requests], NEW p \in Reqs, Return(p)
  PROVE  /\ req' \in [Reqs -> Requests]
         /\ \A q \in Reqs : q # p => req'[q] = req[q]
         /\ req'[p] = Idle /\ req'[p].pc = "idle"
BY DEF Return, Requests, Idle, Pcs

(***************************************************************************)
(* A quiet step issues nothing: no id gets an owner, a row or a marker, no *)
(* client gets a token and no goroutine is started.                        *)
(***************************************************************************)
Quiet ==
  /\ owner' = owner /\ held' = held /\ closed' = closed
  /\ \A s \in Sids : rows'[s] = "live" => rows[s] = "live"
  /\ \A s \in Sids : rows[s] = "absent" => rows'[s] = "absent"
  /\ \A u \in Users : marker'[u] = marker[u] \/ marker'[u] = NoSid
  /\ cleanups' \subseteq cleanups

(* A quiet step may move a request on, as long as it does not start to      *)
(* issue and the request still satisfies its own part of the invariant.     *)
Moved(q) == /\ RequestArgs(q)' /\ RequestProgress(q)'
            /\ req'[q].pc \notin {"create", "finalize"}

(* A step that moves no marker to a new session and makes no token live     *)
(* keeps the invariant once its requests are moved on.                      *)
LEMMA QuietStep ==
  ASSUME IInv, TypeOK', Quiet,
         \A q \in Reqs : req'[q] = req[q] \/ Moved(q)
  PROVE  IInv'
<1>1. RequestsOK'
  <2> SUFFICES ASSUME NEW q \in Reqs, req'[q] = req[q]
               PROVE RequestArgs(q)' /\ RequestProgress(q)'
    BY DEF RequestsOK, Moved
  <2>1. RequestArgs(q) /\ RequestProgress(q) /\ req'[q] = req[q]
    BY DEF IInv, RequestsOK
  <2>2. RequestArgs(q)'
    BY <2>1 DEF RequestArgs, Quiet
  <2>3. req[q] \in Requests
    BY DEF IInv, TypeOK
  <2>4. RequestProgress(q)'
    <3>1. CASE req[q].pc = "create"
      BY <2>1, <2>3, <3>1 DEF RequestProgress, RequestArgs, Quiet
    <3>2. CASE req[q].pc = "deactivate"
      BY <2>1, <2>3, <3>2 DEF RequestProgress, RequestArgs, Quiet, IInv, TypeOK
    <3> QED BY <2>1, <3>1, <3>2 DEF RequestProgress
  <2> QED BY <2>2, <2>4
<1>2. DistinctIssues'
  BY DEF IInv, DistinctIssues, Moved
<1>3. Owned'
  BY DEF IInv, Owned, Quiet
<1>4. ClosedHeld' /\ RowsOwned'
  BY DEF IInv, ClosedHeld, RowsOwned, Quiet
<1>5. CleanupOnlyDeadSessions'
  BY SessionsAssumption DEF IInv, CleanupOnlyDeadSessions, Quiet, TypeOK
<1>6. CompletedLogoutIsFinal'
  BY SessionsAssumption DEF IInv, CompletedLogoutIsFinal, Quiet, TypeOK, Owned, ClosedHeld
<1> QED BY <1>1, <1>2, <1>3, <1>4, <1>5, <1>6 DEF IInv

(* A request at its new program counter l needs what l requires.            *)
LEMMA QuietGoto ==
  ASSUME IInv, TypeOK', Quiet, NEW p \in Reqs, NEW l \in Pcs, Goto(p, l),
         l \notin {"create", "finalize", "idle"}, req[p].user \in Users,
         \/ l \in {"lookup", "rotate", "revoke", "deactivate"}
         \/ l = "user" /\ req[p].op = "refresh"
         => req[p].tok \in held /\ owner[req[p].tok] = req[p].user,
         l \in {"revoke", "deactivate"} => req[p].op = "logout",
         l \in {"update", "request", "purge", "clear"}
         => req[p].op \in {"change", "reset", "delete"},
         l = "deactivate" => rows'[req[p].tok] # "live"
  PROVE  IInv'
<1>1. /\ \A q \in Reqs : q # p => req'[q] = req[q]
      /\ req'[p].pc = l /\ req'[p].op = req[p].op /\ req'[p].user = req[p].user
      /\ req'[p].tok = req[p].tok
  BY GotoType DEF IInv, TypeOK
<1>2. Moved(p)
  BY <1>1 DEF Moved, RequestArgs, RequestProgress, Quiet
<1> QED BY <1>1, <1>2, QuietStep

(* Returning, with everything else unchanged, keeps the invariant.          *)
LEMMA QuietReturn ==
  ASSUME IInv, TypeOK', Quiet, NEW p \in Reqs, Return(p)
  PROVE  IInv'
<1>1. (\A q \in Reqs : q # p => req'[q] = req[q]) /\ req'[p].pc = "idle"
  BY ReturnType DEF IInv, TypeOK
<1>2. Moved(p)
  BY <1>1 DEF Moved, RequestArgs, RequestProgress
<1> QED BY <1>1, <1>2, QuietStep

(* So does the arrival of a request.                                        *)
LEMMA QuietArrive ==
  ASSUME IInv, NEW p \in Reqs, NEW op \in AllOps, NEW u \in Users,
         NEW s \in Sids \cup {NoSid}, NEW l \in {"lookup", "user", "update"},
         Arrive(p, op, u, s, l),
         l = "lookup" \/ op = "refresh" => s \in held /\ owner[s] = u,
         l = "update" => op \in {"change", "reset", "delete"}
  PROVE  IInv'
<1> DEFINE r == [Idle EXCEPT !.op = op, !.pc = l, !.user = u, !.tok = s]
<1>1. r \in Requests
  BY DEF Idle, Requests, Pcs
<1>2. r.op = op /\ r.pc = l /\ r.user = u /\ r.tok = s
  BY DEF Idle
<1> HIDE DEF r
<1>3. req' = [req EXCEPT ![p] = r]
  BY DEF Arrive, r
<1>4. TypeOK' /\ Quiet
  BY <1>1, <1>3 DEF Arrive, IInv, TypeOK, Quiet, store, history
<1>5. (\A q \in Reqs : q # p => req'[q] = req[q]) /\ req'[p] = r
  BY <1>3 DEF IInv, TypeOK
<1>6. Moved(p)
  BY <1>2, <1>4, <1>5 DEF Moved, RequestArgs, RequestProgress, Quiet
<1> QED BY <1>4, <1>5, <1>6, QuietStep

-----------------------------------------------------------------------------
(* The revocations of the token repository only take live rows away.        *)
Shrunk(new) ==
  /\ new \in [Sids -> {"absent", "live", "revoked"}]
  /\ \A s \in Sids : new[s] = "live" => rows[s] = "live"
  /\ \A s \in Sids : rows[s] = "absent" => new[s] = "absent"

(* RevokeAllForUser never makes a token live.                               *)
LEMMA RevokedAllShrinks ==
  ASSUME TypeOK, NEW u PROVE Shrunk(RevokedAll(u))
BY DEF TypeOK, RevokedAll, Shrunk

(* Neither does Revoke.                                                     *)
LEMMA RevokedOneShrinks ==
  ASSUME TypeOK, NEW t \in Sids
  PROVE  Shrunk(RevokedOne(t)) /\ RevokedOne(t)[t] # "live"
BY DEF TypeOK, RevokedOne, Shrunk

(* Refresh up to issueSession.                                              *)
LEMMA RefreshStep ==
  ASSUME IInv, NEW p \in Reqs,
         RefreshLookup(p) \/ RefreshReuse(p) \/ RefreshUser(p) \/ RefreshRotate(p)
  PROVE  IInv'
<1> USE DEF At
<1>0. TypeOK /\ RequestArgs(p)
  BY DEF IInv, RequestsOK
<1>1. CASE RefreshLookup(p)
  <2>1. TypeOK' /\ Quiet
    BY <1>0, <1>1, GotoType, ReturnType DEF RefreshLookup, TypeOK, Quiet, Pcs, store, history
  <2> QED BY <1>0, <1>1, <2>1, QuietGoto, QuietReturn DEF RefreshLookup, RequestArgs, Pcs
<1>2. CASE RefreshReuse(p)
  <2>1. TypeOK' /\ Quiet
    BY <1>0, <1>2, RevokedAllShrinks, ReturnType DEF Shrunk, RefreshReuse, TypeOK, Quiet, history
  <2> QED BY <1>2, <2>1, QuietReturn DEF RefreshReuse
<1>3. CASE RefreshUser(p)
  <2>1. TypeOK' /\ Quiet
    BY <1>0, <1>3, GotoType, ReturnType DEF RefreshUser, TypeOK, Quiet, Pcs, store, history
  <2> QED BY <1>0, <1>3, <2>1, QuietGoto, QuietReturn DEF RefreshUser, RequestArgs, Pcs
<1>4. CASE RefreshRotate(p)
  <2>1. req[p].tok \in Sids
    BY <1>0, <1>4 DEF RefreshRotate, RequestArgs, TypeOK
  <2>2. TypeOK' /\ Quiet
    BY <1>0, <1>4, <2>1, RevokedOneShrinks, GotoType DEF Shrunk, RefreshRotate, TypeOK, Quiet, Pcs, history
  <2> QED BY <1>0, <1>4, <2>2, QuietGoto DEF RefreshRotate, RequestArgs, Pcs
<1> QED BY <1>1, <1>2, <1>3, <1>4

(* Logout up to its revocation, the password and deletion handlers up to    *)
(* the removal of the marker, and the first step of issueSession.           *)
LEMMA RevocationStep ==
  ASSUME IInv, NEW p \in Reqs,
         \/ LoginUser(p) \/ IssueRevokeAll(p) \/ LogoutLookup(p) \/ LogoutRevoke(p)
         \/ UpdatePassword(p) \/ DeleteUser(p) \/ RequestDeletion(p) \/ PurgeTokens(p)
  PROVE  IInv'
<1> USE DEF At
<1>0. TypeOK /\ RequestArgs(p)
  BY DEF IInv, RequestsOK
<1>1. CASE LoginUser(p)
  <2>1. TypeOK' /\ Quiet
    BY <1>0, <1>1, GotoType, ReturnType DEF LoginUser, TypeOK, Quiet, Pcs, store, history
  <2> QED BY <1>0, <1>1, <2>1, QuietGoto, QuietReturn DEF LoginUser, RequestArgs, Pcs
<1>2. CASE IssueRevokeAll(p)
  <2>1. TypeOK' /\ Quiet
    BY <1>0, <1>2, RevokedAllShrinks, GotoType DEF Shrunk, IssueRevokeAll, TypeOK, Quiet, Pcs, history
  <2> QED BY <1>0, <1>2, <2>1, QuietGoto DEF IssueRevokeAll, RequestArgs, Pcs
<1>3. CASE LogoutLookup(p)
  <2>1. req[p].tok \in Sids
    BY <1>0, <1>3 DEF LogoutLookup, RequestArgs, TypeOK
  <2>2. TypeOK' /\ Quiet
    BY <1>0, <1>3, <2>1, GotoType, ReturnType DEF LogoutLookup, TypeOK, Quiet, Pcs, store
  <2> QED BY <1>0, <1>3, <2>2, QuietGoto, QuietReturn DEF LogoutLookup, RequestArgs, Pcs
<1>4. CASE LogoutRevoke(p)
  <2>1. req[p].tok \in Sids
    BY <1>0, <1>4 DEF LogoutRevoke, RequestArgs, TypeOK
  <2>2. TypeOK' /\ Quiet /\ rows'[req[p].tok] # "live"
    BY <1>0, <1>4, <2>1, RevokedOneShrinks, GotoType DEF Shrunk, LogoutRevoke, TypeOK, Quiet, Pcs, history
  <2> QED BY <1>0, <1>4, <2>2, QuietGoto DEF LogoutRevoke, RequestArgs, Pcs
<1>5. CASE UpdatePassword(p)
  <2>1. TypeOK' /\ Quiet
    BY <1>0, <1>5, GotoType, ReturnType DEF UpdatePassword, TypeOK, Quiet, Pcs, store, history
  <2> QED BY <1>0, <1>5, <2>1, QuietGoto, QuietReturn DEF UpdatePassword, RequestArgs, Pcs
<1>6. CASE DeleteUser(p)
  <2>1. TypeOK' /\ Quiet
    BY <1>0, <1>6, GotoType, ReturnType DEF DeleteUser, TypeOK, Quiet, Pcs, store, history
  <2> QED BY <1>0, <1>6, <2>1, QuietGoto, QuietReturn DEF DeleteUser, RequestArgs, Pcs
<1>7. CASE RequestDeletion(p)
  <2>1. TypeOK' /\ Quiet
    BY <1>0, <1>7, RevokedAllShrinks, GotoType, ReturnType DEF Shrunk, RequestDeletion, TypeOK, Quiet, Pcs, history
  <2> QED BY <1>0, <1>7, <2>1, QuietGoto, QuietReturn DEF RequestDeletion, RequestArgs, Pcs
<1>8. CASE PurgeTokens(p)
  <2>1. TypeOK' /\ Quiet
    BY <1>0, <1>8, RevokedAllShrinks, GotoType DEF Shrunk, PurgeTokens, TypeOK, Quiet, Pcs, history
  <2> QED BY <1>0, <1>8, <2>1, QuietGoto DEF PurgeTokens, RequestArgs, Pcs
<1> QED BY <1>1, <1>2, <1>3, <1>4, <1>5, <1>6, <1>7, <1>8

(* issueSession generates an id no state mentions yet and makes it active.  *)
LEMMA ActivateStep ==
  ASSUME IInv, NEW p \in Reqs, IssueActivate(p) PROVE IInv'
<1> USE SessionsAssumption DEF At
<1>0. TypeOK /\ RequestArgs(p) /\ Owned /\ req[p].user \in Users
  BY DEF IInv, RequestsOK, IssueActivate, RequestArgs
<1>1. PICK s \in Sids :
        /\ owner[s] = NoUser
        /\ owner' = [owner EXCEPT ![s] = req[p].user]
        /\ marker' = [marker EXCEPT ![req[p].user] = s]
        /\ parent' = [parent EXCEPT ![s] = req[p].tok]
        /\ ended' = IF req[p].tok \in ended THEN ended \cup {s} ELSE ended
        /\ req' = [req EXCEPT ![p] = [@ EXCEPT !.pc = "create", !.sid = s,
                                               !.prev = marker[req[p].user]]]
  BY DEF IssueActivate
<1>2. UNCHANGED <<status, rows, expired, held, cleanups, acked, closed>>
  BY DEF IssueActivate
<1>3. /\ req' \in [Reqs -> Requests]
      /\ \A q \in Reqs : q # p => req'[q] = req[q]
      /\ req'[p].pc = "create" /\ req'[p].sid = s /\ req'[p].user = req[p].user
      /\ req'[p].prev = marker[req[p].user]
  <2> DEFINE r == [req[p] EXCEPT !.pc = "create", !.sid = s, !.prev = marker[req[p].user]]
  <2>1. req[p] \in Requests /\ marker[req[p].user] \in Sids \cup {NoSid}
    BY <1>0 DEF TypeOK
  <2>2. r \in Requests /\ r.pc = "create" /\ r.sid = s /\ r.user = req[p].user
        /\ r.prev = marker[req[p].user]
    BY <2>1 DEF Requests, Pcs
  <2>3. req' = [req EXCEPT ![p] = r]
    BY <1>1
  <2> HIDE DEF r
  <2> QED BY <1>0, <2>2, <2>3 DEF TypeOK
<1>4. TypeOK'
  <2>1. req[p].tok \in Sids \cup {NoSid}
    BY <1>0 DEF TypeOK, Requests
  <2> QED BY <1>0, <1>1, <1>2, <1>3, <2>1 DEF TypeOK
<1>5. /\ s \notin held /\ rows[s] = "absent"
      /\ \A u \in Users : <<u, s>> \notin cleanups /\ marker[u] # s
      /\ \A q \in Reqs : req[q].pc \in {"create", "finalize"} => req[q].sid # s
  <2>1. s \notin held /\ \A u \in Users : <<u, s>> \notin cleanups /\ marker[u] # s
    BY <1>0, <1>1 DEF Owned, TypeOK
  <2>2. \A q \in Reqs : req[q].pc \in {"create", "finalize"} => req[q].sid # s
    BY <1>1 DEF IInv, RequestsOK, RequestArgs
  <2>3. rows[s] = "absent"
    BY <1>1 DEF IInv, RowsOwned
  <2> QED BY <2>1, <2>2, <2>3
<1>6. RequestsOK'
  <2> SUFFICES ASSUME NEW q \in Reqs PROVE RequestArgs(q)' /\ RequestProgress(q)'
    BY DEF RequestsOK
  <2>1. CASE q = p
    BY <1>0, <1>1, <1>2, <1>3, <1>5, <2>1 DEF RequestArgs, RequestProgress, Owned, TypeOK
  <2>2. CASE q # p
    <3>1. RequestArgs(q) /\ RequestProgress(q) /\ req'[q] = req[q] /\ req[q] \in Requests
      BY <1>0, <1>3, <2>2 DEF IInv, RequestsOK, TypeOK
    <3>2. RequestArgs(q)'
      BY <1>0, <1>1, <1>2, <1>5, <3>1 DEF RequestArgs, TypeOK
    <3>3. RequestProgress(q)'
      BY <1>0, <1>1, <1>2, <3>1 DEF RequestArgs, RequestProgress, TypeOK, Requests
    <3> QED BY <3>2, <3>3
  <2> QED BY <2>1, <2>2
<1>7. DistinctIssues'
  BY <1>3, <1>5 DEF IInv, DistinctIssues
<1>8. Owned' /\ RowsOwned' /\ ClosedHeld'
  BY <1>0, <1>1, <1>2, <1>5 DEF IInv, Owned, RowsOwned, ClosedHeld, TypeOK
<1>9. CleanupOnlyDeadSessions'
  BY <1>0, <1>1, <1>2, <1>5 DEF IInv, CleanupOnlyDeadSessions, TypeOK
<1>10. CompletedLogoutIsFinal'
  BY <1>0, <1>1, <1>2, <1>5 DEF IInv, CompletedLogoutIsFinal, ClosedHeld, Owned, TypeOK
<1> QED BY <1>4, <1>6, <1>7, <1>8, <1>9, <1>10 DEF IInv

(* issueSession stores the row of a fresh session and hands the replaced    *)
(* session to cleanupSessionDevices.                                        *)
LEMMA CreateStep ==
  ASSUME IInv, NEW p \in Reqs, IssueCreate(p) PROVE IInv'
<1> USE SessionsAssumption DEF At
<1> DEFINE u == req[p].user
           s == req[p].sid
           v == req[p].prev
<1>0. /\ TypeOK /\ RequestArgs(p) /\ RequestProgress(p) /\ Owned /\ DistinctIssues
      /\ u \in Users /\ s \in Sids /\ owner[s] = u /\ v \in Sids \cup {NoSid}
      /\ s \notin held /\ rows[s] = "absent" /\ req[p].pc = "create"
      /\ v # NoSid => owner[v] = u /\ marker[u] # v
  BY DEF IInv, RequestsOK, IssueCreate, Created, RequestArgs, RequestProgress, TypeOK, Requests
<1> HIDE DEF u, s, v
<1>1. CASE status[u] = "deleted"
  <2>1. Return(p) /\ TypeOK' /\ Quiet
    BY <1>0, <1>1, ReturnType DEF IssueCreate, Created, TypeOK, Quiet, history, u
  <2> QED BY <2>1, QuietReturn
<1>2. CASE status[u] # "deleted"
  <2>1. /\ rows' = [rows EXCEPT ![s] = "live"]
        /\ cleanups' = cleanups \cup (IF v = NoSid THEN {} ELSE {<<u, v>>})
        /\ UNCHANGED <<status, owner, expired, marker, history>>
        /\ held' = held \/ held' = held \cup {s}
        /\ Return(p) \/ (Goto(p, "finalize") /\ held' = held)
    BY <1>2 DEF IssueCreate, Created, CleanupStarted, u, s, v
  <2>2. /\ req' \in [Reqs -> Requests]
        /\ \A q \in Reqs : q # p => req'[q] = req[q]
        /\ \/ req'[p].pc = "idle"
           \/ /\ req'[p].pc = "finalize" /\ req'[p].sid = s /\ req'[p].user = u
              /\ held' = held
    BY <1>0, <2>1, GotoType, ReturnType DEF TypeOK, Pcs, u, s
  <2>3. TypeOK'
    BY <1>0, <2>1, <2>2 DEF TypeOK, history
  <2>4. RequestsOK'
    <3> SUFFICES ASSUME NEW q \in Reqs PROVE RequestArgs(q)' /\ RequestProgress(q)'
      BY DEF RequestsOK
    <3>1. CASE q = p
      BY <1>0, <2>1, <2>2, <3>1 DEF RequestArgs, RequestProgress
    <3>2. CASE q # p
      <4>1. RequestArgs(q) /\ RequestProgress(q) /\ req'[q] = req[q]
        BY <2>2, <3>2 DEF IInv, RequestsOK
      <4>2. RequestArgs(q)'
        BY <2>1, <4>1 DEF RequestArgs
      <4>3. req[q].pc = "create" => req[q].sid # s
        BY <1>0, <3>2 DEF DistinctIssues, s
      <4>4. req[q].pc = "deactivate" => req[q].tok # s
        BY <1>0, <4>1 DEF RequestArgs
      <4>5. RequestProgress(q)'
        BY <1>0, <2>1, <4>1, <4>3, <4>4 DEF RequestProgress, RequestArgs, TypeOK
      <4> QED BY <4>2, <4>5
    <3> QED BY <3>1, <3>2
  <2>5. DistinctIssues'
    BY <1>0, <2>2 DEF DistinctIssues, s
  <2>6. Owned' /\ RowsOwned' /\ ClosedHeld'
    <3>1. Owned'
      BY <1>0, <2>1 DEF Owned, TypeOK
    <3>2. RowsOwned'
      BY <1>0, <2>1 DEF IInv, RowsOwned, TypeOK
    <3>3. ClosedHeld'
      BY <2>1 DEF IInv, ClosedHeld, history
    <3> QED BY <3>1, <3>2, <3>3
  <2>7. CleanupOnlyDeadSessions'
    BY <1>0, <2>1 DEF IInv, CleanupOnlyDeadSessions
  <2>8. CompletedLogoutIsFinal'
    BY <1>0, <2>1 DEF IInv, CompletedLogoutIsFinal, ClosedHeld, TypeOK, history
  <2> QED BY <2>3, <2>4, <2>5, <2>6, <2>7, <2>8 DEF IInv
<1> QED BY <1>1, <1>2

(* LoginVerifyOTP and SetupVerifyOTP return the session they issued.        *)
LEMMA FinalizeStep ==
  ASSUME IInv, NEW p \in Reqs, LoginFinalize(p) PROVE IInv'
<1> USE SessionsAssumption DEF At
<1> DEFINE s == req[p].sid
<1>0. /\ TypeOK /\ Owned /\ DistinctIssues /\ s \in Sids /\ owner[s] \in Users
      /\ req[p].pc = "finalize"
  BY DEF IInv, RequestsOK, LoginFinalize, RequestArgs
<1> HIDE DEF s
<1>1. /\ held' = held \cup {s} /\ Return(p)
      /\ UNCHANGED <<store, cleanups, history>>
  BY DEF LoginFinalize, s
<1>2. /\ req' \in [Reqs -> Requests] /\ req'[p].pc = "idle"
      /\ \A q \in Reqs : q # p => req'[q] = req[q]
  BY <1>0, <1>1, ReturnType DEF TypeOK
<1>3. TypeOK'
  BY <1>0, <1>1, <1>2 DEF TypeOK, store, history
<1>4. RequestsOK'
  <2> SUFFICES ASSUME NEW q \in Reqs PROVE RequestArgs(q)' /\ RequestProgress(q)'
    BY DEF RequestsOK
  <2>1. CASE q = p
    BY <1>2, <2>1 DEF RequestArgs, RequestProgress
  <2>2. CASE q # p
    <3>1. RequestArgs(q) /\ RequestProgress(q) /\ req'[q] = req[q]
      BY <1>2, <2>2 DEF IInv, RequestsOK
    <3>2. req[q].pc = "create" => req[q].sid # s
      BY <1>0, <2>2 DEF DistinctIssues, s
    <3>3. UNCHANGED <<rows, owner, marker>>
      BY <1>1 DEF store
    <3>4. RequestArgs(q)'
      BY <1>1, <3>1, <3>3 DEF RequestArgs
    <3>5. RequestProgress(q)'
      BY <1>1, <3>1, <3>2, <3>3 DEF RequestProgress
    <3> QED BY <3>4, <3>5
  <2> QED BY <2>1, <2>2
<1>5. DistinctIssues'
  BY <1>0, <1>2 DEF DistinctIssues
<1>6. Owned' /\ RowsOwned' /\ ClosedHeld'
  BY <1>0, <1>1 DEF IInv, Owned, RowsOwned, ClosedHeld, store, history
<1>7. CleanupOnlyDeadSessions' /\ CompletedLogoutIsFinal'
  BY <1>1 DEF IInv, CleanupOnlyDeadSessions, CompletedLogoutIsFinal, store, history
<1> QED BY <1>3, <1>4, <1>5, <1>6, <1>7 DEF IInv

(* Logout and the password and deletion handlers end by removing the        *)
(* marker; the session that just lost it is the one cleaned up.             *)
LEMMA EndStep ==
  ASSUME IInv, NEW p \in Reqs, LogoutDeactivate(p) \/ ClearSession(p) PROVE IInv'
<1> USE SessionsAssumption DEF At
<1> DEFINE u == req[p].user
           t == req[p].tok
<1>0. TypeOK /\ Owned /\ u \in Users /\ RequestArgs(p) /\ RequestProgress(p)
  BY DEF IInv, RequestsOK, LogoutDeactivate, ClearSession, RequestArgs
<1>1. PICK d \in Sids \cup {NoSid} :
        /\ cleanups' = cleanups \/ cleanups' = CleanupStarted(u, d)
        /\ d # NoSid => owner[d] = u /\ marker'[u] # d
        /\ marker' = DeactivatedIfCurrent(u, t) \/ marker' = [marker EXCEPT ![u] = NoSid]
        /\ closed' = closed
           \/ (closed' = closed \cup {t} /\ t \in held /\ rows[t] # "live"
               /\ owner[t] = u /\ marker'[u] # t)
  <2>1. CASE LogoutDeactivate(p)
    <3>1. t \in held /\ owner[t] = u /\ rows[t] # "live" /\ t \in Sids
      BY <1>0, <2>1 DEF LogoutDeactivate, RequestArgs, RequestProgress, TypeOK
    <3>2. marker'[u] # t
      BY <1>0, <2>1, <3>1 DEF LogoutDeactivate, DeactivatedIfCurrent, TypeOK
    <3> t \in Sids \cup {NoSid}
      BY <3>1
    <3> WITNESS t \in Sids \cup {NoSid}
    <3> QED BY <2>1, <3>1, <3>2 DEF LogoutDeactivate
  <2>2. CASE ClearSession(p)
    <3>1. marker[u] \in Sids \cup {NoSid} /\ (marker[u] # NoSid => owner[marker[u]] = u)
      BY <1>0 DEF TypeOK, Owned
    <3>2. marker'[u] = NoSid
      BY <1>0, <2>2 DEF ClearSession, TypeOK
    <3> marker[u] \in Sids \cup {NoSid}
      BY <3>1
    <3> WITNESS marker[u] \in Sids \cup {NoSid}
    <3> QED BY <2>2, <3>1, <3>2 DEF ClearSession
  <2> QED BY <2>1, <2>2
<1>2. /\ UNCHANGED <<status, rows, owner, expired, held, parent>>
      /\ Return(p)
  BY DEF LogoutDeactivate, ClearSession
<1>3. /\ req' \in [Reqs -> Requests] /\ req'[p].pc = "idle"
      /\ \A q \in Reqs : q # p => req'[q] = req[q]
  BY <1>0, <1>2, ReturnType DEF TypeOK
<1> HIDE DEF u, t
<1>4. /\ marker' \in [Users -> Sids \cup {NoSid}]
      /\ \A w \in Users : marker'[w] = marker[w] \/ marker'[w] = NoSid
  BY <1>0, <1>1 DEF TypeOK, DeactivatedIfCurrent
<1>5. /\ cleanups' \subseteq Users \X Sids
      /\ \A w \in Users, s \in Sids :
           <<w, s>> \in cleanups' => <<w, s>> \in cleanups \/ (w = u /\ s = d /\ d # NoSid)
  BY <1>0, <1>1 DEF TypeOK, CleanupStarted
<1>6. TypeOK'
  <2>1. acked' \subseteq Sids /\ ended' \subseteq Sids
    BY <1>0 DEF LogoutDeactivate, ClearSession, TypeOK, RequestArgs
  <2> QED BY <1>0, <1>1, <1>2, <1>3, <1>4, <1>5, <2>1 DEF TypeOK
<1>7. RequestsOK'
  <2> SUFFICES ASSUME NEW q \in Reqs PROVE RequestArgs(q)' /\ RequestProgress(q)'
    BY DEF RequestsOK
  <2>1. CASE q = p
    BY <1>3, <2>1 DEF RequestArgs, RequestProgress
  <2>2. CASE q # p
    <3>1. RequestArgs(q) /\ RequestProgress(q) /\ req'[q] = req[q]
      BY <1>3, <2>2 DEF IInv, RequestsOK
    <3>2. RequestArgs(q)'
      BY <1>2, <3>1 DEF RequestArgs
    <3>3. RequestProgress(q)'
      BY <1>2, <1>4, <3>1 DEF RequestProgress, RequestArgs
    <3> QED BY <3>2, <3>3
  <2> QED BY <2>1, <2>2
<1>8. DistinctIssues'
  BY <1>3 DEF IInv, DistinctIssues
<1>9. Owned' /\ RowsOwned' /\ ClosedHeld'
  <2>1. Owned'
    BY <1>0, <1>1, <1>2, <1>4, <1>5 DEF Owned
  <2>2. RowsOwned' /\ ClosedHeld'
    BY <1>1, <1>2 DEF IInv, RowsOwned, ClosedHeld
  <2> QED BY <2>1, <2>2
<1>10. CleanupOnlyDeadSessions'
  BY <1>1, <1>4, <1>5 DEF IInv, CleanupOnlyDeadSessions
<1>11. CompletedLogoutIsFinal'
  <2> SUFFICES ASSUME NEW s \in closed' PROVE rows'[s] # "live" /\ marker'[owner'[s]] # s
    BY DEF CompletedLogoutIsFinal
  <2>1. CASE s \in closed
    <3>1. owner[s] \in Users /\ s \in Sids /\ rows[s] # "live" /\ marker[owner[s]] # s
      BY <1>0, <2>1 DEF IInv, CompletedLogoutIsFinal, ClosedHeld, Owned, TypeOK
    <3> QED BY <1>2, <1>4, <3>1
  <2>2. CASE s \notin closed
    BY <1>1, <1>2, <2>2
  <2> QED BY <2>1, <2>2
<1> QED BY <1>6, <1>7, <1>8, <1>9, <1>10, <1>11 DEF IInv

-----------------------------------------------------------------------------
(* The initial state has no session at all.                                 *)
LEMMA InvInit == Init => IInv
<1> SUFFICES ASSUME Init PROVE IInv
  OBVIOUS
<1>1. Idle \in Requests /\ Idle.pc = "idle" /\ Idle.op = "none"
  BY DEF Idle, Requests, Pcs
<1>2. TypeOK
  BY <1>1 DEF Init, TypeOK
<1>3. RequestsOK /\ DistinctIssues
  BY <1>1 DEF Init, RequestsOK, RequestArgs, RequestProgress, DistinctIssues
<1>4. Owned /\ RowsOwned /\ ClosedHeld /\ CleanupOnlyDeadSessions /\ CompletedLogoutIsFinal
  BY DEF Init, Owned, RowsOwned, ClosedHeld, CleanupOnlyDeadSessions, CompletedLogoutIsFinal
<1> QED BY <1>2, <1>3, <1>4 DEF IInv

(* Every step of the service, its clients and its environment keeps the     *)
(* inductive invariant.                                                     *)
LEMMA InvStep == IInv /\ [Next]_vars => IInv'
<1> SUFFICES ASSUME IInv, [Next]_vars PROVE IInv'
  OBVIOUS
<1>0. TypeOK /\ Owned
  BY DEF IInv
<1>1. CASE UNCHANGED vars
  BY <1>1, QuietStep, <1>0 DEF vars, Quiet, TypeOK
<1>2. ASSUME NEW p \in Reqs, ArriveAny(p) PROVE IInv'
  <2> USE DEF AllOps
  <2>1. ASSUME NEW u \in Users, ArriveLogin(p, u) \/ ArriveReset(p, u) PROVE IInv'
    BY <2>1, QuietArrive DEF ArriveLogin, ArriveReset
  <2>2. ASSUME NEW s \in Sids, ArriveRefresh(p, s) \/ ArriveLogout(p, s) PROVE IInv'
    BY <1>0, <2>2, QuietArrive DEF ArriveRefresh, ArriveLogout, Owned
  <2>3. ASSUME NEW s \in Sids, ArriveChange(p, s) \/ ArriveDelete(p, s) PROVE IInv'
    BY <1>0, <2>3, QuietArrive DEF ArriveChange, ArriveDelete, Authenticated, Owned
  <2> QED BY <1>2, <2>1, <2>2, <2>3 DEF ArriveAny
<1>3. ASSUME NEW p \in Reqs, Step(p) PROVE IInv'
  BY <1>3, RefreshStep, RevocationStep, ActivateStep, CreateStep, FinalizeStep, EndStep
  DEF Step
<1>4. ASSUME NEW p \in Reqs, Fail(p) PROVE IInv'
  <2>1. TypeOK' /\ Quiet
    BY <1>0, <1>4, ReturnType DEF Fail, TypeOK, Quiet, store, history
  <2> QED BY <1>4, <2>1, QuietReturn DEF Fail
<1>5. CASE Environment
  <2>1. ASSUME NEW c \in cleanups, CleanupEnds(c) PROVE IInv'
    BY <1>0, <2>1, QuietStep DEF CleanupEnds, TypeOK, Quiet, store, history
  <2>2. ASSUME NEW s \in Sids, Expire(s) PROVE IInv'
    BY <1>0, <2>2, QuietStep DEF Expire, TypeOK, Quiet, store, history
  <2>3. ASSUME NEW u \in Users, MarkerExpires(u) PROVE IInv'
    BY <1>0, <2>3, QuietStep DEF MarkerExpires, TypeOK, Quiet, history
  <2>4. ASSUME NEW u \in Users, DeleteUserRow(u) PROVE IInv'
    BY <1>0, <2>4, QuietStep DEF DeleteUserRow, TypeOK, Quiet, history
  <2> QED BY <1>5, <2>1, <2>2, <2>3, <2>4 DEF Environment
<1> QED BY <1>1, <1>2, <1>3, <1>4, <1>5 DEF Next

(* The inductive invariant holds in every reachable state.                  *)
THEOREM Invariance == Spec => []IInv
BY InvInit, InvStep, PTL DEF Spec

(* Rows, markers and requests stay within their types.                      *)
THEOREM TypeCorrect == Spec => []TypeOK
<1>1. IInv => TypeOK
  BY DEF IInv
<1> QED BY <1>1, Invariance, PTL

(* However requests interleave, fail or time out, and however late a        *)
(* cleanup goroutine runs, it never targets the session that is active.     *)
THEOREM CleanupSafe == Spec => []CleanupOnlyDeadSessions
<1>1. IInv => CleanupOnlyDeadSessions
  BY DEF IInv
<1> QED BY <1>1, Invariance, PTL

(* A Logout that ran to its end is final for both tokens of its session.    *)
THEOREM LogoutFinal == Spec => []CompletedLogoutIsFinal
<1>1. IInv => CompletedLogoutIsFinal
  BY DEF IInv
<1> QED BY <1>1, Invariance, PTL

(* A session loses its marker only to its own Logout, a password or         *)
(* deletion event of its user, or its TTL.                                  *)
THEOREM EndsForCause == Spec => SessionEndsForCause
<1> DEFINE Cause(u) ==
      marker[u] # NoSid /\ marker'[u] = NoSid =>
         \/ marker[u] \in expired
         \/ \E p \in Reqs :
              /\ req[p].user = u /\ req'[p] = Idle
              /\ \/ req[p].op = "logout" /\ req[p].tok = marker[u]
                 \/ req[p].op \in {"change", "reset", "delete"}
<1>1. ASSUME IInv, [Next]_vars, NEW u \in Users PROVE Cause(u)
  <2> SUFFICES ASSUME marker'[u] # marker[u], marker'[u] = NoSid PROVE Cause(u)
    OBVIOUS
  <2>0. TypeOK
    BY <1>1 DEF IInv
  <2>1. ASSUME NEW p \in Reqs, Step(p) PROVE Cause(u)
    <3>1. CASE IssueActivate(p)
      BY <2>0, <3>1, SessionsAssumption DEF IssueActivate, TypeOK
    <3>2. CASE LogoutDeactivate(p)
      <4>1. req[p].op = "logout" /\ req[p].user = u /\ req[p].tok = marker[u]
        BY <1>1, <2>0, <3>2 DEF LogoutDeactivate, DeactivatedIfCurrent, At, TypeOK,
           IInv, RequestsOK, RequestArgs
      <4>2. req'[p] = Idle
        BY <2>0, <3>2, ReturnType DEF LogoutDeactivate, TypeOK
      <4> QED BY <4>1, <4>2
    <3>3. CASE ClearSession(p)
      <4>1. req[p].op \in {"change", "reset", "delete"} /\ req[p].user = u
        BY <1>1, <2>0, <3>3 DEF ClearSession, At, TypeOK, IInv, RequestsOK, RequestArgs
      <4>2. req'[p] = Idle
        BY <2>0, <3>3, ReturnType DEF ClearSession, TypeOK
      <4> QED BY <4>1, <4>2
    <3> QED BY <2>1, <3>1, <3>2, <3>3 DEF Step, store, RefreshLookup, RefreshReuse,
           RefreshUser, RefreshRotate, LoginUser, LoginFinalize, IssueRevokeAll,
           IssueCreate, LogoutLookup, LogoutRevoke, UpdatePassword, DeleteUser,
           RequestDeletion, PurgeTokens
  <2>2. ASSUME NEW p \in Reqs, ArriveAny(p) \/ Fail(p) PROVE Cause(u)
    BY <2>2 DEF ArriveAny, ArriveLogin, ArriveReset, ArriveRefresh, ArriveLogout,
       ArriveChange, ArriveDelete, Arrive, Fail, store
  <2>3. CASE Environment
    BY <2>0, <2>3 DEF Environment, CleanupEnds, Expire, MarkerExpires, DeleteUserRow,
       TypeOK, store
  <2>4. CASE UNCHANGED vars
    BY <2>4 DEF vars
  <2> QED BY <1>1, <2>1, <2>2, <2>3, <2>4 DEF Next
<1>2. IInv /\ [Next]_vars => [\A u \in Users : Cause(u)]_vars
  BY <1>1
<1> QED BY <1>2, Invariance, PTL DEF Spec, SessionEndsForCause
=============================================================================
