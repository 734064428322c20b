------------------------ MODULE SessionsSerialProofs ------------------------
(***************************************************************************)
(* Proofs of what Sessions promises as long as the requests of one account *)
(* do not overlap.  Requests of different accounts may interleave in every *)
(* way, any request may be cut short between any two of its steps, tokens  *)
(* and markers may expire and the deletion worker may remove a user row at *)
(* any time.  (That overlapping requests of one account break these        *)
(* promises is what the run SessionsDoubleRefresh shows.)                  *)
(***************************************************************************)
EXTENDS SessionsProofs, FiniteSetTheorems

(* No account has two requests in progress.                                 *)
NoOverlap ==
  \A p, q \in Reqs :
    ~At(p, "idle") /\ ~At(q, "idle") /\ req[p].user = req[q].user => p = q

(***************************************************************************)
(* The inductive invariant.  A handler checks the token, the account and   *)
(* the user's other tokens once and acts on the answer several steps       *)
(* later; Stage says what is still true of those answers at each step.     *)
(***************************************************************************)
NoLive(u) == \A s \in Sids : owner[s] = u => rows[s] # "live"

(* The token a Refresh will exchange was given by a client of this account, *)
(* was never exchanged and its session was not ended.                       *)
Exchanging(p) ==
  /\ req[p].tok \in held /\ owner[req[p].tok] = req[p].user
  /\ req[p].tok \notin ended
  /\ \A s \in Sids : parent[s] # req[p].tok

Stage(p) ==
  /\ req[p].op = "login" => req[p].tok = NoSid
  /\ req[p].pc = "rotate" => req[p].op = "refresh"
  /\ req[p].pc \in {"revokeAll", "activate"} => req[p].op \in {"login", "refresh"}
  /\ req[p].op = "refresh" /\ req[p].pc \in {"user", "rotate", "revokeAll", "activate"}
     => Exchanging(p)
  /\ req[p].pc \in {"rotate", "revokeAll", "activate", "create"}
     => status[req[p].user] = "active"
  /\ req[p].pc \in {"activate", "create", "clear"} => NoLive(req[p].user)
  /\ req[p].pc = "create" =>
       /\ req[p].sid \notin ended
       /\ marker[req[p].user] = req[p].sid \/ req[p].sid \in expired

OneLive ==
  \A s, t \in Sids :
    rows[s] = "live" /\ rows[t] = "live" /\ owner[s] = owner[t] => s = t

ActiveOrExpired ==
  \A s \in Sids : rows[s] = "live" => s \in expired \/ marker[owner[s]] = s

(* A token that was exchanged is spent, and was exchanged for one session.  *)
Exchanged ==
  /\ \A s \in Sids : parent[s] # NoSid => parent[s] \in held /\ rows[parent[s]] # "live"
  /\ \A s, t \in Sids : parent[s] = parent[t] /\ parent[s] # NoSid => s = t

EndedOwned == \A s \in ended : owner[s] \in Users

PendingNoLive == \A u \in Users : status[u] # "active" => NoLive(u)

Tokens ==
  /\ OneLive /\ ActiveOrExpired /\ Exchanged
  /\ EndedOwned /\ EndedSessionsStayDead /\ PendingNoLive

SerialInv == Tokens /\ \A p \in Reqs : Stage(p)

-----------------------------------------------------------------------------
(***************************************************************************)
(* A step of user u's request changes nothing of another user.             *)
(***************************************************************************)
LocalTo(u) ==
  /\ \A s \in Sids : owner'[s] = owner[s] \/ (owner[s] = NoUser /\ owner'[s] = u)
  /\ \A s \in Sids : rows'[s] = rows[s] \/ owner[s] = u
  /\ \A w \in Users : w # u => marker'[w] = marker[w] /\ status'[w] = status[w]
  /\ held \subseteq held' /\ expired \subseteq expired'
  /\ \A s \in Sids : \/ parent'[s] = parent[s] \/ parent'[s] = NoSid
                     \/ parent'[s] \in Sids /\ owner[parent'[s]] = u
  /\ \A s \in ended' : s \in ended \/ owner[s] = u \/ owner[s] = NoUser

(* What another user's request relies on survives such a step.              *)
LEMMA OthersKept ==
  ASSUME IInv, NEW u \in Users, LocalTo(u), NEW q \in Reqs, Stage(q),
         req'[q] = req[q], At(q, "idle") \/ req[q].user # u
  PROVE  Stage(q)'
<1> USE SessionsAssumption
<1>0. TypeOK /\ RequestArgs(q) /\ req[q] \in Requests
  BY DEF IInv, RequestsOK, TypeOK
<1>1. CASE At(q, "idle")
  BY <1>1 DEF Stage, At
<1>2. CASE ~At(q, "idle")
  <2>1. PICK w \in Users : w = req[q].user /\ w # u
    BY <1>0, <1>2 DEF RequestArgs, At
  <2>2. NoLive(w) => NoLive(w)'
    BY <1>0, <2>1 DEF NoLive, LocalTo, TypeOK
  <2>3. Exchanging(q) => Exchanging(q)'
    <3> DEFINE t == req[q].tok
    <3> SUFFICES ASSUME t \in held, owner[t] = w, t \notin ended,
                        \A s \in Sids : parent[s] # t
                 PROVE  /\ t \in held' /\ owner'[t] = w /\ t \notin ended'
                        /\ \A s \in Sids : parent'[s] # t
      BY <2>1 DEF Exchanging
    <3> HIDE DEF t
    <3>1. t \in Sids /\ w # NoUser
      BY <1>0, <2>1 DEF TypeOK
    <3> QED BY <2>1, <3>1 DEF LocalTo
  <2>4. marker'[w] = marker[w] /\ status'[w] = status[w]
    BY <2>1 DEF LocalTo
  <2>5. req[q].pc = "create" /\ req[q].sid \notin ended => req[q].sid \notin ended'
    BY <1>0, <2>1 DEF LocalTo, RequestArgs
  <2> QED BY <2>1, <2>2, <2>3, <2>4, <2>5 DEF Stage, LocalTo
<1> QED BY <1>1, <1>2

(* Only one request of u is in progress, so a step of p changes nothing     *)
(* that another request relies on.                                          *)
LEMMA StepKept ==
  ASSUME IInv, SerialInv, NoOverlap, NEW p \in Reqs, ~At(p, "idle"),
         LocalTo(req[p].user), \A q \in Reqs : q # p => req'[q] = req[q],
         Stage(p)', Tokens'
  PROVE  SerialInv'
<1>1. req[p].user \in Users
  BY DEF IInv, RequestsOK, RequestArgs, At
<1>2. \A q \in Reqs : q # p => Stage(q)'
  BY <1>1, OthersKept DEF SerialInv, NoOverlap
<1> QED BY <1>2 DEF SerialInv

(* A request that ends relies on nothing.                                   *)
LEMMA IdleStage == ASSUME NEW p \in Reqs, req'[p] = Idle PROVE Stage(p)'
BY DEF Stage, Idle

(***************************************************************************)
(* Steps that only take rows away keep the promises about tokens.          *)
(***************************************************************************)
OnlyRevokes ==
  /\ UNCHANGED <<status, owner, expired, marker, held, parent, ended>>
  /\ \A s \in Sids : rows'[s] = "live" => rows[s] = "live"

(* No promise about tokens is lost with a live row.                         *)
LEMMA RevokesKeepTokens ==
  ASSUME IInv, Tokens, OnlyRevokes PROVE Tokens'
<1> USE DEF OnlyRevokes, Tokens
<1>1. OneLive' /\ ActiveOrExpired'
  BY DEF OneLive, ActiveOrExpired
<1>2. Exchanged'
  BY DEF Exchanged, IInv, TypeOK
<1>3. EndedOwned' /\ PendingNoLive'
  BY DEF EndedOwned, PendingNoLive, NoLive
<1>4. EndedSessionsStayDead'
  BY DEF EndedSessionsStayDead, IInv, TypeOK
<1> QED BY <1>1, <1>2, <1>3, <1>4

(* The steps that neither issue nor end a session: they move the request    *)
(* on, or end it, and at most revoke tokens of its own user.                *)
LEMMA RevokeStep ==
  ASSUME IInv, SerialInv, NoOverlap, NEW p \in Reqs, ~At(p, "idle"),
         OnlyRevokes, \A s \in Sids : rows'[s] = rows[s] \/ owner[s] = req[p].user,
         \/ Return(p)
         \/ \E l \in Pcs : Goto(p, l) /\ Stage(p)'
  PROVE  SerialInv'
<1>1. TypeOK
  BY DEF IInv
<1>2. /\ \A q \in Reqs : q # p => req'[q] = req[q]
      /\ Stage(p)'
  BY <1>1, GotoType, ReturnType, IdleStage DEF TypeOK
<1>3. LocalTo(req[p].user)
  BY DEF LocalTo, OnlyRevokes
<1>4. Tokens'
  BY RevokesKeepTokens DEF SerialInv
<1> QED BY <1>2, <1>3, <1>4, StepKept

(* After RevokeAllForUser the user has no live token.                       *)
LEMMA RevokedAllEnds ==
  ASSUME TypeOK, NEW u, rows' = RevokedAll(u)
  PROVE  /\ \A s \in Sids : rows'[s] = "live" => rows[s] = "live"
         /\ \A s \in Sids : rows'[s] = rows[s] \/ owner[s] = u
         /\ \A s \in Sids : owner[s] = u => rows'[s] # "live"
BY DEF TypeOK, RevokedAll

(* Revoke touches one token.                                                *)
LEMMA RevokedOneEnds ==
  ASSUME TypeOK, NEW t \in Sids, rows' = RevokedOne(t)
  PROVE  /\ \A s \in Sids : rows'[s] = "live" => rows[s] = "live"
         /\ \A s \in Sids : rows'[s] = rows[s] \/ s = t
BY DEF TypeOK, RevokedOne

-----------------------------------------------------------------------------
(* Refresh up to issueSession: a live token was neither exchanged nor       *)
(* ended before.                                                            *)
LEMMA SerialRefresh ==
  ASSUME IInv, SerialInv, NoOverlap, NEW p \in Reqs,
         RefreshLookup(p) \/ RefreshReuse(p) \/ RefreshUser(p) \/ RefreshRotate(p)
  PROVE  SerialInv'
<1> USE SessionsAssumption
<1>0. TypeOK /\ RequestArgs(p) /\ Stage(p) /\ Tokens /\ ~At(p, "idle")
  BY DEF IInv, RequestsOK, SerialInv, RefreshLookup, RefreshReuse, RefreshUser, RefreshRotate, At
<1>2. ASSUME NEW l \in Pcs, Goto(p, l)
      PROVE  /\ req'[p].pc = l /\ req'[p].op = req[p].op /\ req'[p].user = req[p].user
             /\ req'[p].tok = req[p].tok
  BY <1>0, <1>2, GotoType DEF TypeOK
<1>3. CASE RefreshLookup(p)
  <2>1. OnlyRevokes /\ UNCHANGED rows /\ req[p].op = "refresh"
    BY <1>3 DEF RefreshLookup, OnlyRevokes, store, history
  <2>2. CASE Return(p)
    BY <1>0, <2>1, <2>2, RevokeStep
  <2>3. CASE Goto(p, "reuse")
    <3>1. Stage(p)'
      BY <1>2, <2>1, <2>3 DEF Stage, Pcs
    <3> QED BY <1>0, <2>1, <2>3, <3>1, RevokeStep DEF Pcs
  <2>4. CASE Goto(p, "user") /\ rows[req[p].tok] = "live"
    <3>1. req[p].tok \in held /\ owner[req[p].tok] = req[p].user /\ req[p].tok \in Sids
      BY <1>0, <1>3 DEF RefreshLookup, RequestArgs, At, TypeOK
    <3>2. req[p].tok \notin ended /\ \A s \in Sids : parent[s] # req[p].tok
      BY <1>0, <2>4, <3>1 DEF Tokens, EndedSessionsStayDead, Exchanged
    <3>3. Stage(p)'
      BY <1>2, <2>1, <2>4, <3>1, <3>2 DEF Stage, Exchanging, OnlyRevokes, Pcs
    <3> QED BY <1>0, <2>1, <2>4, <3>3, RevokeStep DEF Pcs
  <2> QED BY <1>3, <2>2, <2>3, <2>4 DEF RefreshLookup
<1>4. CASE RefreshReuse(p)
  <2>1. OnlyRevokes /\ \A s \in Sids : rows'[s] = rows[s] \/ owner[s] = req[p].user
    BY <1>0, <1>4, RevokedAllEnds DEF RefreshReuse, OnlyRevokes, history
  <2> QED BY <1>0, <1>4, <2>1, RevokeStep DEF RefreshReuse
<1>5. CASE RefreshUser(p)
  <2>1. OnlyRevokes /\ UNCHANGED rows /\ req[p].op = "refresh" /\ req[p].pc = "user"
    BY <1>5 DEF RefreshUser, OnlyRevokes, store, history, At
  <2>2. CASE Return(p)
    BY <1>0, <2>1, <2>2, RevokeStep
  <2>3. CASE Goto(p, "reuse")
    <3>1. Stage(p)'
      BY <1>2, <2>1, <2>3 DEF Stage, Pcs
    <3> QED BY <1>0, <2>1, <2>3, <3>1, RevokeStep DEF Pcs
  <2>4. CASE Goto(p, "rotate") /\ status[req[p].user] = "active"
    <3>1. Stage(p)'
      BY <1>0, <1>2, <2>1, <2>4 DEF Stage, Exchanging, OnlyRevokes, Pcs
    <3> QED BY <1>0, <2>1, <2>4, <3>1, RevokeStep DEF Pcs
  <2> QED BY <1>5, <2>2, <2>3, <2>4 DEF RefreshUser
<1>6. CASE RefreshRotate(p)
  <2>1. req[p].op = "refresh" /\ Exchanging(p) /\ req[p].tok \in Sids
        /\ status[req[p].user] = "active"
    BY <1>0, <1>6 DEF RefreshRotate, Stage, Exchanging, At, TypeOK
  <2>2. OnlyRevokes /\ \A s \in Sids : rows'[s] = rows[s] \/ owner[s] = req[p].user
    BY <1>0, <1>6, <2>1, RevokedOneEnds DEF RefreshRotate, OnlyRevokes, history, Exchanging
  <2>3. Goto(p, "revokeAll")
    BY <1>6 DEF RefreshRotate
  <2>4. Stage(p)'
    BY <1>2, <2>1, <2>2, <2>3 DEF Stage, Exchanging, OnlyRevokes, Pcs
  <2> QED BY <1>0, <2>2, <2>3, <2>4, RevokeStep DEF Pcs
<1> QED BY <1>3, <1>4, <1>5, <1>6

(* The other handlers up to the step that issues or ends a session.         *)
LEMMA SerialRevocation ==
  ASSUME IInv, SerialInv, NoOverlap, NEW p \in Reqs,
         \/ LoginUser(p) \/ IssueRevokeAll(p) \/ LogoutLookup(p) \/ LogoutRevoke(p)
         \/ UpdatePassword(p) \/ DeleteUser(p) \/ PurgeTokens(p) \/ Fail(p)
  PROVE  SerialInv'
<1> USE SessionsAssumption
<1>0. TypeOK /\ RequestArgs(p) /\ Stage(p) /\ ~At(p, "idle")
  BY DEF IInv, RequestsOK, SerialInv, LoginUser, IssueRevokeAll, LogoutLookup, LogoutRevoke,
         UpdatePassword, DeleteUser, PurgeTokens, Fail, At
<1>1. ASSUME NEW l \in Pcs, Goto(p, l)
      PROVE  /\ req'[p].pc = l /\ req'[p].op = req[p].op /\ req'[p].user = req[p].user
             /\ req'[p].tok = req[p].tok
  BY <1>0, <1>1, GotoType DEF TypeOK
<1>2. ASSUME OnlyRevokes, \A s \in Sids : rows'[s] = rows[s] \/ owner[s] = req[p].user,
             NEW l \in {"revoke", "deactivate", "purge", "request"}, Goto(p, l)
      PROVE  SerialInv'
  <2>1. Stage(p)'
    BY <1>0, <1>1, <1>2 DEF Stage, Pcs
  <2> QED BY <1>0, <1>2, <2>1, RevokeStep DEF Pcs
<1>3. CASE LoginUser(p)
  <2>1. OnlyRevokes /\ UNCHANGED rows /\ req[p].op = "login"
    BY <1>3 DEF LoginUser, OnlyRevokes, store, history
  <2>2. CASE Return(p)
    BY <1>0, <2>1, <2>2, RevokeStep
  <2>3. CASE Goto(p, "revokeAll") /\ status[req[p].user] = "active"
    <3>1. Stage(p)'
      BY <1>0, <1>1, <2>1, <2>3 DEF Stage, OnlyRevokes, Pcs
    <3> QED BY <1>0, <2>1, <2>3, <3>1, RevokeStep DEF Pcs
  <2> QED BY <1>3, <2>2, <2>3 DEF LoginUser
<1>4. CASE IssueRevokeAll(p) \/ PurgeTokens(p)
  <2>1. /\ OnlyRevokes
        /\ \A s \in Sids : rows'[s] = rows[s] \/ owner[s] = req[p].user
        /\ \A s \in Sids : owner[s] = req[p].user => rows'[s] # "live"
    BY <1>0, <1>4, RevokedAllEnds DEF IssueRevokeAll, PurgeTokens, OnlyRevokes, history
  <2>2. CASE IssueRevokeAll(p)
    <3>1. Goto(p, "activate") /\ req[p].pc = "revokeAll"
      BY <2>2 DEF IssueRevokeAll, At
    <3>2. Stage(p)'
      BY <1>0, <1>1, <2>1, <3>1 DEF Stage, Exchanging, NoLive, OnlyRevokes, Pcs
    <3> QED BY <1>0, <2>1, <3>1, <3>2, RevokeStep DEF Pcs
  <2>3. CASE PurgeTokens(p)
    <3>1. Goto(p, "clear")
      BY <2>3 DEF PurgeTokens
    <3>2. Stage(p)'
      BY <1>0, <1>1, <2>1, <3>1 DEF Stage, NoLive, OnlyRevokes, Pcs
    <3> QED BY <1>0, <2>1, <3>1, <3>2, RevokeStep DEF Pcs
  <2> QED BY <1>4, <2>2, <2>3
<1>5. CASE LogoutLookup(p) \/ UpdatePassword(p) \/ DeleteUser(p) \/ Fail(p)
  <2>1. OnlyRevokes /\ UNCHANGED rows
    BY <1>5 DEF LogoutLookup, UpdatePassword, DeleteUser, Fail, OnlyRevokes, store, history
  <2>2. Return(p) \/ Goto(p, "revoke") \/ Goto(p, "purge") \/ Goto(p, "request")
    BY <1>5 DEF LogoutLookup, UpdatePassword, DeleteUser, Fail
  <2> QED BY <1>0, <1>2, <2>1, <2>2, RevokeStep
<1>6. CASE LogoutRevoke(p)
  <2>1. req[p].tok \in Sids /\ owner[req[p].tok] = req[p].user
    BY <1>0, <1>6 DEF LogoutRevoke, RequestArgs, At, TypeOK
  <2>2. OnlyRevokes /\ \A s \in Sids : rows'[s] = rows[s] \/ owner[s] = req[p].user
    BY <1>0, <1>6, <2>1, RevokedOneEnds DEF LogoutRevoke, OnlyRevokes, history
  <2>3. Goto(p, "deactivate")
    BY <1>6 DEF LogoutRevoke
  <2> QED BY <1>2, <2>2, <2>3
<1> QED BY <1>3, <1>4, <1>5, <1>6

(* RequestDeletion revokes in the transaction that marks the account.       *)
LEMMA SerialRequestDeletion ==
  ASSUME IInv, SerialInv, NoOverlap, NEW p \in Reqs, RequestDeletion(p)
  PROVE  SerialInv'
<1> USE SessionsAssumption
<1>0. /\ TypeOK /\ RequestArgs(p) /\ Stage(p) /\ Tokens /\ ~At(p, "idle")
      /\ req[p].user \in Users
  BY DEF IInv, RequestsOK, RequestArgs, SerialInv, RequestDeletion, At
<1>1. CASE Return(p) /\ UNCHANGED <<status, rows>>
  BY <1>0, <1>1, RevokeStep DEF RequestDeletion, OnlyRevokes, history
<1>2. CASE Goto(p, "purge")
  <2>1. /\ req'[p].pc = "purge" /\ req'[p].op = req[p].op /\ req'[p].tok = req[p].tok
        /\ \A q \in Reqs : q # p => req'[q] = req[q]
    BY <1>0, <1>2, GotoType DEF TypeOK, Pcs
  <2>2. Stage(p)'
    BY <1>0, <2>1 DEF Stage
  <2>3. CASE UNCHANGED <<status, rows>>
    BY <1>0, <1>2, <2>2, <2>3, RevokeStep DEF RequestDeletion, OnlyRevokes, history, Pcs
  <2>4. CASE /\ status' = [status EXCEPT ![req[p].user] = "deletion_pending"]
             /\ rows' = RevokedAll(req[p].user)
    <3>1. /\ \A s \in Sids : rows'[s] = "live" => rows[s] = "live"
          /\ \A s \in Sids : rows'[s] = rows[s] \/ owner[s] = req[p].user
          /\ \A s \in Sids : owner[s] = req[p].user => rows'[s] # "live"
          /\ \A w \in Users : w # req[p].user => status'[w] = status[w]
          /\ UNCHANGED <<owner, expired, marker, held, parent, ended>>
      BY <1>0, <2>4, RevokedAllEnds DEF RequestDeletion, history, TypeOK
    <3>2. LocalTo(req[p].user)
      BY <3>1 DEF LocalTo
    <3>3. Tokens'
      <4> USE DEF Tokens
      <4>1. OneLive' /\ ActiveOrExpired'
        BY <1>0, <3>1 DEF OneLive, ActiveOrExpired
      <4>2. Exchanged'
        BY <1>0, <3>1 DEF Exchanged, TypeOK
      <4>3. EndedOwned' /\ PendingNoLive'
        BY <1>0, <3>1 DEF EndedOwned, PendingNoLive, NoLive
      <4>4. EndedSessionsStayDead'
        BY <1>0, <3>1 DEF EndedSessionsStayDead, TypeOK
      <4> QED BY <4>1, <4>2, <4>3, <4>4
    <3> QED BY <1>0, <2>1, <2>2, <3>2, <3>3, StepKept
  <2> QED BY <1>2, <2>3, <2>4 DEF RequestDeletion, Goto, Return
<1> QED BY <1>1, <1>2 DEF RequestDeletion

(* issueSession activates a fresh id while the user has no live token; the  *)
(* token it is exchanged for has no other successor and was not ended.      *)
LEMMA SerialActivate ==
  ASSUME IInv, SerialInv, NoOverlap, NEW p \in Reqs, IssueActivate(p)
  PROVE  SerialInv'
<1> USE SessionsAssumption
<1>0. /\ TypeOK /\ Owned /\ RowsOwned /\ Stage(p) /\ Tokens /\ ~At(p, "idle")
      /\ req[p].pc = "activate"
  BY DEF IInv, SerialInv, IssueActivate, At
<1>u. PICK u \in Users : u = req[p].user
  BY <1>0 DEF IInv, RequestsOK, RequestArgs
<1>t. PICK t \in Sids \cup {NoSid} : t = req[p].tok
  BY <1>0 DEF TypeOK, Requests
<1>1. PICK s \in Sids :
        /\ owner[s] = NoUser
        /\ owner' = [owner EXCEPT ![s] = u]
        /\ marker' = [marker EXCEPT ![u] = s]
        /\ parent' = [parent EXCEPT ![s] = t]
        /\ ended' = IF t \in ended THEN ended \cup {s} ELSE ended
        /\ req' = [req EXCEPT ![p] = [@ EXCEPT !.pc = "create", !.sid = s,
                                               !.prev = marker[u]]]
  BY <1>u, <1>t DEF IssueActivate
<1>2. UNCHANGED <<status, rows, expired, held>>
  BY DEF IssueActivate
<1>3. /\ t \notin ended /\ status[u] = "active" /\ NoLive(u)
      /\ t # NoSid => t \in held /\ owner[t] = u /\ \A x \in Sids : parent[x] # t
  BY <1>0, <1>u, <1>t DEF Stage, Exchanging, TypeOK
<1>4. ended' = ended
  BY <1>1, <1>3
<1>5. /\ s \notin held /\ s \notin ended /\ rows[s] = "absent"
  BY <1>0, <1>1 DEF Owned, RowsOwned, Tokens, EndedOwned
<1>6. /\ req'[p].pc = "create" /\ req'[p].op = req[p].op /\ req'[p].tok = req[p].tok
      /\ req'[p].sid = s /\ req'[p].user = u
      /\ \A q \in Reqs : q # p => req'[q] = req[q]
  <2> DEFINE r == [req[p] EXCEPT !.pc = "create", !.sid = s, !.prev = marker[u]]
  <2>1. /\ r.pc = "create" /\ r.op = req[p].op /\ r.tok = req[p].tok
        /\ r.sid = s /\ r.user = u
    <3>1. req[p] \in Requests
      BY <1>0 DEF TypeOK
    <3> QED BY <1>u, <3>1 DEF Requests
  <2>2. req' = [req EXCEPT ![p] = r]
    BY <1>1
  <2> HIDE DEF r
  <2> QED BY <1>0, <2>1, <2>2 DEF TypeOK
<1>7. LocalTo(u)
  BY <1>0, <1>1, <1>2, <1>3, <1>4 DEF LocalTo, TypeOK
<1>8. Stage(p)'
  <2>1. NoLive(u)'
    BY <1>0, <1>1, <1>2, <1>3, <1>5 DEF NoLive, TypeOK
  <2>2. marker'[u] = s
    BY <1>0, <1>1 DEF TypeOK
  <2>3. req[p].op = "login" => req[p].tok = NoSid
    BY <1>0 DEF Stage
  <2> QED BY <1>2, <1>3, <1>4, <1>5, <1>6, <2>1, <2>2, <2>3 DEF Stage
<1>9. Tokens'
  <2>1. OneLive'
    BY <1>0, <1>1, <1>2, <1>5 DEF Tokens, OneLive, TypeOK
  <2>2. ActiveOrExpired'
    BY <1>0, <1>1, <1>2, <1>3, <1>5 DEF Tokens, ActiveOrExpired, NoLive, TypeOK
  <2>3. Exchanged'
    <3>1. t # NoSid => rows[t] # "live"
      BY <1>0, <1>3 DEF NoLive, TypeOK
    <3>2. \A x \in Sids : parent'[x] = IF x = s THEN t ELSE parent[x]
      BY <1>0, <1>1 DEF TypeOK
    <3> QED BY <1>0, <1>2, <1>3, <3>1, <3>2 DEF Tokens, Exchanged
  <2>4. EndedOwned'
    BY <1>0, <1>1, <1>4, <1>5 DEF Tokens, EndedOwned, TypeOK
  <2>5. EndedSessionsStayDead'
    BY <1>0, <1>1, <1>2, <1>4, <1>5 DEF Tokens, EndedOwned, EndedSessionsStayDead, TypeOK
  <2>6. PendingNoLive'
    BY <1>0, <1>1, <1>2, <1>5 DEF Tokens, PendingNoLive, NoLive, TypeOK
  <2> QED BY <2>1, <2>2, <2>3, <2>4, <2>5, <2>6 DEF Tokens
<1> QED BY <1>0, <1>u, <1>6, <1>7, <1>8, <1>9, StepKept

(* issueSession stores the only live row of its user.                       *)
LEMMA SerialCreate ==
  ASSUME IInv, SerialInv, NoOverlap, NEW p \in Reqs, IssueCreate(p)
  PROVE  SerialInv'
<1> USE SessionsAssumption
<1>0. PICK u \in Users, s \in Sids :
        /\ TypeOK /\ Stage(p) /\ Tokens /\ ~At(p, "idle") /\ req[p].pc = "create"
        /\ u = req[p].user /\ s = req[p].sid
        /\ owner[s] = u /\ s \notin held /\ s \notin ended /\ status[u] = "active"
        /\ NoLive(u) /\ (marker[u] = s \/ s \in expired)
  BY DEF IInv, RequestsOK, RequestArgs, RequestProgress, SerialInv, IssueCreate, Stage, At
<1>1. /\ rows' = [rows EXCEPT ![s] = "live"]
      /\ UNCHANGED <<status, owner, expired, marker, parent, ended>>
      /\ held \subseteq held'
      /\ Return(p) \/ Goto(p, "finalize")
  BY <1>0 DEF IssueCreate, Created, history
<1>2. \A x \in Sids : rows'[x] = IF x = s THEN "live" ELSE rows[x]
  BY <1>0, <1>1 DEF TypeOK
<1>3. LocalTo(u)
  BY <1>0, <1>1, <1>2 DEF LocalTo
<1>4. (\A q \in Reqs : q # p => req'[q] = req[q]) /\ Stage(p)'
  <2>1. CASE Return(p)
    BY <1>0, <2>1, ReturnType, IdleStage DEF TypeOK
  <2>2. CASE Goto(p, "finalize")
    BY <1>0, <2>2, GotoType DEF TypeOK, Stage, Pcs
  <2> QED BY <1>1, <2>1, <2>2
<1>5. Tokens'
  <2>1. OneLive' /\ ActiveOrExpired'
    BY <1>0, <1>1, <1>2 DEF Tokens, OneLive, ActiveOrExpired, NoLive
  <2>2. Exchanged'
    BY <1>0, <1>1, <1>2 DEF Tokens, Exchanged, TypeOK
  <2>3. EndedOwned' /\ EndedSessionsStayDead'
    BY <1>0, <1>1, <1>2 DEF Tokens, EndedOwned, EndedSessionsStayDead, TypeOK
  <2>4. PendingNoLive'
    BY <1>0, <1>1, <1>2 DEF Tokens, PendingNoLive, NoLive
  <2> QED BY <2>1, <2>2, <2>3, <2>4 DEF Tokens
<1> QED BY <1>0, <1>3, <1>4, <1>5, StepKept

(* The session reaches its client.                                          *)
LEMMA SerialFinalize ==
  ASSUME IInv, SerialInv, NoOverlap, NEW p \in Reqs, LoginFinalize(p)
  PROVE  SerialInv'
<1>0. TypeOK /\ Tokens /\ ~At(p, "idle") /\ Return(p)
  BY DEF IInv, SerialInv, LoginFinalize, At
<1>1. held \subseteq held' /\ UNCHANGED <<status, rows, owner, expired, marker, parent, ended>>
  BY DEF LoginFinalize, store, history
<1>2. LocalTo(req[p].user)
  BY <1>1 DEF LocalTo
<1>3. Tokens'
  BY <1>0, <1>1 DEF Tokens, OneLive, ActiveOrExpired, Exchanged, EndedOwned,
                    EndedSessionsStayDead, PendingNoLive, NoLive
<1>4. (\A q \in Reqs : q # p => req'[q] = req[q]) /\ Stage(p)'
  BY <1>0, ReturnType, IdleStage DEF TypeOK
<1> QED BY <1>0, <1>2, <1>3, <1>4, StepKept

(* Logout and the password and deletion handlers remove the marker of a     *)
(* session whose token is no longer live.                                   *)
LEMMA SerialEnd ==
  ASSUME IInv, SerialInv, NoOverlap, NEW p \in Reqs, LogoutDeactivate(p) \/ ClearSession(p)
  PROVE  SerialInv'
<1> USE SessionsAssumption
<1>0. PICK u \in Users :
        /\ TypeOK /\ RequestArgs(p) /\ RequestProgress(p) /\ Stage(p) /\ Tokens
        /\ ~At(p, "idle") /\ u = req[p].user
  BY DEF IInv, RequestsOK, RequestArgs, SerialInv, LogoutDeactivate, ClearSession, At
<1>1. /\ UNCHANGED <<status, rows, owner, expired, held, parent>> /\ Return(p)
      /\ \A w \in Users : w # u => marker'[w] = marker[w]
      /\ marker'[u] \in {marker[u], NoSid}
      /\ marker'[u] = NoSid => \A x \in Sids : marker[u] = x => rows[x] # "live" \/ owner[x] # u
      /\ \/ ended' = ended
         \/ /\ ended' = ended \cup {x \in Sids : owner[x] = u}
            /\ marker'[u] = NoSid /\ NoLive(u)
  <2>1. CASE LogoutDeactivate(p)
    <3>1. /\ marker' = DeactivatedIfCurrent(u, req[p].tok) /\ rows[req[p].tok] # "live"
          /\ UNCHANGED <<status, rows, owner, expired, held, parent, ended>> /\ Return(p)
      BY <1>0, <2>1 DEF LogoutDeactivate, RequestProgress, At
    <3>2. /\ \A w \in Users : w # u => marker'[w] = marker[w]
          /\ marker'[u] = IF marker[u] = req[p].tok THEN NoSid ELSE marker[u]
      BY <1>0, <3>1 DEF DeactivatedIfCurrent, TypeOK
    <3> QED BY <3>1, <3>2
  <2>2. CASE ClearSession(p)
    <3>1. /\ marker' = [marker EXCEPT ![u] = NoSid]
          /\ ended' = ended \cup {x \in Sids : owner[x] = u}
          /\ UNCHANGED <<status, rows, owner, expired, held, parent>> /\ Return(p)
      BY <1>0, <2>2 DEF ClearSession
    <3>2. NoLive(u)
      BY <1>0, <2>2 DEF ClearSession, Stage, At
    <3> QED BY <1>0, <3>1, <3>2 DEF NoLive, TypeOK
  <2> QED BY <2>1, <2>2
<1>2. LocalTo(u)
  BY <1>1 DEF LocalTo
<1>3. (\A q \in Reqs : q # p => req'[q] = req[q]) /\ Stage(p)'
  BY <1>0, <1>1, ReturnType, IdleStage DEF TypeOK
<1>4. Tokens'
  <2>1. OneLive' /\ Exchanged' /\ PendingNoLive'
    BY <1>0, <1>1 DEF Tokens, OneLive, Exchanged, PendingNoLive, NoLive
  <2>2. ActiveOrExpired'
    <3> SUFFICES ASSUME NEW x \in Sids, rows[x] = "live", x \notin expired
                 PROVE  marker'[owner[x]] = x
      BY <1>1 DEF ActiveOrExpired
    <3>1. marker[owner[x]] = x /\ owner[x] \in Users
      BY <1>0 DEF Tokens, ActiveOrExpired, IInv, RowsOwned
    <3> QED BY <1>1, <3>1
  <2>3. EndedOwned'
    BY <1>0, <1>1 DEF Tokens, EndedOwned
  <2>4. EndedSessionsStayDead'
    <3> SUFFICES ASSUME NEW x \in ended' PROVE rows[x] # "live" /\ marker'[owner[x]] # x
      BY <1>1 DEF EndedSessionsStayDead
    <3>1. CASE x \in ended
      <4>1. x \in Sids /\ owner[x] \in Users /\ rows[x] # "live" /\ marker[owner[x]] # x
        BY <1>0, <3>1 DEF Tokens, EndedOwned, EndedSessionsStayDead, TypeOK
      <4> QED BY <1>1, <4>1
    <3>2. CASE x \notin ended
      BY <1>1, <3>2 DEF NoLive
    <3> QED BY <3>1, <3>2
  <2> QED BY <2>1, <2>2, <2>3, <2>4 DEF Tokens
<1> QED BY <1>0, <1>2, <1>3, <1>4, StepKept

(* The arrival of a request changes nothing; it starts with no answers.     *)
LEMMA SerialArrive ==
  ASSUME SerialInv, TypeOK, NEW p \in Reqs, NEW op, NEW u, NEW s,
         NEW l \in {"lookup", "user", "update"}, Arrive(p, op, u, s, l),
         op = "login" => s = NoSid, l = "user" => op # "refresh"
  PROVE  SerialInv'
<1> DEFINE r == [Idle EXCEPT !.op = op, !.pc = l, !.user = u, !.tok = s]
<1>2. r.op = op /\ r.pc = l /\ r.tok = s
  BY DEF Idle
<1>3. req' = [req EXCEPT ![p] = r] /\ UNCHANGED <<store, held, history>>
  BY DEF Arrive
<1> HIDE DEF r
<1>4. req'[p] = r /\ \A q \in Reqs : q # p => req'[q] = req[q]
  BY <1>3 DEF TypeOK
<1>5. Stage(p)'
  BY <1>2, <1>4 DEF Stage
<1>6. UNCHANGED <<status, rows, owner, expired, marker, held, parent, ended>>
  BY <1>3 DEF store, history
<1>7. \A q \in Reqs : q # p => Stage(q)'
  BY <1>4, <1>6 DEF SerialInv, Stage, Exchanging, NoLive
<1>8. Tokens'
  BY <1>6 DEF SerialInv, Tokens, OneLive, ActiveOrExpired, Exchanged, EndedOwned,
              EndedSessionsStayDead, PendingNoLive, NoLive
<1> QED BY <1>5, <1>7, <1>8 DEF SerialInv

(* Time passes, goroutines end, the deletion worker removes a user row.     *)
LEMMA SerialEnvironment ==
  ASSUME IInv, SerialInv, Environment
  PROVE  SerialInv'
<1> USE SessionsAssumption
<1>0. TypeOK /\ Tokens /\ RequestsOK
  BY DEF IInv, SerialInv
<1>1. UNCHANGED <<owner, req, held, parent, ended>> /\ expired \subseteq expired'
  BY DEF Environment, CleanupEnds, Expire, MarkerExpires, DeleteUserRow, store, history
<1>2. \A u \in Users : marker'[u] = marker[u] \/ (marker'[u] = NoSid /\ marker[u] \in expired)
  BY <1>0 DEF Environment, CleanupEnds, Expire, MarkerExpires, DeleteUserRow, store, TypeOK
<1>3. /\ \A s \in Sids : rows'[s] = "live" => rows[s] = "live"
      /\ \A u \in Users : status'[u] # "active" => status[u] # "active"
      /\ \A u \in Users : status[u] = "active" => status'[u] = "active"
  BY <1>0 DEF Environment, CleanupEnds, Expire, MarkerExpires, DeleteUserRow, store, TypeOK
<1>4. ASSUME NEW q \in Reqs PROVE Stage(q)'
  <2>1. Stage(q) /\ RequestArgs(q) /\ req'[q] = req[q]
    BY <1>0, <1>1 DEF SerialInv, RequestsOK
  <2>2. req[q].pc # "idle" => req[q].user \in Users
    BY <2>1 DEF RequestArgs
  <2>3. req[q].pc = "create" => marker'[req[q].user] = req[q].sid \/ req[q].sid \in expired'
    BY <1>1, <1>2, <2>1, <2>2 DEF Stage
  <2> QED BY <1>1, <1>3, <2>1, <2>2, <2>3 DEF Stage, Exchanging, NoLive
<1>5. Tokens'
  <2>1. OneLive' /\ PendingNoLive' /\ EndedOwned'
    BY <1>0, <1>1, <1>3 DEF Tokens, OneLive, PendingNoLive, NoLive, EndedOwned
  <2>2. ActiveOrExpired'
    BY <1>0, <1>1, <1>2, <1>3 DEF Tokens, ActiveOrExpired, IInv, RowsOwned
  <2>3. Exchanged'
    BY <1>0, <1>1, <1>3 DEF Tokens, Exchanged, TypeOK
  <2>4. EndedSessionsStayDead'
    BY <1>0, <1>1, <1>2, <1>3 DEF Tokens, EndedOwned, EndedSessionsStayDead, TypeOK
  <2> QED BY <2>1, <2>2, <2>3, <2>4 DEF Tokens
<1> QED BY <1>4, <1>5 DEF SerialInv

-----------------------------------------------------------------------------
(* Every step from a state in which no account has two requests in progress *)
(* keeps the invariant.                                                     *)
LEMMA SerialStep == IInv /\ SerialInv /\ NoOverlap /\ [Next]_vars => SerialInv'
<1> SUFFICES ASSUME IInv, SerialInv, NoOverlap, [Next]_vars PROVE SerialInv'
  OBVIOUS
<1>1. CASE UNCHANGED vars
  BY <1>1 DEF vars, SerialInv, Stage, Exchanging, NoLive, Tokens, OneLive, ActiveOrExpired,
              Exchanged, EndedOwned, EndedSessionsStayDead, PendingNoLive
<1>2. ASSUME NEW p \in Reqs, ArriveAny(p) PROVE SerialInv'
  <2>1. TypeOK
    BY DEF IInv
  <2>2. ASSUME NEW u \in Users, ArriveLogin(p, u) \/ ArriveReset(p, u) PROVE SerialInv'
    BY <2>1, <2>2, SerialArrive DEF ArriveLogin, ArriveReset
  <2>3. ASSUME NEW s \in Sids, ArriveRefresh(p, s) \/ ArriveLogout(p, s) PROVE SerialInv'
    BY <2>1, <2>3, SerialArrive DEF ArriveRefresh, ArriveLogout
  <2>4. ASSUME NEW s \in Sids, ArriveChange(p, s) \/ ArriveDelete(p, s) PROVE SerialInv'
    BY <2>1, <2>4, SerialArrive DEF ArriveChange, ArriveDelete
  <2> QED BY <1>2, <2>2, <2>3, <2>4 DEF ArriveAny
<1>3. ASSUME NEW p \in Reqs, Step(p) \/ Fail(p) PROVE SerialInv'
  BY <1>3, SerialRefresh, SerialRevocation, SerialRequestDeletion, SerialActivate,
     SerialCreate, SerialFinalize, SerialEnd
  DEF Step
<1> QED BY <1>1, <1>2, <1>3, SerialEnvironment DEF Next

(* Requests of one account that follow one another, among whatever other    *)
(* accounts do, stay within the inductive invariant.                        *)
THEOREM SerialInvariance == Spec /\ []NoOverlap => []SerialInv
<1>1. Init => SerialInv
  <2> SUFFICES ASSUME Init PROVE SerialInv
    OBVIOUS
  <2>1. \A p \in Reqs : Stage(p)
    BY DEF Init, Idle, Stage
  <2>2. Tokens
    BY DEF Init, Tokens, OneLive, ActiveOrExpired, Exchanged, EndedOwned,
           EndedSessionsStayDead, PendingNoLive, NoLive
  <2> QED BY <2>1, <2>2 DEF SerialInv
<1> QED BY <1>1, SerialStep, Invariance, PTL DEF Spec

(* "Only one session may be active per user at a time": issueSession never  *)
(* leaves a user with two refresh tokens that can be exchanged.             *)
THEOREM OneSession == Spec /\ []NoOverlap => []SingleSession
<1>1. IInv /\ SerialInv => SingleSession
  <2> SUFFICES ASSUME SerialInv, NEW u \in Users PROVE Cardinality(LiveTokens(u)) <= 1
    BY DEF SingleSession
  <2>1. CASE LiveTokens(u) = {}
    BY <2>1, FS_EmptySet
  <2>2. CASE LiveTokens(u) # {}
    <3>1. PICK s \in LiveTokens(u) : TRUE
      BY <2>2
    <3>2. LiveTokens(u) = {s}
      BY <3>1 DEF LiveTokens, SerialInv, Tokens, OneLive
    <3>3. Cardinality({s}) = 1
      BY FS_Singleton, Zenon
    <3> QED BY <3>2, <3>3
  <2> QED BY <2>1, <2>2
<1> QED BY <1>1, SerialInvariance, Invariance, PTL

(* Refresh token and access token of a session die together.                *)
THEOREM TokensDieTogether == Spec /\ []NoOverlap => []LiveTokenIsActive
<1>1. SerialInv => LiveTokenIsActive
  BY DEF SerialInv, Tokens, ActiveOrExpired, LiveTokenIsActive, LiveTokens
<1> QED BY <1>1, SerialInvariance, PTL

(* Refresh exchanges a token for at most one session.                       *)
THEOREM RotatesOnce == Spec /\ []NoOverlap => []TokenRotatesOnce
<1>1. IInv /\ SerialInv => TokenRotatesOnce
  BY DEF IInv, TypeOK, SerialInv, Tokens, Exchanged, TokenRotatesOnce
<1> QED BY <1>1, SerialInvariance, Invariance, PTL

(* What a password change, a reset or a deletion request ended stays ended, *)
(* with every session refreshed from it.                                    *)
THEOREM EndedStayDead == Spec /\ []NoOverlap => []EndedSessionsStayDead
<1>1. SerialInv => EndedSessionsStayDead
  BY DEF SerialInv, Tokens
<1> QED BY <1>1, SerialInvariance, PTL

(* An account pending deletion, or deleted, has no live refresh token.      *)
THEOREM PendingHasNoToken == Spec /\ []NoOverlap => []PendingAccountHasNoLiveToken
<1>1. SerialInv => PendingAccountHasNoLiveToken
  BY DEF SerialInv, Tokens, PendingNoLive, NoLive, PendingAccountHasNoLiveToken, LiveTokens
<1> QED BY <1>1, SerialInvariance, PTL
=============================================================================
