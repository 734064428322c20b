--------------------------- MODULE PasswordReset ---------------------------
(***************************************************************************)
(* The forgot-password flow of one account: RequestPasswordReset,          *)
(* VerifyPasswordResetOTP and ConfirmPasswordReset over the rows of        *)
(* password_reset_flows.                                                   *)
(*                                                                         *)
(* Verify and Confirm read a flow, work on their copy and write all of its *)
(* mutable columns back in one unconditional UPDATE; nothing spans the     *)
(* read and the write.  Each repository call is one step.  Whether a code  *)
(* is valid and unused is decided in module TwoFactor; here either answer  *)
(* is possible for a flow that belongs to the account.  The last two calls *)
(* of Confirm, RevokeAllForUser and DeactivateAndReturnPrevious, are steps *)
(* here because Confirm can be cut short before them; what they do to the  *)
(* sessions, next to logins and refreshes, is module Sessions.             *)
(***************************************************************************)
EXTENDS Naturals

CONSTANTS
  Flows,           \* ids of password-reset flows
  Reqs,            \* requests the server handles at the same time
  MaxOTPAttempts,  \* PASSWORD_RESET_FLOW_MAX_OTP_ATTEMPTS
  MaxTokens,       \* bound: reset tokens issued
  MaxFailures,     \* bound: requests cut short
  NoFlow

Tokens == 1..MaxTokens

(* A row; 0 is a NULL reset_token_hash.  eligible: user_id is not NULL.     *)
FlowRows ==
  [eligible : BOOLEAN, attempts : 0..MaxOTPAttempts, verified : BOOLEAN,
   token : Tokens \cup {0}, consumed : BOOLEAN]

ASSUME PasswordResetAssumption ==
  /\ MaxOTPAttempts \in Nat /\ MaxTokens \in Nat /\ MaxFailures \in Nat
  /\ NoFlow \notin Flows /\ NoFlow \notin FlowRows

VARIABLES
  flow,      \* password_reset_flows, NoFlow before the request
  expired,   \* flows past expires_at
  tokens,    \* reset tokens issued so far
  dead,      \* reset tokens past reset_token_expires_at
  req,       \* the requests in progress
  failures,  \* requests cut short so far
  proven,    \* history: flows for which a code was accepted
  changed,   \* history: flows that replaced the password
  done,      \* history: flows for which a Confirm answered success
  repeated,  \* history: flows for which a second one did
  guesses,   \* history: wrong codes answered per flow, up to one too many
  calm       \* history: no request overlapped another one

history == <<proven, changed, done, repeated, guesses>>
vars == <<flow, expired, tokens, dead, req, failures,
          proven, changed, done, repeated, guesses, calm>>

Idle == [pc |-> "idle", id |-> NoFlow, row |-> NoFlow]

Requests ==
  [pc : {"idle", "check", "failed", "verified", "update", "consume", "revoke",
         "deactivate"},
   id : Flows \cup {NoFlow}, row : FlowRows \cup {NoFlow}]

Init ==
  /\ flow = [f \in Flows |-> NoFlow]
  /\ expired = {} /\ tokens = 0 /\ dead = {}
  /\ req = [p \in Reqs |-> Idle]
  /\ failures = 0
  /\ proven = {} /\ changed = {} /\ done = {} /\ repeated = {}
  /\ guesses = [f \in Flows |-> 0] /\ calm = TRUE

At(p, l)   == req[p].pc = l
Goto(p, l) == req' = [req EXCEPT ![p].pc = l]
Return(p)  == req' = [req EXCEPT ![p] = Idle]
Quiet == \A p \in Reqs : At(p, "idle")

(* The row is read; another request may be at work already.                 *)
Load(p, l, f) ==
  /\ req' = [req EXCEPT ![p] = [pc |-> l, id |-> f, row |-> flow[f]]]
  /\ calm' = (calm /\ Quiet)

(* passwordResetFlows.Create, for a flow id not in use.                      *)
Create(f, r) == flow[f] = NoFlow /\ flow' = [flow EXCEPT ![f] = r]

(* passwordResetFlows.Update: every mutable column is replaced by the        *)
(* copy's, whatever the row holds by now.                                   *)
Update(f, r) == flow' = [flow EXCEPT ![f] = r]

-----------------------------------------------------------------------------
(***************************************************************************)
(* domain/passwordreset.PasswordResetFlow.                                 *)
(***************************************************************************)
New(eligible) == [eligible |-> eligible, attempts |-> 0, verified |-> FALSE,
                  token |-> 0, consumed |-> FALSE]

(* Fault: one attempt more than the cap is allowed.                         *)
IsOTPLockedLate(r) == r.attempts > MaxOTPAttempts

IsOTPLocked(r) == r.attempts >= MaxOTPAttempts

RecordOTPFailure(r) == [r EXCEPT !.attempts = @ + 1]

MarkOTPVerified(r, t) == [r EXCEPT !.verified = TRUE, !.token = t]

(* Fault: consumed_at is not set.                                           *)
ConsumeNothing(r) == r

Consume(r) == [r EXCEPT !.consumed = TRUE]

-----------------------------------------------------------------------------
(* The flow is created whether or not the email belongs to an account with  *)
(* 2FA enabled.                                                             *)
RequestPasswordReset(f) ==
  /\ \E eligible \in BOOLEAN : Create(f, New(eligible))
  /\ UNCHANGED <<expired, tokens, dead, req, failures, history, calm>>

(* VerifyPasswordResetOTP: the lookup and its checks.  A lookup that fails  *)
(* one returns without a change.                                            *)
VerifyLookup(p, f) ==
  LET r == flow[f] IN
  /\ At(p, "idle")
  /\ r # NoFlow /\ f \notin expired /\ ~r.consumed /\ ~r.verified /\ ~IsOTPLocked(r)
  /\ Load(p, "check", f)
  /\ UNCHANGED <<flow, expired, tokens, dead, failures, history>>

CheckFails(p) ==
  /\ At(p, "check")
  /\ Goto(p, "failed")
  /\ UNCHANGED <<flow, expired, tokens, dead, failures, history, calm>>

CheckSucceeds(p) ==
  /\ At(p, "check") /\ req[p].row.eligible
  /\ proven' = proven \cup {req[p].id}
  /\ Goto(p, "verified")
  /\ UNCHANGED <<flow, expired, tokens, dead, failures,
                 changed, done, repeated, guesses, calm>>

(* Fault: the early return after a wrong code is missing.                   *)
PersistFailureContinues(p) ==
  LET f == req[p].id IN
  /\ At(p, "failed")
  /\ Update(f, RecordOTPFailure(req[p].row))
  /\ guesses' = [guesses EXCEPT ![f] = IF @ <= MaxOTPAttempts THEN @ + 1 ELSE @]
  /\ Goto(p, "verified")
  /\ UNCHANGED <<expired, tokens, dead, failures,
                 proven, changed, done, repeated, calm>>

PersistFailure(p) ==
  LET f == req[p].id IN
  /\ At(p, "failed")
  /\ Update(f, RecordOTPFailure(req[p].row))
  /\ guesses' = [guesses EXCEPT ![f] = IF @ <= MaxOTPAttempts THEN @ + 1 ELSE @]
  /\ Return(p)
  /\ UNCHANGED <<expired, tokens, dead, failures,
                 proven, changed, done, repeated, calm>>

PersistSuccess(p) ==
  /\ At(p, "verified")
  /\ tokens < MaxTokens
  /\ tokens' = tokens + 1
  /\ Update(req[p].id, MarkOTPVerified(req[p].row, tokens + 1))
  /\ Return(p)
  /\ UNCHANGED <<expired, dead, failures, history, calm>>

-----------------------------------------------------------------------------
(* Fault: the token is consumed before the password is replaced.            *)
ConfirmConsumesFirst(p, f) ==
  LET r == flow[f] IN
  /\ At(p, "idle")
  /\ r # NoFlow /\ r.token # 0
  /\ f \notin expired /\ ~r.consumed /\ r.verified /\ r.token \notin dead /\ r.eligible
  /\ Update(f, Consume(r))
  /\ Load(p, "update", f)
  /\ UNCHANGED <<expired, tokens, dead, failures, history>>

(* ConfirmPasswordReset: the lookup by reset token and its checks.          *)
ConfirmLookup(p, f) ==
  LET r == flow[f] IN
  /\ At(p, "idle")
  /\ r # NoFlow /\ r.token # 0
  /\ f \notin expired /\ ~r.consumed /\ r.verified /\ r.token \notin dead /\ r.eligible
  /\ Load(p, "update", f)
  /\ UNCHANGED <<flow, expired, tokens, dead, failures, history>>

UpdatePassword(p) ==
  /\ At(p, "update")
  /\ changed' = changed \cup {req[p].id}
  /\ Goto(p, "consume")
  /\ UNCHANGED <<flow, expired, tokens, dead, failures,
                 proven, done, repeated, guesses, calm>>

ConsumeFlow(p) ==
  /\ At(p, "consume")
  /\ Update(req[p].id, Consume(req[p].row))
  /\ Goto(p, "revoke")
  /\ UNCHANGED <<expired, tokens, dead, failures, history, calm>>

RevokeTokens(p) ==
  /\ At(p, "revoke")
  /\ Goto(p, "deactivate")
  /\ UNCHANGED <<flow, expired, tokens, dead, failures, history, calm>>

DeactivateSession(p) ==
  LET f == req[p].id IN
  /\ At(p, "deactivate")
  /\ done' = done \cup {f}
  /\ repeated' = IF f \in done THEN repeated \cup {f} ELSE repeated
  /\ Return(p)
  /\ UNCHANGED <<flow, expired, tokens, dead, failures, proven, changed, guesses, calm>>

-----------------------------------------------------------------------------
(* A call fails, the context times out or the server stops.                 *)
Fail(p) ==
  /\ ~At(p, "idle")
  /\ failures < MaxFailures
  /\ failures' = failures + 1
  /\ Return(p)
  /\ UNCHANGED <<flow, expired, tokens, dead, history, calm>>

FlowExpires(f) ==
  /\ flow[f] # NoFlow /\ f \notin expired
  /\ expired' = expired \cup {f}
  /\ UNCHANGED <<flow, tokens, dead, req, failures, history, calm>>

TokenExpires(t) ==
  /\ t <= tokens /\ t \notin dead
  /\ dead' = dead \cup {t}
  /\ UNCHANGED <<flow, expired, tokens, req, failures, history, calm>>

Step(p) ==
  \/ \E f \in Flows : VerifyLookup(p, f) \/ ConfirmLookup(p, f)
  \/ CheckFails(p) \/ CheckSucceeds(p) \/ PersistFailure(p) \/ PersistSuccess(p)
  \/ UpdatePassword(p) \/ ConsumeFlow(p) \/ RevokeTokens(p) \/ DeactivateSession(p)
  \/ Fail(p)

Next ==
  \/ \E p \in Reqs : Step(p)
  \/ \E f \in Flows : RequestPasswordReset(f) \/ FlowExpires(f)
  \/ \E t \in Tokens : TokenExpires(t)

Spec == Init /\ [][Next]_vars

-----------------------------------------------------------------------------
(***************************************************************************)
(* Properties.                                                             *)
(***************************************************************************)

(* The shape of the state; no row ever counts more than MaxOTPAttempts.     *)
TypeOK ==
  /\ flow \in [Flows -> FlowRows \cup {NoFlow}]
  /\ expired \subseteq Flows
  /\ tokens \in 0..MaxTokens /\ dead \subseteq Tokens
  /\ req \in [Reqs -> Requests]
  /\ failures \in 0..MaxFailures
  /\ proven \subseteq Flows /\ changed \subseteq Flows
  /\ done \subseteq Flows /\ repeated \subseteq done
  /\ guesses \in [Flows -> 0..(MaxOTPAttempts + 1)] /\ calm \in BOOLEAN

(* ConfirmPasswordReset "can never succeed without a prior successful       *)
(* VerifyPasswordResetOTP against the same flow", nor for a flow of an      *)
(* unknown or ineligible email: however the writes of a flow overlap, a     *)
(* flow that replaced the password had a code accepted and is eligible.     *)
ResetNeedsVerifiedOTP ==
  \A f \in changed : f \in proven /\ flow[f] # NoFlow /\ flow[f].eligible

(* "the reset token can never be left permanently consumed by a failure":   *)
(* however requests overlap and wherever they are cut short, a flow is only *)
(* consumed when it has replaced the password, so a Confirm that could not  *)
(* do that can be repeated.                                                 *)
ConsumedAfterChange ==
  \A f \in Flows : flow[f] # NoFlow /\ flow[f].consumed => f \in changed

(* The same sentence in full, "by a failure in a later, unrelated step":    *)
(* a flow is consumed only if a Confirm with it answered success or is      *)
(* still at work.                                                           *)
ConsumedIsComplete ==
  Quiet => \A f \in Flows : flow[f] # NoFlow /\ flow[f].consumed => f \in done

(* Consume: "the reset token (and the flow as a whole) can never be         *)
(* presented again": until requests overlap, and wherever they are cut      *)
(* short, no flow completes two password resets.                            *)
FlowResetsOnce == calm => repeated = {}

(* The same without the condition: no flow ever completes two resets.       *)
FlowSingleUse == repeated = {}

(* A consumed flow is never un-consumed by a write of a copy of it.         *)
ConsumedIsFinal ==
  [][\A f \in Flows :
       flow[f] # NoFlow /\ flow[f].consumed => flow'[f].consumed]_vars

(* RecordOTPFailure: after MaxOTPAttempts wrong codes "the flow is dead";   *)
(* until requests overlap, no further code is judged against it.            *)
FlowGuessesBounded == calm => \A f \in Flows : guesses[f] <= MaxOTPAttempts
=============================================================================
