------------------------ MODULE PasswordResetProofs ------------------------
(***************************************************************************)
(* Proofs about PasswordReset, for every set of flows and of concurrent    *)
(* requests and every attempt cap.                                         *)
(***************************************************************************)
EXTENDS PasswordReset, TLAPS

(***************************************************************************)
(* The inductive invariant.  ResetNeedsVerifiedOTP speaks of the flows     *)
(* that replaced the password; what keeps it true is that no row and no    *)
(* copy of a row in any handler, however stale, claims more than is true:  *)
(* only a flow that belongs to the account and had a code accepted is      *)
(* marked verified, and user_id is the same in a row and in its copies.    *)
(***************************************************************************)
Sound(f, r) == r.verified => f \in proven /\ r.eligible

RowsSound ==
  \A f \in Flows : flow[f] # NoFlow => Sound(f, flow[f])

CopySound(p) ==
  LET f == req[p].id
      r == req[p].row
  IN
  ~At(p, "idle") =>
    /\ f \in Flows /\ r \in FlowRows /\ flow[f] # NoFlow
    /\ r.eligible = flow[f].eligible
    /\ Sound(f, r)
    /\ req[p].pc \in {"check", "failed"} => ~IsOTPLocked(r)
    /\ At(p, "verified") => f \in proven /\ r.eligible
    /\ req[p].pc \in {"update", "consume", "revoke", "deactivate"} => r.verified

IInv ==
  /\ TypeOK
  /\ RowsSound
  /\ \A p \in Reqs : CopySound(p)
  /\ ResetNeedsVerifiedOTP

-----------------------------------------------------------------------------
(* A request that moves on keeps its copy.                                  *)
LEMMA GotoType ==
  ASSUME req \in [Reqs -> Requests], NEW p \in Reqs,
         NEW l \in {"failed", "verified", "consume", "revoke", "deactivate"}, Goto(p, l)
  PROVE  /\ req' \in [Reqs -> Requests]
         /\ \A q \in Reqs : q # p => req'[q] = req[q]
         /\ req'[p].pc = l /\ req'[p].id = req[p].id /\ req'[p].row = req[p].row
BY DEF Goto, Requests

(* A request that ends leaves the others alone.                             *)
LEMMA ReturnType ==
  ASSUME req \in [Reqs -> Requests], NEW p \in Reqs, Return(p)
  PROVE  /\ req' \in [Reqs -> Requests]
         /\ \A q \in Reqs : q # p => req'[q] = req[q]
         /\ req'[p].pc = "idle"
BY DEF Return, Requests, Idle

(* A copy a handler still holds stays sound while flows only gain proofs    *)
(* and no row changes its owner.                                            *)
LEMMA CopyKept ==
  ASSUME NEW q \in Reqs, CopySound(q), req'[q] = req[q], proven \subseteq proven',
         \A f \in Flows : flow[f] # NoFlow =>
           flow'[f] # NoFlow /\ flow'[f].eligible = flow[f].eligible
  PROVE  CopySound(q)'
BY DEF CopySound, Sound, At, IsOTPLocked

(* A handler writes a sound row over the one it read: the rows, the copies  *)
(* of the other requests and the history stay sound.                        *)
LEMMA RowWritten ==
  ASSUME IInv, NEW p \in Reqs, ~At(p, "idle"), NEW r \in FlowRows,
         r.eligible = req[p].row.eligible, Sound(req[p].id, r),
         flow' = [flow EXCEPT ![req[p].id] = r],
         UNCHANGED <<proven, changed>>
  PROVE  /\ flow' \in [Flows -> FlowRows \cup {NoFlow}]
         /\ RowsSound' /\ ResetNeedsVerifiedOTP'
         /\ \A f \in Flows : flow[f] # NoFlow =>
              flow'[f] # NoFlow /\ flow'[f].eligible = flow[f].eligible
<1>1. req[p].id \in Flows /\ flow[req[p].id] # NoFlow /\ r # NoFlow
      /\ r.eligible = flow[req[p].id].eligible
  BY PasswordResetAssumption DEF IInv, CopySound
<1>2. flow \in [Flows -> FlowRows \cup {NoFlow}] /\ changed \subseteq Flows
  BY DEF IInv, TypeOK
<1>3. \A f \in Flows : f # req[p].id => flow'[f] = flow[f]
  BY <1>2
<1>4. flow'[req[p].id] = r
  BY <1>1, <1>2
<1>5. flow' \in [Flows -> FlowRows \cup {NoFlow}]
  BY <1>2
<1>6. \A f \in Flows : flow[f] # NoFlow =>
        flow'[f] # NoFlow /\ flow'[f].eligible = flow[f].eligible
  BY <1>1, <1>3, <1>4
<1>7. RowsSound'
  BY <1>1, <1>3, <1>4 DEF IInv, RowsSound, Sound
<1>8. ResetNeedsVerifiedOTP'
  BY <1>2, <1>6 DEF IInv, ResetNeedsVerifiedOTP
<1> QED BY <1>5, <1>6, <1>7, <1>8

-----------------------------------------------------------------------------
(* The lookups: a handler takes a copy of a sound row.                      *)
LEMMA LookupStep ==
  ASSUME IInv, NEW p \in Reqs, NEW f \in Flows, VerifyLookup(p, f) \/ ConfirmLookup(p, f)
  PROVE  IInv'
<1>1. /\ flow[f] \in FlowRows /\ flow[f] # NoFlow
      /\ UNCHANGED <<flow, expired, tokens, dead, failures, history>>
      /\ \/ Load(p, "check", f) /\ ~IsOTPLocked(flow[f])
         \/ Load(p, "update", f) /\ flow[f].verified
  BY DEF IInv, TypeOK, VerifyLookup, ConfirmLookup
<1>2. /\ req' \in [Reqs -> Requests]
      /\ \A q \in Reqs : q # p => req'[q] = req[q]
      /\ req'[p].id = f /\ req'[p].row = flow[f]
      /\ \/ req'[p].pc = "check" /\ ~IsOTPLocked(flow[f])
         \/ req'[p].pc = "update" /\ flow[f].verified
  BY <1>1 DEF IInv, TypeOK, Load, Requests
<1>3. calm' \in BOOLEAN
  BY <1>1 DEF Load
<1>4. TypeOK'
  BY <1>1, <1>2, <1>3 DEF IInv, TypeOK, history
<1>5. RowsSound' /\ ResetNeedsVerifiedOTP'
  BY <1>1 DEF IInv, RowsSound, ResetNeedsVerifiedOTP, Sound, history
<1>6. CopySound(p)'
  BY <1>1, <1>2 DEF IInv, RowsSound, CopySound, Sound, At, IsOTPLocked, history
<1>7. \A q \in Reqs : q # p => CopySound(q)'
  BY <1>1, <1>2, CopyKept DEF IInv, history
<1> QED BY <1>4, <1>5, <1>6, <1>7 DEF IInv

(* The verdict on the code.                                                 *)
LEMMA CheckStep ==
  ASSUME IInv, NEW p \in Reqs, CheckFails(p) \/ CheckSucceeds(p)
  PROVE  IInv'
<1>1. /\ UNCHANGED <<flow, expired, tokens, dead, failures,
                     changed, done, repeated, guesses, calm>>
      /\ At(p, "check") /\ CopySound(p) /\ TypeOK
      /\ \/ Goto(p, "failed") /\ proven' = proven
         \/ Goto(p, "verified") /\ proven' = proven \cup {req[p].id} /\ req[p].row.eligible
  BY DEF IInv, CheckFails, CheckSucceeds, history
<1>2. /\ req' \in [Reqs -> Requests]
      /\ \A q \in Reqs : q # p => req'[q] = req[q]
      /\ req'[p].id = req[p].id /\ req'[p].row = req[p].row
      /\ req'[p].pc \in {"failed", "verified"}
      /\ req'[p].pc = "verified" => req[p].id \in proven' /\ req[p].row.eligible
  BY <1>1, GotoType DEF TypeOK
<1>3. proven \subseteq proven' /\ proven' \subseteq Flows
  BY <1>1 DEF TypeOK, CopySound, At
<1>4. TypeOK'
  BY <1>1, <1>2, <1>3 DEF TypeOK
<1>5. RowsSound' /\ ResetNeedsVerifiedOTP'
  BY <1>1, <1>3 DEF IInv, RowsSound, ResetNeedsVerifiedOTP, Sound
<1>6. CopySound(p)'
  BY <1>1, <1>2, <1>3 DEF CopySound, Sound, At, IsOTPLocked
<1>7. \A q \in Reqs : q # p => CopySound(q)'
  BY <1>1, <1>2, <1>3, CopyKept DEF IInv
<1> QED BY <1>4, <1>5, <1>6, <1>7 DEF IInv

(* The writes of a flow.                                                    *)
LEMMA WriteStep ==
  ASSUME IInv, NEW p \in Reqs, PersistFailure(p) \/ PersistSuccess(p) \/ ConsumeFlow(p)
  PROVE  IInv'
<1> USE PasswordResetAssumption
<1>0. TypeOK /\ CopySound(p)
  BY DEF IInv
<1>1. CASE PersistFailure(p)
  <2>1. /\ ~At(p, "idle") /\ RecordOTPFailure(req[p].row) \in FlowRows
        /\ RecordOTPFailure(req[p].row).eligible = req[p].row.eligible
        /\ Sound(req[p].id, RecordOTPFailure(req[p].row))
    BY <1>0, <1>1 DEF Update, PersistFailure, RecordOTPFailure, CopySound, Sound, At, FlowRows, IsOTPLocked
  <2>2. /\ Return(p)
        /\ flow' = [flow EXCEPT ![req[p].id] = RecordOTPFailure(req[p].row)]
        /\ UNCHANGED <<expired, tokens, dead, failures,
                       proven, changed, done, repeated, calm>>
    BY <1>1 DEF Update, PersistFailure
  <2>3. guesses' \in [Flows -> 0..(MaxOTPAttempts + 1)]
    <3> DEFINE g == guesses[req[p].id]
    <3>1. req[p].id \in Flows /\ g \in 0..(MaxOTPAttempts + 1)
      BY <1>0, <2>1 DEF CopySound, TypeOK
    <3>2. (IF g <= MaxOTPAttempts THEN g + 1 ELSE g) \in 0..(MaxOTPAttempts + 1)
      BY <3>1
    <3>3. guesses' = [guesses EXCEPT ![req[p].id] =
                        IF g <= MaxOTPAttempts THEN g + 1 ELSE g]
      BY <1>1 DEF Update, PersistFailure
    <3> QED BY <1>0, <3>2, <3>3 DEF TypeOK
  <2>4. /\ flow' \in [Flows -> FlowRows \cup {NoFlow}]
        /\ RowsSound' /\ ResetNeedsVerifiedOTP'
        /\ \A f \in Flows : flow[f] # NoFlow =>
             flow'[f] # NoFlow /\ flow'[f].eligible = flow[f].eligible
    BY <2>1, <2>2, RowWritten
  <2>5. /\ req' \in [Reqs -> Requests] /\ req'[p].pc = "idle"
        /\ \A q \in Reqs : q # p => req'[q] = req[q]
    BY <1>0, <2>2, ReturnType DEF TypeOK
  <2>6. TypeOK'
    BY <1>0, <2>2, <2>3, <2>4, <2>5 DEF TypeOK
  <2>7. \A q \in Reqs : CopySound(q)'
    <3>1. \A q \in Reqs : q # p => CopySound(q)'
      BY <2>2, <2>4, <2>5, CopyKept DEF IInv
    <3>2. CopySound(p)'
      BY <2>5 DEF CopySound, At
    <3> QED BY <3>1, <3>2
  <2> QED BY <2>4, <2>6, <2>7 DEF IInv
<1>2. CASE PersistSuccess(p)
  <2>1. /\ ~At(p, "idle") /\ MarkOTPVerified(req[p].row, tokens + 1) \in FlowRows
        /\ MarkOTPVerified(req[p].row, tokens + 1).eligible = req[p].row.eligible
        /\ Sound(req[p].id, MarkOTPVerified(req[p].row, tokens + 1))
    <3>1. /\ ~At(p, "idle") /\ req[p].row \in FlowRows
          /\ req[p].id \in proven /\ req[p].row.eligible
      BY <1>0, <1>2 DEF Update, PersistSuccess, CopySound, At
    <3>2. tokens + 1 \in Tokens
      BY <1>0, <1>2 DEF Update, PersistSuccess, Tokens, TypeOK
    <3> QED BY <3>1, <3>2 DEF MarkOTPVerified, Sound, FlowRows
  <2>2. /\ Return(p)
        /\ flow' = [flow EXCEPT ![req[p].id] = MarkOTPVerified(req[p].row, tokens + 1)]
        /\ UNCHANGED <<expired, dead, failures,
                       proven, changed, done, repeated, guesses, calm>>
    BY <1>2 DEF Update, PersistSuccess, history
  <2>3. tokens' \in 0..MaxTokens
    BY <1>0, <1>2 DEF Update, TypeOK, PersistSuccess
  <2>4. /\ flow' \in [Flows -> FlowRows \cup {NoFlow}]
        /\ RowsSound' /\ ResetNeedsVerifiedOTP'
        /\ \A f \in Flows : flow[f] # NoFlow =>
             flow'[f] # NoFlow /\ flow'[f].eligible = flow[f].eligible
    BY <2>1, <2>2, RowWritten
  <2>5. /\ req' \in [Reqs -> Requests] /\ req'[p].pc = "idle"
        /\ \A q \in Reqs : q # p => req'[q] = req[q]
    BY <1>0, <2>2, ReturnType DEF TypeOK
  <2>6. TypeOK'
    BY <1>0, <2>2, <2>3, <2>4, <2>5 DEF TypeOK
  <2>7. \A q \in Reqs : CopySound(q)'
    <3>1. \A q \in Reqs : q # p => CopySound(q)'
      BY <2>2, <2>4, <2>5, CopyKept DEF IInv
    <3>2. CopySound(p)'
      BY <2>5 DEF CopySound, At
    <3> QED BY <3>1, <3>2
  <2> QED BY <2>4, <2>6, <2>7 DEF IInv
<1>3. CASE ConsumeFlow(p)
  <2>1. /\ At(p, "consume") /\ ~At(p, "idle") /\ Consume(req[p].row) \in FlowRows
        /\ Consume(req[p].row).eligible = req[p].row.eligible
        /\ Sound(req[p].id, Consume(req[p].row))
    BY <1>0, <1>3 DEF Update, ConsumeFlow, Consume, CopySound, Sound, At, FlowRows
  <2>2. /\ Goto(p, "revoke")
        /\ flow' = [flow EXCEPT ![req[p].id] = Consume(req[p].row)]
        /\ UNCHANGED <<expired, tokens, dead, failures,
                       proven, changed, done, repeated, guesses, calm>>
    BY <1>3 DEF Update, ConsumeFlow, history
  <2>4. /\ flow' \in [Flows -> FlowRows \cup {NoFlow}]
        /\ RowsSound' /\ ResetNeedsVerifiedOTP'
        /\ \A f \in Flows : flow[f] # NoFlow =>
             flow'[f] # NoFlow /\ flow'[f].eligible = flow[f].eligible
    BY <2>1, <2>2, RowWritten
  <2>5. /\ req' \in [Reqs -> Requests] /\ req'[p].pc = "revoke"
        /\ req'[p].id = req[p].id /\ req'[p].row = req[p].row
        /\ \A q \in Reqs : q # p => req'[q] = req[q]
    BY <1>0, <2>2, GotoType DEF TypeOK
  <2>6. TypeOK'
    BY <1>0, <2>2, <2>4, <2>5 DEF TypeOK
  <2>7. \A q \in Reqs : q # p => CopySound(q)'
    BY <2>2, <2>4, <2>5, CopyKept DEF IInv
  <2>8. CopySound(p)'
    BY <1>0, <2>1, <2>2, <2>4, <2>5 DEF CopySound, Sound, At, IsOTPLocked
  <2> QED BY <2>4, <2>6, <2>7, <2>8 DEF IInv
<1> QED BY <1>1, <1>2, <1>3

(* The steps of Confirm that leave the flow alone, and requests cut short.  *)
LEMMA ConfirmStep ==
  ASSUME IInv, NEW p \in Reqs,
         UpdatePassword(p) \/ RevokeTokens(p) \/ DeactivateSession(p) \/ Fail(p)
  PROVE  IInv'
<1> USE PasswordResetAssumption
<1>0. TypeOK /\ CopySound(p) /\ RowsSound
  BY DEF IInv
<1>1. /\ UNCHANGED <<flow, expired, tokens, dead, proven, guesses, calm>>
      /\ ~At(p, "idle")
      /\ failures' \in 0..MaxFailures
      /\ \/ Goto(p, "consume") /\ At(p, "update")
         \/ Goto(p, "deactivate") /\ At(p, "revoke")
         \/ Return(p)
  <2>1. CASE UpdatePassword(p)
    BY <1>0, <2>1 DEF UpdatePassword, TypeOK, At
  <2>2. CASE RevokeTokens(p)
    BY <1>0, <2>2 DEF RevokeTokens, TypeOK, history, At
  <2>3. CASE DeactivateSession(p)
    BY <1>0, <2>3 DEF DeactivateSession, TypeOK, At
  <2>4. CASE Fail(p)
    BY <1>0, <2>4 DEF Fail, TypeOK, history
  <2> QED BY <2>1, <2>2, <2>3, <2>4
<1>2. /\ req' \in [Reqs -> Requests]
      /\ \A q \in Reqs : q # p => req'[q] = req[q]
      /\ \/ req'[p].pc = "idle"
         \/ /\ req'[p].id = req[p].id /\ req'[p].row = req[p].row
            /\ req'[p].pc \in {"consume", "deactivate"}
            /\ req[p].pc \in {"update", "revoke"}
  BY <1>0, <1>1, GotoType, ReturnType DEF TypeOK, At
<1>3. /\ changed' \subseteq Flows /\ done' \subseteq Flows /\ repeated' \subseteq done'
      /\ \A f \in changed' : f \in changed \/ (f = req[p].id /\ At(p, "update"))
  BY <1>0, <1>1 DEF UpdatePassword, RevokeTokens, DeactivateSession, Fail, TypeOK, history, CopySound
<1>4. TypeOK'
  BY <1>0, <1>1, <1>2, <1>3 DEF TypeOK
<1>5. RowsSound'
  BY <1>0, <1>1 DEF RowsSound, Sound
<1>6. ResetNeedsVerifiedOTP'
  BY <1>0, <1>1, <1>3 DEF IInv, ResetNeedsVerifiedOTP, CopySound, Sound, At
<1>7. \A q \in Reqs : q # p => CopySound(q)'
  BY <1>1, <1>2, CopyKept DEF IInv
<1>8. CopySound(p)'
  BY <1>0, <1>1, <1>2 DEF CopySound, Sound, At, IsOTPLocked
<1> QED BY <1>4, <1>5, <1>6, <1>7, <1>8 DEF IInv

(* New flows and the passing of time.                                       *)
LEMMA EnvironmentStep ==
  ASSUME IInv,
         \/ \E f \in Flows : RequestPasswordReset(f) \/ FlowExpires(f)
         \/ \E t \in Tokens : TokenExpires(t)
  PROVE  IInv'
<1> USE PasswordResetAssumption
<1>0. TypeOK /\ RowsSound /\ ResetNeedsVerifiedOTP
  BY DEF IInv
<1>1. /\ UNCHANGED <<req, proven, changed, done, repeated, guesses, failures, tokens, calm>>
      /\ expired' \subseteq Flows /\ dead' \subseteq Tokens
  BY <1>0 DEF RequestPasswordReset, Create, FlowExpires, TokenExpires, TypeOK, history
<1>2. /\ flow' \in [Flows -> FlowRows \cup {NoFlow}]
      /\ \A f \in Flows : flow'[f] = flow[f] \/
           (flow[f] = NoFlow /\ flow'[f] # NoFlow /\ ~flow'[f].verified)
  <2>1. CASE \E f \in Flows : RequestPasswordReset(f)
    <3>1. PICK f \in Flows : RequestPasswordReset(f)
      BY <2>1
    <3>2. PICK e \in BOOLEAN : flow' = [flow EXCEPT ![f] = New(e)]
      BY <3>1 DEF RequestPasswordReset, Create
    <3>3. New(e) \in FlowRows /\ ~New(e).verified /\ flow[f] = NoFlow
      BY <3>1 DEF New, FlowRows, RequestPasswordReset, Create
    <3> QED BY <1>0, <3>2, <3>3 DEF TypeOK
  <2>2. CASE UNCHANGED flow
    BY <1>0, <2>2 DEF TypeOK
  <2> QED BY <2>1, <2>2 DEF FlowExpires, TokenExpires
<1>3. TypeOK'
  BY <1>0, <1>1, <1>2 DEF TypeOK
<1>4. RowsSound'
  BY <1>0, <1>1, <1>2 DEF RowsSound, Sound
<1>5. ResetNeedsVerifiedOTP'
  BY <1>0, <1>1, <1>2 DEF ResetNeedsVerifiedOTP, TypeOK
<1>6. \A q \in Reqs : CopySound(q)'
  BY <1>1, <1>2, CopyKept DEF IInv
<1> QED BY <1>3, <1>4, <1>5, <1>6 DEF IInv

-----------------------------------------------------------------------------
(* Before the first request no flow exists.                                 *)
LEMMA InvInit == Init => IInv
<1> SUFFICES ASSUME Init PROVE IInv
  OBVIOUS
<1> USE PasswordResetAssumption
<1>1. Idle \in Requests
  BY DEF Idle, Requests
<1>2. TypeOK
  <2>1. req \in [Reqs -> Requests] /\ flow \in [Flows -> FlowRows \cup {NoFlow}]
    BY <1>1 DEF Init
  <2>2. guesses \in [Flows -> 0..(MaxOTPAttempts + 1)]
    BY DEF Init
  <2>3. tokens \in 0..MaxTokens /\ failures \in 0..MaxFailures
    BY DEF Init
  <2> QED BY <2>1, <2>2, <2>3 DEF Init, TypeOK
<1>3. RowsSound /\ ResetNeedsVerifiedOTP
  BY DEF Init, RowsSound, ResetNeedsVerifiedOTP
<1>4. \A p \in Reqs : CopySound(p)
  BY DEF Init, CopySound, At, Idle
<1> QED BY <1>2, <1>3, <1>4 DEF IInv

(* Every step keeps the invariant.                                          *)
LEMMA InvStep == IInv /\ [Next]_vars => IInv'
<1> SUFFICES ASSUME IInv, [Next]_vars PROVE IInv'
  OBVIOUS
<1>1. CASE UNCHANGED vars
  BY <1>1 DEF vars, IInv, TypeOK, RowsSound, Sound, CopySound, At, IsOTPLocked,
              ResetNeedsVerifiedOTP
<1>2. ASSUME NEW p \in Reqs, Step(p) PROVE IInv'
  BY <1>2, LookupStep, CheckStep, WriteStep, ConfirmStep DEF Step
<1> QED BY <1>1, <1>2, EnvironmentStep DEF Next

(* No interleaving of requests leaves the inductive invariant.              *)
THEOREM Invariance == Spec => []IInv
BY InvInit, InvStep, PTL DEF Spec

(* Rows, copies and counters keep their shape; in particular no row counts  *)
(* more wrong codes than the cap, whatever stale copies are written back.   *)
THEOREM TypeCorrect == Spec => []TypeOK
<1>1. IInv => TypeOK
  BY DEF IInv
<1> QED BY <1>1, Invariance, PTL

(* A password is reset only through a flow of an eligible account for which *)
(* VerifyPasswordResetOTP accepted a code, under every interleaving.        *)
THEOREM ResetIsVerified == Spec => []ResetNeedsVerifiedOTP
<1>1. IInv => ResetNeedsVerifiedOTP
  BY DEF IInv
<1> QED BY <1>1, Invariance, PTL

-----------------------------------------------------------------------------
(***************************************************************************)
(* While requests do not overlap.  FlowResetsOnce and FlowGuessesBounded   *)
(* are about what clients were answered; what keeps them true is that the  *)
(* one request at work holds the row as it is, so that the row counts      *)
(* every wrong code and no completed flow loses its consumed_at.  Between  *)
(* Consume and the answer the flow is consumed but not yet completed: a    *)
(* request cut short there leaves a flow that never completes.             *)
(***************************************************************************)
SoleRequest(p) ==
  LET f == req[p].id IN
  /\ \A q \in Reqs : q # p => At(q, "idle")
  /\ req[p].pc \in {"check", "failed", "verified", "update", "consume"} =>
       req[p].row = flow[f]
  /\ req[p].pc \in {"update", "consume"} => ~flow[f].consumed
  /\ req[p].pc \in {"revoke", "deactivate"} => flow[f].consumed /\ f \notin done

GuessesCounted ==
  \A f \in Flows : guesses[f] = IF flow[f] = NoFlow THEN 0 ELSE flow[f].attempts

DoneIsConsumed ==
  repeated = {} /\ \A f \in done : flow[f] # NoFlow /\ flow[f].consumed

CalmSound ==
  calm => /\ GuessesCounted
          /\ DoneIsConsumed
          /\ \A p \in Reqs : ~At(p, "idle") => SoleRequest(p)

(* A request that starts alone holds the row as it is.                      *)
LEMMA CalmLookup ==
  ASSUME TypeOK, CalmSound, NEW p \in Reqs, NEW f \in Flows,
         VerifyLookup(p, f) \/ ConfirmLookup(p, f)
  PROVE  CalmSound'
<1> SUFFICES ASSUME calm' PROVE CalmSound'
  BY DEF CalmSound
<1>1. calm /\ Quiet
  BY DEF VerifyLookup, ConfirmLookup, Load
<1>2. /\ UNCHANGED <<flow, done, repeated, guesses>>
      /\ req'[p].id = f /\ req'[p].row = flow[f]
      /\ req'[p].pc \in {"check", "update"}
      /\ req'[p].pc = "update" => ~flow[f].consumed
      /\ \A q \in Reqs : q # p => req'[q].pc = "idle"
  <2>1. /\ UNCHANGED <<flow, done, repeated, guesses>>
        /\ Load(p, "check", f) \/ (Load(p, "update", f) /\ ~flow[f].consumed)
    BY DEF VerifyLookup, ConfirmLookup, history
  <2>2. PICK l \in {"check", "update"} :
          /\ req' = [req EXCEPT ![p] = [pc |-> l, id |-> f, row |-> flow[f]]]
          /\ l = "update" => ~flow[f].consumed
    BY <2>1 DEF Load
  <2> QED BY <1>1, <2>1, <2>2 DEF TypeOK, Quiet, At
<1>3. SoleRequest(p)'
  BY <1>2 DEF SoleRequest, At
<1> QED BY <1>1, <1>2, <1>3 DEF CalmSound, GuessesCounted, DoneIsConsumed, At

(* The steps of the one request at work, by what they do to its control     *)
(* state: the request ends, or it goes on alone.                            *)
LEMMA CalmRequest ==
  ASSUME TypeOK, NEW p \in Reqs, SoleRequest(p),
         GuessesCounted', DoneIsConsumed',
         \/ Return(p)
         \/ \E l \in {"failed", "verified", "consume", "revoke", "deactivate"} :
              Goto(p, l) /\ SoleRequest(p)'
  PROVE  CalmSound'
<1>1. \A q \in Reqs : q # p => req'[q].pc = "idle"
  BY GotoType, ReturnType DEF TypeOK, SoleRequest, At
<1>2. CASE Return(p)
  BY <1>1, <1>2, ReturnType DEF TypeOK, CalmSound, At
<1>3. CASE SoleRequest(p)'
  BY <1>1, <1>3 DEF CalmSound, At
<1> QED BY <1>2, <1>3

(* The steps that judge a code or change the password leave every row alone. *)
LEMMA CalmReads ==
  ASSUME IInv, CalmSound, NEW p \in Reqs,
         CheckFails(p) \/ CheckSucceeds(p) \/ UpdatePassword(p) \/ RevokeTokens(p) \/ Fail(p)
  PROVE  CalmSound'
<1> SUFFICES ASSUME calm' PROVE CalmSound'
  BY DEF CalmSound
<1>1. /\ calm /\ ~At(p, "idle")
      /\ UNCHANGED <<flow, done, repeated, guesses>>
  BY DEF CheckFails, CheckSucceeds, UpdatePassword, RevokeTokens, Fail, history, At
<1>2. SoleRequest(p) /\ GuessesCounted' /\ DoneIsConsumed' /\ TypeOK
  BY <1>1 DEF CalmSound, GuessesCounted, DoneIsConsumed, IInv
<1>3. ASSUME NEW l \in {"failed", "verified", "consume", "deactivate"}, Goto(p, l),
             \/ At(p, "check") /\ l \in {"failed", "verified"}
             \/ At(p, "update") /\ l = "consume"
             \/ At(p, "revoke") /\ l = "deactivate"
      PROVE  SoleRequest(p)'
  <2>1. /\ req'[p].pc = l /\ req'[p].id = req[p].id /\ req'[p].row = req[p].row
        /\ \A q \in Reqs : q # p => req'[q] = req[q]
    BY <1>2, <1>3, GotoType DEF TypeOK
  <2> QED BY <1>1, <1>2, <1>3, <2>1 DEF SoleRequest, At
<1>4. \/ Return(p)
      \/ \E l \in {"failed", "verified", "consume", "deactivate"} :
           /\ Goto(p, l)
           /\ \/ At(p, "check") /\ l \in {"failed", "verified"}
              \/ At(p, "update") /\ l = "consume"
              \/ At(p, "revoke") /\ l = "deactivate"
  BY DEF CheckFails, CheckSucceeds, UpdatePassword, RevokeTokens, Fail
<1> QED BY <1>2, <1>3, <1>4, CalmRequest

(* A wrong code is counted in the row as it is; no cap is passed, since the *)
(* lookup refused a locked flow.                                            *)
LEMMA CalmFailure ==
  ASSUME IInv, CalmSound, NEW p \in Reqs, PersistFailure(p)
  PROVE  CalmSound'
<1> USE PasswordResetAssumption
<1> SUFFICES ASSUME calm' PROVE CalmSound'
  BY DEF CalmSound
<1> DEFINE f == req[p].id
<1>1. /\ TypeOK /\ calm /\ ~At(p, "idle") /\ SoleRequest(p) /\ GuessesCounted /\ DoneIsConsumed
  BY DEF PersistFailure, At, CalmSound, IInv
<1>2. /\ f \in Flows /\ flow[f] # NoFlow /\ flow[f] \in FlowRows /\ req[p].row = flow[f]
      /\ flow[f].attempts < MaxOTPAttempts
  BY <1>1 DEF PersistFailure, IInv, CopySound, SoleRequest, At, IsOTPLocked, TypeOK, FlowRows
<1>3. /\ flow' = [flow EXCEPT ![f] = RecordOTPFailure(flow[f])]
      /\ UNCHANGED <<done, repeated>> /\ Return(p)
  BY <1>2 DEF PersistFailure, Update
<1>4. /\ flow'[f] # NoFlow /\ flow'[f].attempts = flow[f].attempts + 1
      /\ flow'[f].consumed = flow[f].consumed
      /\ \A g \in Flows : g # f => flow'[g] = flow[g]
  <2>1. RecordOTPFailure(flow[f]) \in FlowRows
    BY <1>2 DEF RecordOTPFailure, FlowRows
  <2> QED BY <1>1, <1>2, <1>3, <2>1 DEF RecordOTPFailure, TypeOK, FlowRows
<1>5. guesses' = [guesses EXCEPT ![f] = guesses[f] + 1]
  <2>1. guesses[f] <= MaxOTPAttempts
    BY <1>1, <1>2 DEF GuessesCounted, FlowRows
  <2> QED BY <2>1 DEF PersistFailure
<1>6. GuessesCounted'
  BY <1>1, <1>2, <1>4, <1>5 DEF GuessesCounted, TypeOK
<1>7. DoneIsConsumed'
  BY <1>1, <1>2, <1>3, <1>4 DEF DoneIsConsumed, TypeOK
<1> QED BY <1>1, <1>3, <1>6, <1>7, CalmRequest

(* Verification and consumption keep the count of wrong codes, and a        *)
(* consumed flow is consumed for good.                                      *)
LEMMA CalmWrite ==
  ASSUME IInv, CalmSound, NEW p \in Reqs, PersistSuccess(p) \/ ConsumeFlow(p)
  PROVE  CalmSound'
<1> USE PasswordResetAssumption
<1> SUFFICES ASSUME calm' PROVE CalmSound'
  BY DEF CalmSound
<1> DEFINE f == req[p].id
<1>1. /\ TypeOK /\ calm /\ ~At(p, "idle") /\ SoleRequest(p) /\ GuessesCounted /\ DoneIsConsumed
  BY DEF PersistSuccess, ConsumeFlow, history, At, CalmSound, IInv
<1>2. /\ f \in Flows /\ flow[f] # NoFlow /\ flow[f] \in FlowRows /\ req[p].row = flow[f]
  BY <1>1 DEF PersistSuccess, ConsumeFlow, IInv, CopySound, SoleRequest, At, TypeOK
<1>3. /\ UNCHANGED <<done, repeated, guesses>>
      /\ \/ flow' = [flow EXCEPT ![f] = MarkOTPVerified(flow[f], tokens + 1)] /\ Return(p)
         \/ /\ flow' = [flow EXCEPT ![f] = Consume(flow[f])]
            /\ Goto(p, "revoke") /\ At(p, "consume")
  BY <1>2 DEF PersistSuccess, ConsumeFlow, Update, history
<1>4. /\ flow'[f] # NoFlow /\ flow'[f].attempts = flow[f].attempts
      /\ flow[f].consumed => flow'[f].consumed
      /\ At(p, "consume") => flow'[f].consumed \/ Return(p)
      /\ \A g \in Flows : g # f => flow'[g] = flow[g]
  <2>1. CASE Return(p) /\ flow' = [flow EXCEPT ![f] = MarkOTPVerified(flow[f], tokens + 1)]
    <3>1. PersistSuccess(p) => tokens + 1 \in Tokens
      BY <1>1 DEF PersistSuccess, TypeOK, Tokens
    <3>2. ~ConsumeFlow(p)
      BY <1>1, <2>1 DEF ConsumeFlow, Return, Goto, TypeOK, Requests, Idle
    <3>3. MarkOTPVerified(flow[f], tokens + 1) \in FlowRows
      BY <1>2, <3>1, <3>2 DEF MarkOTPVerified, FlowRows
    <3> QED BY <1>1, <1>2, <2>1, <3>3 DEF MarkOTPVerified, TypeOK, FlowRows
  <2>2. CASE flow' = [flow EXCEPT ![f] = Consume(flow[f])]
    <3>1. Consume(flow[f]) \in FlowRows
      BY <1>2 DEF Consume, FlowRows
    <3> QED BY <1>1, <1>2, <2>2, <3>1 DEF Consume, TypeOK, FlowRows
  <2> QED BY <1>3, <2>1, <2>2
<1>5. GuessesCounted'
  BY <1>1, <1>2, <1>3, <1>4 DEF GuessesCounted
<1>6. DoneIsConsumed'
  BY <1>1, <1>2, <1>3, <1>4 DEF DoneIsConsumed, TypeOK
<1>7. CASE Return(p)
  BY <1>1, <1>5, <1>6, <1>7, CalmRequest
<1>8. CASE Goto(p, "revoke") /\ At(p, "consume") /\ ~Return(p)
  <2>1. /\ req'[p].pc = "revoke" /\ req'[p].id = f
        /\ \A q \in Reqs : q # p => req'[q] = req[q]
    BY <1>1, <1>8, GotoType DEF TypeOK
  <2>2. f \notin done
    BY <1>1, <1>8 DEF SoleRequest, DoneIsConsumed, At
  <2>3. SoleRequest(p)'
    BY <1>1, <1>3, <1>4, <1>8, <2>1, <2>2 DEF SoleRequest, At
  <2> QED BY <1>1, <1>5, <1>6, <1>8, <2>3, CalmRequest
<1> QED BY <1>3, <1>7, <1>8

(* The answer: the flow had not completed before.                           *)
LEMMA CalmAnswer ==
  ASSUME IInv, CalmSound, NEW p \in Reqs, DeactivateSession(p)
  PROVE  CalmSound'
<1> SUFFICES ASSUME calm' PROVE CalmSound'
  BY DEF CalmSound
<1>1. /\ TypeOK /\ SoleRequest(p) /\ GuessesCounted /\ DoneIsConsumed /\ CopySound(p)
      /\ At(p, "deactivate") /\ Return(p) /\ UNCHANGED <<flow, guesses>>
  BY DEF DeactivateSession, At, CalmSound, IInv
<1>2. /\ req[p].id \notin done /\ flow[req[p].id].consumed /\ flow[req[p].id] # NoFlow
  BY <1>1 DEF SoleRequest, CopySound, At
<1>3. done' = done \cup {req[p].id} /\ repeated' = repeated
  BY <1>2 DEF DeactivateSession
<1>4. GuessesCounted' /\ DoneIsConsumed'
  BY <1>1, <1>2, <1>3 DEF GuessesCounted, DoneIsConsumed
<1> QED BY <1>1, <1>4, CalmRequest

(* New flows and the passing of time.                                       *)
LEMMA CalmEnvironment ==
  ASSUME IInv, CalmSound,
         \/ \E f \in Flows : RequestPasswordReset(f) \/ FlowExpires(f)
         \/ \E t \in Tokens : TokenExpires(t)
  PROVE  CalmSound'
<1> USE PasswordResetAssumption
<1>1. UNCHANGED <<req, done, repeated, guesses, calm>>
  BY DEF RequestPasswordReset, Create, FlowExpires, TokenExpires, history
<1>2. \A f \in Flows : flow'[f] = flow[f] \/
        (flow[f] = NoFlow /\ flow'[f] # NoFlow /\ flow'[f].attempts = 0)
  <2>1. CASE \E f \in Flows : RequestPasswordReset(f)
    <3>1. PICK f \in Flows : RequestPasswordReset(f)
      BY <2>1
    <3>2. PICK e \in BOOLEAN : flow' = [flow EXCEPT ![f] = New(e)]
      BY <3>1 DEF RequestPasswordReset, Create
    <3>3. New(e) \in FlowRows /\ New(e).attempts = 0 /\ flow[f] = NoFlow
      BY <3>1 DEF New, FlowRows, RequestPasswordReset, Create
    <3> QED BY <3>2, <3>3 DEF IInv, TypeOK
  <2>2. CASE UNCHANGED flow
    BY <2>2
  <2> QED BY <2>1, <2>2 DEF FlowExpires, TokenExpires
<1>3. done \subseteq Flows
  BY DEF IInv, TypeOK
<1>4. ASSUME calm, NEW p \in Reqs, ~At(p, "idle") PROVE SoleRequest(p)'
  <2>1. SoleRequest(p) /\ CopySound(p) /\ req[p].id \in Flows /\ flow[req[p].id] # NoFlow
    BY <1>4 DEF CalmSound, IInv, CopySound
  <2>2. flow'[req[p].id] = flow[req[p].id]
    BY <1>2, <2>1
  <2> QED BY <1>1, <2>1, <2>2 DEF SoleRequest, At
<1>5. calm => GuessesCounted' /\ DoneIsConsumed'
  BY <1>1, <1>2, <1>3 DEF CalmSound, GuessesCounted, DoneIsConsumed
<1> QED BY <1>1, <1>4, <1>5 DEF CalmSound, At

(* Every step keeps CalmSound.                                              *)
LEMMA CalmStep == IInv /\ CalmSound /\ [Next]_vars => CalmSound'
<1> SUFFICES ASSUME IInv, CalmSound, [Next]_vars PROVE CalmSound'
  OBVIOUS
<1>1. CASE UNCHANGED vars
  BY <1>1 DEF vars, CalmSound, GuessesCounted, DoneIsConsumed, SoleRequest, At
<1>2. ASSUME NEW p \in Reqs, Step(p) PROVE CalmSound'
  BY <1>2, CalmLookup, CalmReads, CalmFailure, CalmWrite, CalmAnswer DEF Step, IInv
<1> QED BY <1>1, <1>2, CalmEnvironment DEF Next

(* Until requests overlap, rows and answers agree.                          *)
LEMMA CalmInvariance == Spec => []CalmSound
<1>1. Init => CalmSound
  BY DEF Init, Idle, CalmSound, GuessesCounted, DoneIsConsumed, At
<1> QED BY <1>1, CalmStep, Invariance, PTL DEF Spec

(* As long as no request overlaps another, and wherever requests are cut    *)
(* short, ConfirmPasswordReset succeeds at most once for a flow.            *)
THEOREM ResetsOnce == Spec => []FlowResetsOnce
<1>1. CalmSound => FlowResetsOnce
  BY DEF CalmSound, DoneIsConsumed, FlowResetsOnce
<1> QED BY <1>1, CalmInvariance, PTL

(* Under the same condition VerifyPasswordResetOTP answers at most          *)
(* MaxOTPAttempts wrong codes for a flow, for every cap.                    *)
THEOREM GuessesBounded == Spec => []FlowGuessesBounded
<1>1. IInv /\ CalmSound => FlowGuessesBounded
  <2> SUFFICES ASSUME IInv, CalmSound, calm, NEW f \in Flows
               PROVE  guesses[f] <= MaxOTPAttempts
    BY DEF FlowGuessesBounded
  <2>1. guesses[f] = IF flow[f] = NoFlow THEN 0 ELSE flow[f].attempts
    BY DEF CalmSound, GuessesCounted
  <2>2. flow[f] # NoFlow => flow[f].attempts \in 0..MaxOTPAttempts
    BY DEF IInv, TypeOK, FlowRows
  <2> QED BY <2>1, <2>2, PasswordResetAssumption
<1> QED BY <1>1, CalmInvariance, Invariance, PTL

-----------------------------------------------------------------------------
(***************************************************************************)
(* Consumption, however requests overlap.  Every copy a handler holds was  *)
(* read before the flow was consumed, and the one handler that will        *)
(* consume it has replaced the password.                                   *)
(***************************************************************************)
CopyUnconsumed(p) ==
  ~At(p, "idle") =>
    /\ ~req[p].row.consumed
    /\ At(p, "consume") => req[p].id \in changed

BurntInv ==
  /\ ConsumedAfterChange
  /\ \A p \in Reqs : CopyUnconsumed(p)

(* Every step keeps BurntInv: a stale copy written back can only leave the  *)
(* flow unconsumed.                                                         *)
LEMMA BurntStep == IInv /\ BurntInv /\ [Next]_vars => BurntInv'
<1> SUFFICES ASSUME IInv, BurntInv, [Next]_vars PROVE BurntInv'
  OBVIOUS
<1> USE PasswordResetAssumption
<1>0. TypeOK
  BY DEF IInv
<1>1. CASE UNCHANGED vars
  BY <1>1 DEF vars, BurntInv, ConsumedAfterChange, CopyUnconsumed, At
<1>2. ASSUME NEW p \in Reqs, NEW f \in Flows, VerifyLookup(p, f) \/ ConfirmLookup(p, f)
      PROVE  BurntInv'
  <2>1. /\ UNCHANGED <<flow, changed>> /\ ~flow[f].consumed
        /\ req'[p].row = flow[f] /\ req'[p].pc \in {"check", "update"}
        /\ \A q \in Reqs : q # p => req'[q] = req[q]
    BY <1>0, <1>2 DEF VerifyLookup, ConfirmLookup, Load, TypeOK, Requests, history
  <2> QED BY <2>1 DEF BurntInv, ConsumedAfterChange, CopyUnconsumed, At
<1>3. ASSUME NEW p \in Reqs,
             CheckFails(p) \/ CheckSucceeds(p) \/ UpdatePassword(p) \/ RevokeTokens(p)
      PROVE  BurntInv'
  <2>1. /\ UNCHANGED flow /\ changed \subseteq changed' /\ ~At(p, "idle")
        /\ req'[p].id = req[p].id /\ req'[p].row = req[p].row
        /\ req'[p].pc = "consume" => req[p].id \in changed'
        /\ \A q \in Reqs : q # p => req'[q] = req[q]
    BY <1>0, <1>3, GotoType
       DEF CheckFails, CheckSucceeds, UpdatePassword, RevokeTokens, history, TypeOK, At
  <2> QED BY <2>1 DEF BurntInv, ConsumedAfterChange, CopyUnconsumed, At
<1>4. ASSUME NEW p \in Reqs, DeactivateSession(p) \/ Fail(p) PROVE BurntInv'
  <2>1. /\ UNCHANGED <<flow, changed>> /\ req'[p].pc = "idle"
        /\ \A q \in Reqs : q # p => req'[q] = req[q]
    BY <1>0, <1>4, ReturnType DEF DeactivateSession, Fail, history, TypeOK
  <2> QED BY <2>1 DEF BurntInv, ConsumedAfterChange, CopyUnconsumed, At
<1>5. ASSUME NEW p \in Reqs, PersistFailure(p) \/ PersistSuccess(p) PROVE BurntInv'
  <2>1. /\ UNCHANGED changed /\ Return(p) /\ req[p].id \in Flows
        /\ req[p].row \in FlowRows /\ ~req[p].row.consumed
    BY <1>5 DEF PersistFailure, PersistSuccess, history, At, IInv, CopySound,
                BurntInv, CopyUnconsumed
  <2>2. \E r : flow' = [flow EXCEPT ![req[p].id] = r] /\ ~r.consumed
    BY <1>5, <2>1 DEF PersistFailure, PersistSuccess, Update, RecordOTPFailure,
                      MarkOTPVerified, FlowRows
  <2>3. \A f \in Flows : flow'[f] = flow[f] \/ ~flow'[f].consumed
    BY <1>0, <2>1, <2>2 DEF TypeOK
  <2>4. req'[p].pc = "idle" /\ \A q \in Reqs : q # p => req'[q] = req[q]
    BY <1>0, <2>1, ReturnType DEF TypeOK
  <2> QED BY <2>1, <2>3, <2>4 DEF BurntInv, ConsumedAfterChange, CopyUnconsumed, At
<1>6. ASSUME NEW p \in Reqs, ConsumeFlow(p) PROVE BurntInv'
  <2>1. /\ UNCHANGED changed /\ req[p].id \in changed /\ ~At(p, "idle")
        /\ \A f \in Flows : f # req[p].id => flow'[f] = flow[f]
    BY <1>0, <1>6 DEF ConsumeFlow, Update, history, TypeOK, BurntInv, CopyUnconsumed, At
  <2>2. /\ req'[p].pc = "revoke" /\ req'[p].row = req[p].row
        /\ \A q \in Reqs : q # p => req'[q] = req[q]
    BY <1>0, <1>6, GotoType DEF ConsumeFlow, TypeOK
  <2> QED BY <2>1, <2>2 DEF BurntInv, ConsumedAfterChange, CopyUnconsumed, At
<1>7. CASE \/ \E f \in Flows : RequestPasswordReset(f) \/ FlowExpires(f)
           \/ \E t \in Tokens : TokenExpires(t)
  <2>1. UNCHANGED <<req, changed>>
    BY <1>7 DEF RequestPasswordReset, FlowExpires, TokenExpires, history
  <2>2. \A f \in Flows : flow'[f] = flow[f] \/ ~flow'[f].consumed
    BY <1>0, <1>7 DEF RequestPasswordReset, Create, New, FlowExpires, TokenExpires, TypeOK
  <2> QED BY <2>1, <2>2 DEF BurntInv, ConsumedAfterChange, CopyUnconsumed, At
<1> QED BY <1>1, <1>2, <1>3, <1>4, <1>5, <1>6, <1>7 DEF Next, Step

(* "the reset token can never be left permanently consumed by a failure":   *)
(* for any number of overlapping requests, each cut short anywhere, only a  *)
(* flow that replaced the password is ever consumed.                        *)
THEOREM BurntOnlyByReset == Spec => []ConsumedAfterChange
<1>1. Init => BurntInv
  BY DEF Init, Idle, BurntInv, ConsumedAfterChange, CopyUnconsumed, At
<1>2. BurntInv => ConsumedAfterChange
  BY DEF BurntInv
<1> QED BY <1>1, <1>2, BurntStep, Invariance, PTL DEF Spec
=============================================================================
