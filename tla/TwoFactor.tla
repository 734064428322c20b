----------------------------- MODULE TwoFactor -----------------------------
(***************************************************************************)
(* Two-factor authentication of one account: its TOTP credential row, its  *)
(* login challenges, and the handlers that check one-time codes (Register, *)
(* Login, SetupVerifyOTP, LoginVerifyOTP, ChangePassword, DeleteAccount,   *)
(* VerifyPasswordResetOTP).                                                *)
(*                                                                         *)
(* Every handler reads the whole credential row into memory, works on that *)
(* copy and writes all of its columns back with one unconditional UPDATE;  *)
(* no lock or transaction spans the read and the write.  Each repository   *)
(* call is therefore one step, and a copy may be stale when it is written. *)
(*                                                                         *)
(* Time is counted in TOTP periods.  A code is the pair of the secret and  *)
(* the period it is for; codes that match no period are all alike.  A      *)
(* request's code is looked at in one step only, so it is chosen there.    *)
(* Passwords are right (the handlers return without a change otherwise)    *)
(* and the session life cycle and account deletion are other modules.      *)
(***************************************************************************)
EXTENDS Naturals

CONSTANTS
  Reqs,           \* requests the server handles at the same time
  Challenges,     \* ids of login challenges
  Ops,            \* the operations clients call
  Demo,           \* whether this is the demo account, which has a fixed code
  OTPMaxAttempts, \* TOTP_MAX_FAILED_ATTEMPTS
  LockoutPeriods, \* TOTP_LOCKOUT_DURATION, in periods
  SetupPeriods,   \* TOTP_SETUP_TOKEN_TTL, in periods
  LoginPeriods,   \* LOGIN_CHALLENGE_TTL, in periods
  MaxPeriod,      \* bound: the last period of the clock
  MaxSecrets,     \* bound: secrets generated for the account
  NoCred, NoChallenge

AllOps == {"register", "login", "setup", "verify", "sensitive", "reset"}

Periods == 1..MaxPeriod
Secrets == 1..MaxSecrets

(* A row of two_factor_credentials.  Secrets are numbered as they are       *)
(* stored, and the setup token issued with a secret has its number; 0       *)
(* stands for NULL.  (A demo login stores counter 0, which no real period   *)
(* is at or below, so it acts as NULL too.)                                 *)
Credentials ==
  [secret : Secrets, enabled : BOOLEAN,
   setupToken : Secrets \cup {0}, setupUntil : 0..(MaxPeriod + SetupPeriods),
   failed : 0..(OTPMaxAttempts - 1), lockedUntil : 0..(MaxPeriod + LockoutPeriods),
   lastUsed : 0..(MaxPeriod + 1)]

ASSUME TwoFactorAssumption ==
  /\ Ops \subseteq AllOps
  /\ Demo \in BOOLEAN
  /\ OTPMaxAttempts \in Nat \ {0}
  /\ LockoutPeriods \in Nat /\ SetupPeriods \in Nat /\ LoginPeriods \in Nat
  /\ MaxPeriod \in Nat \ {0} /\ MaxSecrets \in Nat
  /\ NoCred \notin Credentials
  /\ NoChallenge \notin Challenges

VARIABLES
  now,         \* the current TOTP period
  registered,  \* the users row exists
  cred,        \* the credential row, NoCred before the first setup
  secrets,     \* secrets stored so far
  challenge,   \* login_challenges: state and expiry of each id
  session,     \* some session was returned to a client
  req,         \* the requests in progress
  accepted,    \* history: codes (secret, period) accepted since the demo
               \* code last overwrote the stored counter
  replayed,    \* history: codes accepted after they or a later one had been
  proven,      \* history: secrets a setup code was accepted for
  guesses,     \* history: codes rejected by verifyOTP since the failure
               \* counter was last cleared, up to OTPMaxAttempts
  answered,    \* history: challenges a login succeeded with
  reused       \* history: challenges a second login succeeded with

history == <<accepted, replayed, proven, guesses, answered, reused>>
vars == <<now, registered, cred, secrets, challenge, session, req,
          accepted, replayed, proven, guesses, answered, reused>>

Idle == [op |-> "none", pc |-> "idle", cred |-> NoCred, challenge |-> NoChallenge]

Requests ==
  [op : AllOps \cup {"none"},
   pc : {"idle", "login", "challenge", "setupRead", "setupWrite", "read",
         "verify", "issue", "finish", "resetVerify"},
   cred : Credentials \cup {NoCred},
   challenge : Challenges \cup {NoChallenge}]

Init ==
  /\ now = 1
  /\ registered = FALSE
  /\ cred = NoCred
  /\ secrets = 0
  /\ challenge = [c \in Challenges |-> [state |-> "absent", until |-> 0]]
  /\ session = FALSE
  /\ req = [p \in Reqs |-> Idle]
  /\ accepted = {} /\ replayed = {} /\ proven = {} /\ guesses = 0
  /\ answered = {} /\ reused = {}

-----------------------------------------------------------------------------
(***************************************************************************)
(* domain/totp.Credential and platform/totp.ValidateAt.                    *)
(***************************************************************************)
New(k) ==
  [secret |-> k, enabled |-> FALSE, setupToken |-> k, setupUntil |-> now + SetupPeriods,
   failed |-> 0, lockedUntil |-> 0, lastUsed |-> 0]

(* Fault: a new setup keeps enabled_at.                                     *)
BeginSetupStaysEnabled(c, k) ==
  [c EXCEPT !.secret = k, !.setupToken = k, !.setupUntil = now + SetupPeriods,
            !.failed = 0, !.lockedUntil = 0]

BeginSetup(c, k) ==
  [c EXCEPT !.secret = k, !.setupToken = k, !.setupUntil = now + SetupPeriods,
            !.enabled = FALSE, !.failed = 0, !.lockedUntil = 0]

(* Fault: the used setup token is not cleared.                              *)
EnableKeepsToken(c) == [c EXCEPT !.enabled = TRUE]

Enable(c) == [c EXCEPT !.enabled = TRUE, !.setupToken = 0, !.setupUntil = 0]

IsSetupTokenExpired(c) == c.setupUntil = 0 \/ now > c.setupUntil

IsLocked(c) == now < c.lockedUntil

(* Fault: the counter is not reset when the lockout starts.                 *)
RecordFailureKeepsCount(c) ==
  IF c.failed + 1 >= OTPMaxAttempts
  THEN [c EXCEPT !.failed = @ + 1, !.lockedUntil = now + LockoutPeriods]
  ELSE [c EXCEPT !.failed = @ + 1]

(* Fault: the lockout starts one failure late.                              *)
RecordFailureLate(c) ==
  IF c.failed + 1 > OTPMaxAttempts
  THEN [c EXCEPT !.failed = 0, !.lockedUntil = now + LockoutPeriods]
  ELSE [c EXCEPT !.failed = @ + 1]

RecordFailure(c) ==
  IF c.failed + 1 >= OTPMaxAttempts
  THEN [c EXCEPT !.failed = 0, !.lockedUntil = now + LockoutPeriods]
  ELSE [c EXCEPT !.failed = @ + 1]

(* Fault: only codes of earlier periods count as consumed.                  *)
IsCodeOlder(c, t) == t < c.lastUsed

IsCodeConsumed(c, t) == t <= c.lastUsed

MarkCodeUsed(c, t) == [c EXCEPT !.lastUsed = t]

RecordSuccess(c, t) == [MarkCodeUsed(c, t) EXCEPT !.failed = 0, !.lockedUntil = 0]

(* The periods whose code for the secret is valid now: the current one and  *)
(* the next (forwardSkew), never an earlier one.                            *)
ValidateAt == {now, now + 1}

-----------------------------------------------------------------------------
At(p, l)   == req[p].pc = l
Goto(p, l) == req' = [req EXCEPT ![p].pc = l]
Return(p)  == req' = [req EXCEPT ![p] = Idle]

(* credentials.GetByUserID: the request takes a copy of the row.             *)
GetByUserID(p, l) == req' = [req EXCEPT ![p].pc = l, ![p].cred = cred]

(* credentials.Create: the primary key refuses a second row.                *)
CreateCredential(k) == cred = NoCred /\ cred' = New(k)

(* credentials.Update: every column is replaced by the copy's, whatever the  *)
(* row holds by now.                                                        *)
Update(c) == cred' = c

Start(p, op, l, c, ch) ==
  /\ op \in Ops
  /\ At(p, "idle")
  /\ req' = [req EXCEPT ![p] = [op |-> op, pc |-> l, cred |-> c, challenge |-> ch]]

(***************************************************************************)
(* domain/loginchallenge and its repository.                               *)
(***************************************************************************)
NewChallenge == [state |-> "open", until |-> now + LoginPeriods]

(* Neither IsConsumed nor IsExpired.                                        *)
IsUsable(c) == c.state = "open" /\ now <= c.until

CreateChallenge(ch) ==
  /\ challenge[ch].state = "absent"
  /\ challenge' = [challenge EXCEPT ![ch] = NewChallenge]

(* One UPDATE; whether it changed a row is not looked at.                   *)
ConsumeChallenge(ch) == challenge' = [challenge EXCEPT ![ch].state = "consumed"]

(* A code of the credential for period t is accepted.                       *)
Accept(c, t) ==
  /\ accepted' = accepted \cup {<<c.secret, t>>}
  /\ replayed' = IF \E a \in accepted : t <= a[2]
                 THEN replayed \cup {<<c.secret, t>>} ELSE replayed

-----------------------------------------------------------------------------
(***************************************************************************)
(* Register and Login.                                                     *)
(***************************************************************************)
(* users.Create: the unique index on the email refuses a second row.        *)
CreateUser == ~registered /\ registered' = TRUE

Register(p) ==
  /\ CreateUser
  /\ Start(p, "register", "setupRead", NoCred, NoChallenge)
  /\ UNCHANGED <<now, cred, secrets, challenge, session, history>>

Login(p) ==
  /\ registered
  /\ Start(p, "login", "login", NoCred, NoChallenge)
  /\ UNCHANGED <<now, registered, cred, secrets, challenge, session, history>>

(* Fault: a present credential row always restarts the setup.               *)
LoginReadIgnoresEnabled(p) ==
  /\ At(p, "login")
  /\ Goto(p, "setupRead")
  /\ UNCHANGED <<now, registered, cred, secrets, challenge, session, history>>

(* Login's own read of the credential decides between the OTP challenge and *)
(* a new setup; the setup reads the row again.                              *)
LoginRead(p) ==
  /\ At(p, "login")
  /\ \/ cred # NoCred /\ cred.enabled /\ Goto(p, "challenge")
     \/ cred = NoCred /\ Goto(p, "setupRead")
     \/ cred # NoCred /\ ~cred.enabled /\ Goto(p, "setupRead")
  /\ UNCHANGED <<now, registered, cred, secrets, challenge, session, history>>

IssueLoginChallenge(p) ==
  /\ At(p, "challenge")
  /\ \E ch \in Challenges : CreateChallenge(ch)
  /\ Return(p)
  /\ UNCHANGED <<now, registered, cred, secrets, session, history>>

SetupRead(p) ==
  /\ At(p, "setupRead")
  /\ GetByUserID(p, "setupWrite")
  /\ UNCHANGED <<now, registered, cred, secrets, challenge, session, history>>

(* Create when the read found no row (the primary key refuses a second      *)
(* one), otherwise BeginSetup on the copy and Update.                       *)
SetupWrite(p) ==
  LET k == secrets + 1
      c == req[p].cred
  IN
  /\ At(p, "setupWrite")
  /\ k \in Secrets
  /\ \/ c = NoCred /\ CreateCredential(k) /\ secrets' = k /\ guesses' = 0
     \/ c = NoCred /\ cred # NoCred /\ UNCHANGED <<cred, secrets, guesses>>
     \/ c # NoCred /\ Update(BeginSetup(c, k)) /\ secrets' = k /\ guesses' = 0
  /\ Return(p)
  /\ UNCHANGED <<now, registered, challenge, session,
                 accepted, replayed, proven, answered, reused>>

-----------------------------------------------------------------------------
(***************************************************************************)
(* SetupVerifyOTP, LoginVerifyOTP, and the OTP gate of ChangePassword and  *)
(* DeleteAccount ("sensitive").  Lookups that find nothing usable return   *)
(* without a change.                                                       *)
(***************************************************************************)
SetupVerifyOTP(p) ==
  /\ cred # NoCred /\ cred.setupToken # 0 /\ ~IsSetupTokenExpired(cred)
  /\ Start(p, "setup", "verify", cred, NoChallenge)
  /\ UNCHANGED <<now, registered, cred, secrets, challenge, session, history>>

LoginVerifyOTP(p, ch) ==
  /\ IsUsable(challenge[ch])
  /\ Start(p, "verify", "read", NoCred, ch)
  /\ UNCHANGED <<now, registered, cred, secrets, challenge, session, history>>

Sensitive(p) ==
  /\ session
  /\ Start(p, "sensitive", "read", NoCred, NoChallenge)
  /\ UNCHANGED <<now, registered, cred, secrets, challenge, session, history>>

ReadCredential(p) ==
  /\ At(p, "read")
  /\ GetByUserID(p, "verify")
  /\ UNCHANGED <<now, registered, cred, secrets, challenge, session, history>>

(* verifyOTP on a copy that is locked: no change.                           *)
VerifyLocked(p) ==
  /\ At(p, "verify") /\ IsLocked(req[p].cred)
  /\ Return(p)
  /\ UNCHANGED <<now, registered, cred, secrets, challenge, session, history>>

(* verifyOTP with a code that matches no period, or a consumed one.         *)
VerifyFails(p) ==
  LET c == RecordFailure(req[p].cred) IN
  /\ At(p, "verify") /\ ~IsLocked(req[p].cred)
  /\ Update(c)
  /\ guesses' = IF IsLocked(c) THEN 0
                ELSE IF guesses < OTPMaxAttempts THEN guesses + 1 ELSE guesses
  /\ Return(p)
  /\ UNCHANGED <<now, registered, secrets, challenge, session,
                 accepted, replayed, proven, answered, reused>>

(* Where a handler goes after verifyOTP: the sessions of the login paths    *)
(* are issued next, the sensitive operations leave this module.             *)
Verified(p, c) ==
  req' = [req EXCEPT ![p] = IF @.op = "sensitive" THEN Idle
                            ELSE [@ EXCEPT !.pc = "issue", !.cred = c]]

VerifySucceeds(p, t) ==
  LET c == req[p].cred IN
  /\ At(p, "verify") /\ ~IsLocked(c)
  /\ t \in ValidateAt /\ ~IsCodeConsumed(c, t)
  /\ Update(RecordSuccess(c, t))
  /\ Accept(c, t)
  /\ proven' = IF req[p].op = "setup" THEN proven \cup {c.secret} ELSE proven
  /\ guesses' = 0
  /\ Verified(p, RecordSuccess(c, t))
  /\ UNCHANGED <<now, registered, secrets, challenge, session, answered, reused>>

(* The demo code has no period: it skips the replay check and stores 0, so  *)
(* the row no longer knows of any code accepted before.                     *)
VerifyDemo(p) ==
  LET c == req[p].cred IN
  /\ Demo
  /\ At(p, "verify") /\ ~IsLocked(c)
  /\ Update(RecordSuccess(c, 0))
  /\ proven' = IF req[p].op = "setup" THEN proven \cup {c.secret} ELSE proven
  /\ guesses' = 0
  /\ Verified(p, RecordSuccess(c, 0))
  /\ accepted' = {}
  /\ UNCHANGED <<now, registered, secrets, challenge, session,
                 replayed, answered, reused>>

(* issueSession (module Sessions).                                          *)
IssueSession(p) ==
  /\ At(p, "issue")
  /\ Goto(p, "finish")
  /\ UNCHANGED <<now, registered, cred, secrets, challenge, session, history>>

FinishSetup(p) ==
  /\ At(p, "finish") /\ req[p].op = "setup"
  /\ Update(Enable(req[p].cred))
  /\ session' = TRUE
  /\ Return(p)
  /\ UNCHANGED <<now, registered, secrets, challenge, history>>

(* Fault: the challenge is not consumed.                                    *)
FinishLoginKeepsChallenge(p) ==
  LET ch == req[p].challenge IN
  /\ At(p, "finish") /\ req[p].op = "verify"
  /\ session' = TRUE
  /\ answered' = answered \cup {ch}
  /\ reused' = IF ch \in answered THEN reused \cup {ch} ELSE reused
  /\ Return(p)
  /\ UNCHANGED <<now, registered, cred, secrets, challenge,
                 accepted, replayed, proven, guesses>>

FinishLogin(p) ==
  LET ch == req[p].challenge IN
  /\ At(p, "finish") /\ req[p].op = "verify"
  /\ ConsumeChallenge(ch)
  /\ session' = TRUE
  /\ answered' = answered \cup {ch}
  /\ reused' = IF ch \in answered THEN reused \cup {ch} ELSE reused
  /\ Return(p)
  /\ UNCHANGED <<now, registered, cred, secrets, accepted, replayed, proven, guesses>>

-----------------------------------------------------------------------------
(***************************************************************************)
(* The credential side of VerifyPasswordResetOTP (the flow's side is in    *)
(* PasswordReset): a read of an enabled credential, and a write of the     *)
(* copy when a real code is accepted.                                      *)
(***************************************************************************)
ResetRead(p) ==
  /\ cred # NoCred /\ cred.enabled
  /\ Start(p, "reset", "resetVerify", cred, NoChallenge)
  /\ UNCHANGED <<now, registered, cred, secrets, challenge, session, history>>

ResetSucceeds(p, t) ==
  LET c == req[p].cred IN
  /\ At(p, "resetVerify")
  /\ t \in ValidateAt /\ ~IsCodeConsumed(c, t)
  /\ Update(MarkCodeUsed(c, t))
  /\ Accept(c, t)
  /\ Return(p)
  /\ UNCHANGED <<now, registered, secrets, challenge, session,
                 proven, guesses, answered, reused>>

-----------------------------------------------------------------------------
(* A call fails, the context times out or the server stops; also the ways   *)
(* a reset attempt ends without a write of the credential.                  *)
Fail(p) ==
  /\ ~At(p, "idle")
  /\ Return(p)
  /\ UNCHANGED <<now, registered, cred, secrets, challenge, session, history>>

Tick ==
  /\ now < MaxPeriod
  /\ now' = now + 1
  /\ UNCHANGED <<registered, cred, secrets, challenge, session, req, history>>

Step(p) ==
  \/ Register(p) \/ Login(p) \/ LoginRead(p) \/ IssueLoginChallenge(p)
  \/ SetupRead(p) \/ SetupWrite(p)
  \/ SetupVerifyOTP(p) \/ Sensitive(p) \/ ReadCredential(p)
  \/ \E ch \in Challenges : LoginVerifyOTP(p, ch)
  \/ VerifyLocked(p) \/ VerifyFails(p) \/ VerifyDemo(p)
  \/ \E t \in 1..(MaxPeriod + 1) : VerifySucceeds(p, t) \/ ResetSucceeds(p, t)
  \/ IssueSession(p) \/ FinishSetup(p) \/ FinishLogin(p)
  \/ ResetRead(p) \/ Fail(p)

Next == Tick \/ \E p \in Reqs : Step(p)

Spec == Init /\ [][Next]_vars

-----------------------------------------------------------------------------
(***************************************************************************)
(* Properties.                                                             *)
(***************************************************************************)

(* The shape of the state; the stored failure count stays below             *)
(* OTPMaxAttempts.                                                          *)
TypeOK ==
  /\ now \in Periods
  /\ registered \in BOOLEAN /\ session \in BOOLEAN
  /\ cred \in Credentials \cup {NoCred}
  /\ secrets \in 0..MaxSecrets
  /\ challenge \in [Challenges -> [state : {"absent", "open", "consumed"},
                                   until : 0..(MaxPeriod + LoginPeriods)]]
  /\ req \in [Reqs -> Requests]
  /\ accepted \subseteq Secrets \X (1..(MaxPeriod + 1))
  /\ replayed \subseteq Secrets \X (1..(MaxPeriod + 1))
  /\ proven \subseteq Secrets
  /\ guesses \in 0..OTPMaxAttempts
  /\ answered \subseteq Challenges /\ reused \subseteq answered

(* Whatever copies are written over each other, the credential that gates   *)
(* logins always holds a secret somebody proved with a setup code: a secret *)
(* that was only generated is never enabled.                                *)
EnabledSecretProven ==
  cred # NoCred /\ cred.enabled => cred.secret \in proven

(* An enabled credential has no setup token left that could be presented    *)
(* again, and one that is not enabled can always be completed with the      *)
(* token stored in it or restarted by Login.                                *)
EnabledXorSetupToken ==
  cred # NoCred => (cred.enabled <=> cred.setupToken = 0)

(* MarkCodeUsed: a code that was accepted, or the code of an earlier        *)
(* period, "can never authenticate again"; on the demo account, not before  *)
(* the demo code is used and overwrites the counter.                        *)
NoCodeReplayed == replayed = {}

(* OTPMaxAttempts failed codes start a lockout: never are as many rejected  *)
(* without one.                                                             *)
GuessesBounded == guesses < OTPMaxAttempts

(* LoginVerifyOTP: a login challenge is single-use; at most one session is  *)
(* returned for it.                                                         *)
ChallengeSingleUse == reused = {}

(* Login starts a new setup only where "2FA never completed": nothing takes *)
(* an enabled credential back to the setup state, not even a login of its   *)
(* owner.  This contradicts beginTOTPSetup, "a lost authenticator can       *)
(* always be safely restarted by whoever can prove they hold the account's  *)
(* current password", and BeginSetup in credential.go, "(or lost their      *)
(* authenticator) start over": the code gives an enabled user no such way.  *)
EnrolmentIsPermanent ==
  [][cred # NoCred /\ cred.enabled => cred'.enabled]_vars

(* VerifyPasswordResetOTP "must never touch FailedAttempts/LockedUntil":    *)
(* no step of a reset request changes the account's failure count or        *)
(* lockout, whatever other requests wrote since it read the credential.     *)
ResetSparesLockout ==
  [][\A p \in Reqs :
       req[p].op = "reset" /\ req'[p] # req[p] /\ cred # NoCred =>
         cred'.failed = cred.failed /\ cred'.lockedUntil = cred.lockedUntil]_vars
=============================================================================
