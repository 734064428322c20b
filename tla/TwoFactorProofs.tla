-------------------------- MODULE TwoFactorProofs --------------------------
(***************************************************************************)
(* Proofs about TwoFactor, for every number of concurrent requests, every  *)
(* attempt cap, every lifetime and every bound on time and secrets.        *)
(***************************************************************************)
EXTENDS TwoFactor, TLAPS

(***************************************************************************)
(* The inductive invariant.  Handlers overwrite the row with copies that   *)
(* may be stale, so the properties of the row have to hold of every copy   *)
(* as well: a copy that says enabled names a proven secret and has no      *)
(* setup token, and a setup that is about to enable its copy has had a     *)
(* code accepted for the secret in it.                                     *)
(***************************************************************************)
Sound(c, P) ==
  /\ c.enabled => c.secret \in P
  /\ c.enabled <=> c.setupToken = 0

RowSound == cred # NoCred => Sound(cred, proven)

(* A challenge or a session exists only for an account with a credential.   *)
CredentialExists ==
  cred = NoCred => ~session /\ \A ch \in Challenges : challenge[ch].state = "absent"

CopySound(p) ==
  LET r == req[p] IN
  /\ r.cred # NoCred => Sound(r.cred, proven)
  /\ r.pc \in {"read", "challenge", "verify", "issue", "finish", "resetVerify"} => cred # NoCred
  /\ r.pc \in {"verify", "issue", "finish", "resetVerify"} => r.cred # NoCred
  /\ r.pc \in {"issue", "finish"} /\ r.op = "setup" => r.cred.secret \in proven
  /\ r.op = "verify" => r.challenge \in Challenges

IInv ==
  /\ TypeOK
  /\ RowSound
  /\ CredentialExists
  /\ \A p \in Reqs : CopySound(p)

-----------------------------------------------------------------------------
(***************************************************************************)
(* The operations of totp.Credential keep a credential well-formed.        *)
(***************************************************************************)

(* New and BeginSetup leave a pending setup.                                *)
LEMMA SetupOK ==
  ASSUME now \in Periods, NEW k \in Secrets
  PROVE  /\ New(k) \in Credentials /\ Sound(New(k), proven)
         /\ \A c \in Credentials : BeginSetup(c, k) \in Credentials /\ Sound(BeginSetup(c, k), proven)
<1> USE TwoFactorAssumption
<1>1. now + SetupPeriods \in 0..(MaxPeriod + SetupPeriods)
  BY DEF Periods
<1>2. k # 0
  BY DEF Secrets
<1>3. /\ 0 \in 0..(OTPMaxAttempts - 1) /\ 0 \in 0..(MaxPeriod + LockoutPeriods)
      /\ 0 \in 0..(MaxPeriod + 1)
  OBVIOUS
<1>4. New(k) \in Credentials /\ Sound(New(k), proven)
  BY <1>1, <1>2, <1>3 DEF New, Credentials, Sound
<1>5. ASSUME NEW c \in Credentials
      PROVE  BeginSetup(c, k) \in Credentials /\ Sound(BeginSetup(c, k), proven)
  BY <1>1, <1>2, <1>3 DEF BeginSetup, Credentials, Sound
<1> QED BY <1>4, <1>5

(* Enable on a copy whose secret was proven.                                *)
LEMMA EnableOK ==
  ASSUME NEW c \in Credentials, c.secret \in proven
  PROVE  Enable(c) \in Credentials /\ Sound(Enable(c), proven)
<1>1. 0 \in 0..(MaxPeriod + SetupPeriods)
  BY TwoFactorAssumption
<1> QED BY <1>1 DEF Enable, Credentials, Sound

(* RecordFailure stays below the cap, by starting the lockout at it.        *)
LEMMA FailureOK ==
  ASSUME now \in Periods, NEW c \in Credentials, Sound(c, proven)
  PROVE  RecordFailure(c) \in Credentials /\ Sound(RecordFailure(c), proven)
<1> USE TwoFactorAssumption
<1>1. now + LockoutPeriods \in 0..(MaxPeriod + LockoutPeriods) /\ 0 \in 0..(OTPMaxAttempts - 1)
  BY DEF Periods
<1>2. CASE c.failed + 1 >= OTPMaxAttempts
  BY <1>1, <1>2 DEF RecordFailure, Credentials, Sound
<1>3. CASE ~(c.failed + 1 >= OTPMaxAttempts)
  <2>1. c.failed + 1 \in 0..(OTPMaxAttempts - 1)
    BY <1>3 DEF Credentials
  <2> QED BY <1>3, <2>1 DEF RecordFailure, Credentials, Sound
<1> QED BY <1>2, <1>3

(* RecordSuccess and MarkCodeUsed change neither secret nor enrolment.      *)
LEMMA SuccessOK ==
  ASSUME NEW c \in Credentials, Sound(c, proven), NEW t \in 0..(MaxPeriod + 1)
  PROVE  /\ RecordSuccess(c, t) \in Credentials /\ Sound(RecordSuccess(c, t), proven)
         /\ MarkCodeUsed(c, t) \in Credentials /\ Sound(MarkCodeUsed(c, t), proven)
         /\ RecordSuccess(c, t).secret = c.secret
<1>1. 0 \in 0..(OTPMaxAttempts - 1) /\ 0 \in 0..(MaxPeriod + LockoutPeriods)
  BY TwoFactorAssumption
<1> QED BY <1>1 DEF RecordSuccess, MarkCodeUsed, Credentials, Sound

-----------------------------------------------------------------------------
(* A request that moves on keeps what it holds.                             *)
LEMMA GotoType ==
  ASSUME req \in [Reqs -> Requests], NEW p \in Reqs,
         NEW l \in {"challenge", "setupRead", "finish"}, Goto(p, l)
  PROVE  /\ req' \in [Reqs -> Requests]
         /\ \A q \in Reqs : q # p => req'[q] = req[q]
         /\ req'[p] = [req[p] EXCEPT !.pc = l]
BY DEF Goto, Requests

(* A request that ends.                                                     *)
LEMMA ReturnType ==
  ASSUME req \in [Reqs -> Requests], NEW p \in Reqs, Return(p)
  PROVE  /\ req' \in [Reqs -> Requests]
         /\ \A q \in Reqs : q # p => req'[q] = req[q]
         /\ req'[p] = Idle
BY DEF Return, Requests, Idle

(* A request that starts with a copy of nothing or of the row.              *)
LEMMA StartType ==
  ASSUME req \in [Reqs -> Requests], NEW p \in Reqs, NEW r \in Requests,
         req' = [req EXCEPT ![p] = r]
  PROVE  /\ req' \in [Reqs -> Requests]
         /\ \A q \in Reqs : q # p => req'[q] = req[q]
         /\ req'[p] = r
OBVIOUS

(* The copies of requests that do not move stay sound.                      *)
LEMMA CopyKept ==
  ASSUME NEW q \in Reqs, CopySound(q), req'[q] = req[q], proven \subseteq proven',
         cred # NoCred => cred' # NoCred
  PROVE  CopySound(q)'
BY DEF CopySound, Sound

(* An idle request holds nothing.                                           *)
LEMMA IdleSound ==
  ASSUME NEW p \in Reqs, req'[p] = Idle
  PROVE  CopySound(p)'
BY DEF CopySound, Idle

-----------------------------------------------------------------------------
(* Steps that read: the row and the history stay as they are and one        *)
(* request moves to a sound state.                                          *)
LEMMA ReadStep ==
  ASSUME IInv, NEW p \in Reqs, req' \in [Reqs -> Requests],
         \A q \in Reqs : q # p => req'[q] = req[q],
         CopySound(p)', registered' \in BOOLEAN,
         UNCHANGED <<now, cred, secrets, challenge, session, history>>
  PROVE  IInv'
<1>1. TypeOK'
  BY DEF IInv, TypeOK, history
<1>2. RowSound' /\ CredentialExists'
  BY DEF IInv, RowSound, CredentialExists, Sound, history
<1>3. \A q \in Reqs : q # p => CopySound(q)'
  BY CopyKept DEF IInv, history
<1> QED BY <1>1, <1>2, <1>3 DEF IInv

(* Register and Login up to the choice between challenge and setup.         *)
LEMMA LoginSteps ==
  ASSUME IInv, NEW p \in Reqs, Register(p) \/ Login(p) \/ LoginRead(p) \/ SetupRead(p)
  PROVE  IInv'
<1>0. TypeOK /\ CopySound(p) /\ RowSound
  BY DEF IInv
<1>1. CASE Register(p)
  <2> DEFINE r == [op |-> "register", pc |-> "setupRead", cred |-> NoCred, challenge |-> NoChallenge]
  <2>0. r \in Requests
    BY <1>0 DEF Requests, AllOps, TypeOK
  <2>1. /\ req' \in [Reqs -> Requests]
        /\ \A q \in Reqs : q # p => req'[q] = req[q]
        /\ req'[p] = r
    BY <1>0, <1>1, <2>0, StartType DEF TypeOK, Register, CreateUser, Start
  <2>2. CopySound(p)'
    BY <2>1 DEF CopySound
  <2> QED BY <1>1, <2>1, <2>2, ReadStep DEF Register, CreateUser
<1>2. CASE Login(p)
  <2> DEFINE r == [op |-> "login", pc |-> "login", cred |-> NoCred, challenge |-> NoChallenge]
  <2>0. r \in Requests
    BY <1>0 DEF Requests, AllOps, TypeOK
  <2>1. /\ req' \in [Reqs -> Requests]
        /\ \A q \in Reqs : q # p => req'[q] = req[q]
        /\ req'[p] = r
    BY <1>0, <1>2, <2>0, StartType DEF TypeOK, Login, Start
  <2>2. CopySound(p)'
    BY <2>1 DEF CopySound
  <2> QED BY <1>0, <1>2, <2>1, <2>2, ReadStep DEF Login, TypeOK
<1>3. CASE LoginRead(p)
  <2>1. /\ UNCHANGED <<now, registered, cred, secrets, challenge, session, history>>
        /\ Goto(p, "setupRead") \/ (Goto(p, "challenge") /\ cred # NoCred)
    BY <1>3 DEF LoginRead
  <2>2. /\ req' \in [Reqs -> Requests]
        /\ \A q \in Reqs : q # p => req'[q] = req[q]
        /\ \/ req'[p] = [req[p] EXCEPT !.pc = "setupRead"]
           \/ req'[p] = [req[p] EXCEPT !.pc = "challenge"] /\ cred # NoCred
    BY <1>0, <2>1, GotoType DEF TypeOK
  <2>3. req[p] \in Requests
    BY <1>0 DEF TypeOK
  <2>4. CopySound(p)'
    BY <1>0, <2>1, <2>2, <2>3 DEF CopySound, Sound, Requests, history
  <2> QED BY <1>0, <2>1, <2>2, <2>4, ReadStep DEF TypeOK
<1>4. CASE SetupRead(p)
  <2>1. /\ UNCHANGED <<now, registered, cred, secrets, challenge, session, history>>
        /\ req' = [req EXCEPT ![p] = [req[p] EXCEPT !.pc = "setupWrite", !.cred = cred]]
    BY <1>0, <1>4 DEF SetupRead, GetByUserID, TypeOK, Requests
  <2>2. req[p] \in Requests /\ cred \in Credentials \cup {NoCred}
    BY <1>0 DEF TypeOK
  <2>3. [req[p] EXCEPT !.pc = "setupWrite", !.cred = cred] \in Requests
    BY <2>2 DEF Requests
  <2>4. /\ req' \in [Reqs -> Requests]
        /\ \A q \in Reqs : q # p => req'[q] = req[q]
        /\ req'[p] = [req[p] EXCEPT !.pc = "setupWrite", !.cred = cred]
    BY <1>0, <2>1, <2>3 DEF TypeOK
  <2>5. CopySound(p)'
    BY <1>0, <2>1, <2>2, <2>4 DEF CopySound, RowSound, Sound, Requests, history
  <2> QED BY <1>0, <2>1, <2>4, <2>5, ReadStep DEF TypeOK
<1> QED BY <1>1, <1>2, <1>3, <1>4

(* The lookups of the verifying handlers.                                   *)
LEMMA LookupSteps ==
  ASSUME IInv, NEW p \in Reqs,
         \/ SetupVerifyOTP(p) \/ Sensitive(p) \/ ReadCredential(p) \/ ResetRead(p)
         \/ \E ch \in Challenges : LoginVerifyOTP(p, ch)
  PROVE  IInv'
<1>0. TypeOK /\ CopySound(p) /\ RowSound /\ CredentialExists
  BY DEF IInv
<1>1. CASE SetupVerifyOTP(p)
  <2> DEFINE r == [op |-> "setup", pc |-> "verify", cred |-> cred, challenge |-> NoChallenge]
  <2>0. r \in Requests
    BY <1>0 DEF Requests, AllOps, TypeOK
  <2>1. /\ req' \in [Reqs -> Requests]
        /\ \A q \in Reqs : q # p => req'[q] = req[q]
        /\ req'[p] = r
    BY <1>0, <1>1, <2>0, StartType DEF TypeOK, SetupVerifyOTP, Start
  <2>2. CopySound(p)'
    BY <1>0, <1>1, <2>1 DEF CopySound, RowSound, Sound, SetupVerifyOTP, history
  <2> QED BY <1>0, <1>1, <2>1, <2>2, ReadStep DEF SetupVerifyOTP, TypeOK
<1>2. CASE Sensitive(p)
  <2> DEFINE r == [op |-> "sensitive", pc |-> "read", cred |-> NoCred, challenge |-> NoChallenge]
  <2>0. r \in Requests
    BY <1>0 DEF Requests, AllOps, TypeOK
  <2>1. /\ req' \in [Reqs -> Requests]
        /\ \A q \in Reqs : q # p => req'[q] = req[q]
        /\ req'[p] = r
    BY <1>0, <1>2, <2>0, StartType DEF TypeOK, Sensitive, Start
  <2>2. CopySound(p)'
    BY <1>0, <1>2, <2>1 DEF CopySound, CredentialExists, Sensitive
  <2> QED BY <1>0, <1>2, <2>1, <2>2, ReadStep DEF Sensitive, TypeOK
<1>3. CASE ReadCredential(p)
  <2>1. /\ UNCHANGED <<now, registered, cred, secrets, challenge, session, history>>
        /\ req' = [req EXCEPT ![p] = [req[p] EXCEPT !.pc = "verify", !.cred = cred]]
        /\ req[p].pc = "read"
    BY <1>0, <1>3 DEF ReadCredential, GetByUserID, TypeOK, Requests, At
  <2>2. req[p] \in Requests /\ cred \in Credentials \cup {NoCred}
    BY <1>0 DEF TypeOK
  <2>3. [req[p] EXCEPT !.pc = "verify", !.cred = cred] \in Requests
    BY <2>2 DEF Requests
  <2>4. /\ req' \in [Reqs -> Requests]
        /\ \A q \in Reqs : q # p => req'[q] = req[q]
        /\ req'[p] = [req[p] EXCEPT !.pc = "verify", !.cred = cred]
    BY <1>0, <2>1, <2>3 DEF TypeOK
  <2>5. CopySound(p)'
    BY <1>0, <2>1, <2>2, <2>4 DEF CopySound, RowSound, Sound, Requests, history
  <2> QED BY <1>0, <2>1, <2>4, <2>5, ReadStep DEF TypeOK
<1>4. CASE ResetRead(p)
  <2> DEFINE r == [op |-> "reset", pc |-> "resetVerify", cred |-> cred, challenge |-> NoChallenge]
  <2>0. r \in Requests
    BY <1>0 DEF Requests, AllOps, TypeOK
  <2>1. /\ req' \in [Reqs -> Requests]
        /\ \A q \in Reqs : q # p => req'[q] = req[q]
        /\ req'[p] = r
    BY <1>0, <1>4, <2>0, StartType DEF TypeOK, ResetRead, Start
  <2>2. CopySound(p)'
    BY <1>0, <1>4, <2>1 DEF CopySound, RowSound, Sound, ResetRead, history
  <2> QED BY <1>0, <1>4, <2>1, <2>2, ReadStep DEF ResetRead, TypeOK
<1>5. ASSUME NEW ch \in Challenges, LoginVerifyOTP(p, ch) PROVE IInv'
  <2> DEFINE r == [op |-> "verify", pc |-> "read", cred |-> NoCred, challenge |-> ch]
  <2>0. r \in Requests
    BY <1>0 DEF Requests, AllOps, TypeOK
  <2>1. /\ req' \in [Reqs -> Requests]
        /\ \A q \in Reqs : q # p => req'[q] = req[q]
        /\ req'[p] = r
    BY <1>0, <1>5, <2>0, StartType DEF TypeOK, LoginVerifyOTP, Start
  <2>2. CopySound(p)'
    BY <1>0, <1>5, <2>1 DEF CopySound, CredentialExists, LoginVerifyOTP, IsUsable
  <2> QED BY <1>0, <1>5, <2>1, <2>2, ReadStep DEF LoginVerifyOTP, TypeOK
<1> QED BY <1>1, <1>2, <1>3, <1>4, <1>5

(* Returning early, and the issuing of the session itself.                  *)
LEMMA ReturnSteps ==
  ASSUME IInv, NEW p \in Reqs, VerifyLocked(p) \/ Fail(p) \/ IssueSession(p)
  PROVE  IInv'
<1>0. TypeOK /\ CopySound(p)
  BY DEF IInv
<1>1. CASE Return(p) /\ UNCHANGED <<now, registered, cred, secrets, challenge, session, history>>
  BY <1>0, <1>1, ReturnType, IdleSound, ReadStep DEF TypeOK
<1>2. CASE IssueSession(p)
  <2>1. /\ UNCHANGED <<now, registered, cred, secrets, challenge, session, history>>
        /\ Goto(p, "finish") /\ req[p].pc = "issue" /\ req[p] \in Requests
    BY <1>0, <1>2 DEF IssueSession, TypeOK, At
  <2>2. /\ req' \in [Reqs -> Requests]
        /\ \A q \in Reqs : q # p => req'[q] = req[q]
        /\ req'[p] = [req[p] EXCEPT !.pc = "finish"]
    BY <1>0, <2>1, GotoType DEF TypeOK
  <2>3. CopySound(p)'
    BY <1>0, <2>1, <2>2 DEF CopySound, Sound, Requests, history
  <2> QED BY <1>0, <2>1, <2>2, <2>3, ReadStep DEF TypeOK
<1> QED BY <1>1, <1>2 DEF VerifyLocked, Fail

-----------------------------------------------------------------------------
(* Steps that write the credential: a sound row replaces the old one.       *)
LEMMA WriteStep ==
  ASSUME IInv, NEW p \in Reqs, req' \in [Reqs -> Requests],
         \A q \in Reqs : q # p => req'[q] = req[q],
         CopySound(p)', cred' \in Credentials, Sound(cred', proven'),
         proven \subseteq proven', proven' \subseteq Secrets,
         secrets' \in 0..MaxSecrets, session' \in BOOLEAN,
         accepted' \subseteq Secrets \X (1..(MaxPeriod + 1)),
         replayed' \subseteq Secrets \X (1..(MaxPeriod + 1)),
         guesses' \in 0..OTPMaxAttempts,
         UNCHANGED <<now, registered, challenge, answered, reused>>
  PROVE  IInv'
<1>0. cred' # NoCred
  BY TwoFactorAssumption
<1>1. TypeOK'
  BY DEF IInv, TypeOK
<1>2. RowSound' /\ CredentialExists'
  BY <1>0 DEF RowSound, CredentialExists
<1>3. \A q \in Reqs : q # p => CopySound(q)'
  BY <1>0, CopyKept DEF IInv
<1> QED BY <1>1, <1>2, <1>3 DEF IInv

(* beginTOTPSetup's write.                                                  *)
LEMMA SetupStep ==
  ASSUME IInv, NEW p \in Reqs, SetupWrite(p)
  PROVE  IInv'
<1> USE TwoFactorAssumption
<1>0. TypeOK /\ req[p] \in Requests /\ now \in Periods
  BY DEF IInv, TypeOK
<1>1. /\ req' \in [Reqs -> Requests]
      /\ \A q \in Reqs : q # p => req'[q] = req[q]
      /\ req'[p] = Idle /\ CopySound(p)'
  BY <1>0, ReturnType, IdleSound DEF Update, SetupWrite, CreateCredential, TypeOK
<1>2. CASE UNCHANGED <<cred, secrets, guesses>>
  BY <1>0, <1>1, <1>2, ReadStep DEF Update, SetupWrite, CreateCredential, TypeOK, history
<1>3. CASE ~UNCHANGED <<cred, secrets, guesses>>
  <2>1. PICK k \in Secrets : /\ secrets' = k /\ guesses' = 0
                             /\ \/ cred' = New(k)
                                \/ cred' = BeginSetup(req[p].cred, k) /\ req[p].cred \in Credentials
    BY <1>0, <1>3 DEF Update, SetupWrite, CreateCredential, Requests
  <2>2. cred' \in Credentials /\ Sound(cred', proven)
    BY <1>0, <2>1, SetupOK
  <2>3. proven' = proven
    BY DEF Update, SetupWrite, CreateCredential
  <2>4. Sound(cred', proven')
    BY <2>2, <2>3 DEF Sound
  <2>5. secrets' \in 0..MaxSecrets /\ guesses' \in 0..OTPMaxAttempts
    BY <2>1 DEF Secrets
  <2> QED BY <1>0, <1>1, <2>2, <2>3, <2>4, <2>5, WriteStep DEF Update, SetupWrite, CreateCredential, TypeOK
<1> QED BY <1>2, <1>3

(* verifyOTP with a code that is rejected.                                  *)
LEMMA VerifyFailsStep ==
  ASSUME IInv, NEW p \in Reqs, VerifyFails(p)
  PROVE  IInv'
<1> USE TwoFactorAssumption
<1>0. TypeOK /\ req[p] \in Requests /\ now \in Periods /\ CopySound(p)
  BY DEF IInv, TypeOK
<1>1. /\ req' \in [Reqs -> Requests]
      /\ \A q \in Reqs : q # p => req'[q] = req[q]
      /\ req'[p] = Idle /\ CopySound(p)'
  BY <1>0, ReturnType, IdleSound DEF Update, VerifyFails, TypeOK
<1>2. req[p].cred \in Credentials /\ Sound(req[p].cred, proven)
  BY <1>0 DEF Update, VerifyFails, CopySound, Requests, At
<1>3. cred' \in Credentials /\ Sound(cred', proven) /\ proven' = proven
  BY <1>0, <1>2, FailureOK DEF Update, VerifyFails
<1>4. Sound(cred', proven')
  BY <1>3 DEF Sound
<1>5. guesses' \in 0..OTPMaxAttempts
  BY <1>0 DEF Update, VerifyFails, TypeOK
<1> QED BY <1>0, <1>1, <1>3, <1>4, <1>5, WriteStep DEF Update, VerifyFails, TypeOK

(* A handler goes on with the copy that verifyOTP has updated.              *)
LEMMA VerifiedType ==
  ASSUME IInv, NEW p \in Reqs, At(p, "verify"), NEW c \in Credentials, Verified(p, c),
         Sound(c, proven'), cred' # NoCred, req[p].op = "setup" => c.secret \in proven'
  PROVE  /\ req' \in [Reqs -> Requests]
         /\ \A q \in Reqs : q # p => req'[q] = req[q]
         /\ CopySound(p)'
<1>0. req \in [Reqs -> Requests] /\ req[p] \in Requests /\ CopySound(p)
  BY DEF IInv, TypeOK
<1>1. CASE req[p].op = "sensitive"
  <2>1. req' = [req EXCEPT ![p] = Idle]
    BY <1>1 DEF Verified
  <2>2. Return(p)
    BY <2>1 DEF Return
  <2> QED BY <1>0, <2>2, ReturnType, IdleSound
<1>2. CASE req[p].op # "sensitive"
  <2>1. req' = [req EXCEPT ![p] = [req[p] EXCEPT !.pc = "issue", !.cred = c]]
    BY <1>0, <1>2 DEF Verified
  <2>2. [req[p] EXCEPT !.pc = "issue", !.cred = c] \in Requests
    BY <1>0 DEF Requests
  <2>3. /\ req' \in [Reqs -> Requests]
        /\ \A q \in Reqs : q # p => req'[q] = req[q]
        /\ req'[p] = [req[p] EXCEPT !.pc = "issue", !.cred = c]
    BY <1>0, <2>1, <2>2
  <2>4. /\ req'[p].op = req[p].op /\ req'[p].pc = "issue" /\ req'[p].cred = c
        /\ req'[p].challenge = req[p].challenge
    BY <1>0, <2>3 DEF Requests
  <2>5. c # NoCred
    BY TwoFactorAssumption
  <2>6. CopySound(p)'
    BY <1>0, <2>4, <2>5 DEF CopySound, Sound
  <2> QED BY <2>3, <2>6
<1> QED BY <1>1, <1>2

(* verifyOTP with a code that is accepted, real or demo.                    *)
LEMMA VerifySucceedsStep ==
  ASSUME IInv, NEW p \in Reqs,
         VerifyDemo(p) \/ \E t \in 1..(MaxPeriod + 1) : VerifySucceeds(p, t)
  PROVE  IInv'
<1> USE TwoFactorAssumption
<1>0. TypeOK /\ req[p] \in Requests /\ CopySound(p)
  BY DEF IInv, TypeOK
<1>1. At(p, "verify") /\ req[p].cred \in Credentials /\ Sound(req[p].cred, proven)
  BY <1>0 DEF Update, VerifyDemo, VerifySucceeds, CopySound, Requests, At
<1>2. PICK t \in 0..(MaxPeriod + 1) :
        /\ cred' = RecordSuccess(req[p].cred, t) /\ Verified(p, RecordSuccess(req[p].cred, t))
        /\ \/ accepted' = {} /\ replayed' = replayed
           \/ t > 0 /\ Accept(req[p].cred, t)
        /\ proven' = IF req[p].op = "setup" THEN proven \cup {req[p].cred.secret} ELSE proven
        /\ guesses' = 0
        /\ UNCHANGED <<now, registered, secrets, challenge, session, answered, reused>>
  <2>1. CASE VerifyDemo(p)
    <3>1. 0 \in 0..(MaxPeriod + 1)
      OBVIOUS
    <3> QED BY <2>1, <3>1 DEF Update, VerifyDemo
  <2>2. ASSUME NEW t \in 1..(MaxPeriod + 1), VerifySucceeds(p, t)
        PROVE  /\ t \in 0..(MaxPeriod + 1) /\ t > 0
               /\ cred' = RecordSuccess(req[p].cred, t)
               /\ Verified(p, RecordSuccess(req[p].cred, t))
               /\ Accept(req[p].cred, t)
               /\ proven' = IF req[p].op = "setup" THEN proven \cup {req[p].cred.secret} ELSE proven
               /\ guesses' = 0
               /\ UNCHANGED <<now, registered, secrets, challenge, session, answered, reused>>
    BY <2>2 DEF Update, VerifySucceeds
  <2> QED BY <2>1, <2>2
<1> DEFINE c == RecordSuccess(req[p].cred, t)
<1>3. c \in Credentials /\ Sound(c, proven) /\ c.secret = req[p].cred.secret
  BY <1>1, SuccessOK
<1> HIDE DEF c
<1>4. req[p].cred.secret \in Secrets
  BY <1>1 DEF Credentials
<1>5. /\ proven \subseteq proven' /\ proven' \subseteq Secrets
      /\ req[p].op = "setup" => c.secret \in proven'
  BY <1>0, <1>2, <1>3, <1>4 DEF TypeOK
<1>6. cred' = c /\ cred' # NoCred /\ Sound(c, proven')
  <2>1. cred' = c
    BY <1>2 DEF c
  <2>2. Sound(c, proven')
    BY <1>3, <1>5 DEF Sound
  <2> QED BY <1>3, <2>1, <2>2
<1>7. Verified(p, c)
  BY <1>2 DEF c
<1>8. /\ req' \in [Reqs -> Requests]
      /\ \A q \in Reqs : q # p => req'[q] = req[q]
      /\ CopySound(p)'
  BY <1>1, <1>3, <1>5, <1>6, <1>7, VerifiedType
<1>9. /\ accepted' \subseteq Secrets \X (1..(MaxPeriod + 1))
      /\ replayed' \subseteq Secrets \X (1..(MaxPeriod + 1))
  <2>1. CASE t > 0 /\ Accept(req[p].cred, t)
    <3>1. <<req[p].cred.secret, t>> \in Secrets \X (1..(MaxPeriod + 1))
      BY <1>4, <2>1
    <3> QED BY <1>0, <2>1, <3>1 DEF Accept, TypeOK
  <2> QED BY <1>0, <1>2, <2>1 DEF TypeOK
<1>10. guesses' \in 0..OTPMaxAttempts
  BY <1>2
<1> QED BY <1>0, <1>2, <1>3, <1>5, <1>6, <1>8, <1>9, <1>10, WriteStep DEF TypeOK

(* The end of SetupVerifyOTP, and the write of a reset.                     *)
LEMMA FinishSetupStep ==
  ASSUME IInv, NEW p \in Reqs, FinishSetup(p)
  PROVE  IInv'
<1>0. TypeOK /\ req[p] \in Requests /\ CopySound(p)
  BY DEF IInv, TypeOK
<1>1. /\ req' \in [Reqs -> Requests]
      /\ \A q \in Reqs : q # p => req'[q] = req[q]
      /\ req'[p] = Idle /\ CopySound(p)'
  BY <1>0, ReturnType, IdleSound DEF Update, FinishSetup, TypeOK
<1>2. req[p].cred \in Credentials /\ req[p].cred.secret \in proven
  BY <1>0 DEF Update, FinishSetup, CopySound, Requests, At
<1>3. /\ cred' \in Credentials /\ Sound(cred', proven)
      /\ UNCHANGED <<now, registered, secrets, challenge, history>> /\ session' = TRUE
  BY <1>2, EnableOK DEF Update, FinishSetup
<1> QED BY <1>0, <1>1, <1>3, WriteStep DEF TypeOK, history

(* VerifyPasswordResetOTP's write of the credential.                        *)
LEMMA ResetSucceedsStep ==
  ASSUME IInv, NEW p \in Reqs, NEW t \in 1..(MaxPeriod + 1), ResetSucceeds(p, t)
  PROVE  IInv'
<1> USE TwoFactorAssumption
<1>0. TypeOK /\ req[p] \in Requests /\ CopySound(p)
  BY DEF IInv, TypeOK
<1>1. /\ req' \in [Reqs -> Requests]
      /\ \A q \in Reqs : q # p => req'[q] = req[q]
      /\ req'[p] = Idle /\ CopySound(p)'
  BY <1>0, ReturnType, IdleSound DEF Update, ResetSucceeds, TypeOK
<1>2. req[p].cred \in Credentials /\ Sound(req[p].cred, proven)
  BY <1>0 DEF Update, ResetSucceeds, CopySound, Requests, At
<1>3. t \in 0..(MaxPeriod + 1)
  OBVIOUS
<1>4. /\ cred' \in Credentials /\ Sound(cred', proven)
      /\ UNCHANGED <<now, registered, secrets, challenge, session, proven, guesses, answered, reused>>
  BY <1>2, <1>3, SuccessOK DEF Update, ResetSucceeds
<1>5. /\ accepted' \subseteq Secrets \X (1..(MaxPeriod + 1))
      /\ replayed' \subseteq Secrets \X (1..(MaxPeriod + 1))
  <2>1. <<req[p].cred.secret, t>> \in Secrets \X (1..(MaxPeriod + 1))
    BY <1>2 DEF Credentials
  <2> QED BY <1>0, <2>1 DEF Update, ResetSucceeds, Accept, TypeOK
<1> QED BY <1>0, <1>1, <1>4, <1>5, WriteStep DEF TypeOK

-----------------------------------------------------------------------------
(* The writes of login_challenges, and the clock.                           *)
LEMMA ChallengeStep ==
  ASSUME IInv, NEW p \in Reqs, IssueLoginChallenge(p) \/ FinishLogin(p)
  PROVE  IInv'
<1> USE TwoFactorAssumption
<1>0. TypeOK /\ req[p] \in Requests /\ CopySound(p)
  BY DEF IInv, TypeOK
<1>1. /\ req' \in [Reqs -> Requests]
      /\ \A q \in Reqs : q # p => req'[q] = req[q]
      /\ req'[p] = Idle /\ CopySound(p)'
  BY <1>0, ReturnType, IdleSound DEF IssueLoginChallenge, CreateChallenge, NewChallenge, FinishLogin, ConsumeChallenge, TypeOK
<1>2. cred # NoCred /\ UNCHANGED <<now, registered, cred, secrets, accepted, replayed, proven, guesses>>
  BY <1>0 DEF IssueLoginChallenge, CreateChallenge, NewChallenge, FinishLogin, ConsumeChallenge, CopySound, At, history
<1>3. /\ challenge' \in [Challenges -> [state : {"absent", "open", "consumed"},
                                        until : 0..(MaxPeriod + LoginPeriods)]]
      /\ session' \in BOOLEAN /\ answered' \subseteq Challenges /\ reused' \subseteq answered'
  <2>1. CASE IssueLoginChallenge(p)
    <3>1. now + LoginPeriods \in 0..(MaxPeriod + LoginPeriods)
      BY <1>0 DEF TypeOK, Periods
    <3> QED BY <1>0, <2>1, <3>1 DEF IssueLoginChallenge, CreateChallenge, NewChallenge, TypeOK, history
  <2>2. CASE FinishLogin(p)
    <3>1. req[p].challenge \in Challenges
      BY <1>0, <2>2 DEF FinishLogin, ConsumeChallenge, CopySound
    <3> QED BY <1>0, <2>2, <3>1 DEF FinishLogin, ConsumeChallenge, TypeOK
  <2> QED BY <2>1, <2>2
<1>4. TypeOK'
  BY <1>0, <1>1, <1>2, <1>3 DEF TypeOK
<1>5. RowSound' /\ CredentialExists'
  BY <1>2 DEF IInv, RowSound, CredentialExists
<1>6. \A q \in Reqs : q # p => CopySound(q)'
  BY <1>1, <1>2, CopyKept DEF IInv
<1> QED BY <1>1, <1>4, <1>5, <1>6 DEF IInv

(* The clock moves on.                                                      *)
LEMMA TickStep ==
  ASSUME IInv, Tick
  PROVE  IInv'
<1>1. now' \in Periods
  BY TwoFactorAssumption DEF IInv, TypeOK, Tick, Periods
<1>2. TypeOK'
  BY <1>1 DEF IInv, TypeOK, Tick, history
<1>3. RowSound' /\ CredentialExists'
  BY DEF IInv, RowSound, CredentialExists, Sound, Tick, history
<1>4. \A q \in Reqs : CopySound(q)'
  BY DEF IInv, CopySound, Sound, Tick, history
<1> QED BY <1>2, <1>3, <1>4 DEF IInv

-----------------------------------------------------------------------------
(* Before the registration there is nothing.                                *)
LEMMA InvInit == Init => IInv
<1> SUFFICES ASSUME Init PROVE IInv
  OBVIOUS
<1> USE TwoFactorAssumption
<1>1. Idle \in Requests
  BY DEF Idle, Requests
<1>2. req \in [Reqs -> Requests]
  BY <1>1 DEF Init
<1>3. now \in Periods /\ secrets \in 0..MaxSecrets /\ guesses \in 0..OTPMaxAttempts
  BY DEF Init, Periods
<1>4. challenge \in [Challenges -> [state : {"absent", "open", "consumed"},
                                    until : 0..(MaxPeriod + LoginPeriods)]]
  BY DEF Init
<1>5. registered \in BOOLEAN /\ session \in BOOLEAN
  BY DEF Init
<1>6. TypeOK
  BY <1>2, <1>3, <1>4, <1>5 DEF Init, TypeOK
<1>7. RowSound /\ CredentialExists
  BY DEF Init, RowSound, CredentialExists
<1>8. \A p \in Reqs : CopySound(p)
  BY DEF Init, CopySound, Idle
<1> QED BY <1>6, <1>7, <1>8 DEF IInv

(* Every step keeps the invariant.                                          *)
LEMMA InvStep == IInv /\ [Next]_vars => IInv'
<1> SUFFICES ASSUME IInv, [Next]_vars PROVE IInv'
  OBVIOUS
<1>1. CASE UNCHANGED vars
  BY <1>1 DEF vars, IInv, TypeOK, RowSound, CredentialExists, CopySound, Sound
<1>2. ASSUME NEW p \in Reqs, Step(p) PROVE IInv'
  BY <1>2, LoginSteps, LookupSteps, ReturnSteps, SetupStep, VerifyFailsStep,
     VerifySucceedsStep, FinishSetupStep, ResetSucceedsStep, ChallengeStep DEF Step
<1> QED BY <1>1, <1>2, TickStep DEF Next

(* No interleaving of the handlers leaves the inductive invariant.          *)
THEOREM Invariance == Spec => []IInv
BY InvInit, InvStep, PTL DEF Spec

(* Rows and copies keep their shape; the stored failure count stays below   *)
(* the cap whatever stale copies are written back.                          *)
THEOREM TypeCorrect == Spec => []TypeOK
<1>1. IInv => TypeOK
  BY DEF IInv
<1> QED BY <1>1, Invariance, PTL

(* Under every interleaving, the credential that gates logins holds a       *)
(* secret for which SetupVerifyOTP accepted a code.                         *)
THEOREM EnabledIsProven == Spec => []EnabledSecretProven
<1>1. IInv => EnabledSecretProven
  BY DEF IInv, RowSound, Sound, EnabledSecretProven
<1> QED BY <1>1, Invariance, PTL

(* Under every interleaving, an enabled credential has no setup token and   *)
(* one that is not enabled can still be completed.                          *)
THEOREM EnabledOrPending == Spec => []EnabledXorSetupToken
<1>1. IInv => EnabledXorSetupToken
  BY DEF IInv, RowSound, Sound, EnabledXorSetupToken
<1> QED BY <1>1, Invariance, PTL

-----------------------------------------------------------------------------
(***************************************************************************)
(* What the handlers promise of codes, guesses, challenges and enrolment   *)
(* rests on a copy still being the row when it is written.  Nothing in the *)
(* code ensures that: run TwoFactorConcurrent leaves these properties      *)
(* out and run OtpReplayRace refutes the first.  They are proved here      *)
(* for the behaviours in which the account's requests do not overlap,      *)
(* however many requests there are and wherever they fail.                 *)
(***************************************************************************)
NoOverlap == \A p, q \in Reqs : ~At(p, "idle") /\ ~At(q, "idle") => p = q

(* The copy of a request is the row; a setup is of an account that is not   *)
(* enrolled; the challenge of a login is open until the login consumes it.  *)
Stage(p) ==
  LET r == req[p] IN
  /\ r.pc = "idle" => r = Idle
  /\ r.pc \in {"setupWrite", "verify", "issue", "finish", "resetVerify"} => r.cred = cred
  /\ r.pc \in {"login", "setupRead", "setupWrite"} => registered
  /\ r.pc \in {"setupRead", "setupWrite"} => cred = NoCred \/ ~cred.enabled
  /\ r.op = "verify" => challenge[r.challenge].state = "open"
  /\ r.op = "reset" => r.pc = "resetVerify"

(* The stored failure count is the number of rejected codes.  (Without a    *)
(* lockout the count is reset and no lockout starts.)                       *)
Counted ==
  LockoutPeriods # 0 => guesses = IF cred = NoCred THEN 0 ELSE cred.failed

(* The stored counter is at or past every accepted code.                    *)
Spent == replayed = {} /\ \A a \in accepted : cred # NoCred /\ a[2] <= cred.lastUsed

(* A challenge that was answered is consumed.                               *)
Answered == reused = {} /\ \A ch \in answered : challenge[ch].state = "consumed"

SerialInv ==
  /\ cred # NoCred => registered
  /\ Counted
  /\ Spent
  /\ Answered
  /\ \A p \in Reqs : Stage(p)

(* An idle request is at no stage.                                          *)
LEMMA IdleStage ==
  ASSUME NEW p \in Reqs, req'[p] = Idle
  PROVE  Stage(p)'
BY DEF Stage, Idle

(* A step that changes neither a row nor the history: one request moves to  *)
(* a stage it may be at.                                                    *)
LEMMA SerialRead ==
  ASSUME SerialInv, NEW p \in Reqs, Stage(p)',
         \A q \in Reqs : q # p => req'[q] = req[q],
         registered => registered', UNCHANGED <<cred, challenge, history>>
  PROVE  SerialInv'
<1>1. (cred # NoCred => registered)' /\ Counted' /\ Spent' /\ Answered'
  BY DEF SerialInv, Counted, Spent, Answered, history
<1>2. \A q \in Reqs : q # p => Stage(q)'
  BY DEF SerialInv, Stage
<1> QED BY <1>1, <1>2 DEF SerialInv

(* A step that writes a row: no other request is in progress.               *)
LEMMA SerialWrite ==
  ASSUME SerialInv, NoOverlap, NEW p \in Reqs, ~At(p, "idle"), Stage(p)',
         \A q \in Reqs : q # p => req'[q] = req[q],
         (cred # NoCred => registered)', Counted', Spent', Answered'
  PROVE  SerialInv'
<1>1. \A q \in Reqs : q # p => req'[q] = Idle
  BY DEF SerialInv, Stage, NoOverlap, At
<1>2. \A q \in Reqs : q # p => Stage(q)'
  BY <1>1, IdleStage
<1> QED BY <1>2 DEF SerialInv

(* A request starts.                                                        *)
LEMMA SerialStart ==
  ASSUME IInv, SerialInv, NEW p \in Reqs,
         \/ Register(p) \/ Login(p) \/ SetupVerifyOTP(p) \/ Sensitive(p) \/ ResetRead(p)
         \/ \E ch \in Challenges : LoginVerifyOTP(p, ch)
  PROVE  SerialInv'
<1>0. req \in [Reqs -> Requests] /\ (cred = NoCred => CredentialExists)
  BY DEF IInv, TypeOK
<1>1. CASE Register(p)
  <2>1. /\ registered' = TRUE /\ UNCHANGED <<cred, challenge, history>>
        /\ cred = NoCred
        /\ req' = [req EXCEPT ![p] = [op |-> "register", pc |-> "setupRead",
                                      cred |-> NoCred, challenge |-> NoChallenge]]
    BY <1>1 DEF Register, CreateUser, Start, SerialInv
  <2>2. Stage(p)'
    BY <1>0, <2>1 DEF Stage
  <2> QED BY <1>0, <2>1, <2>2, SerialRead
<1>2. CASE Login(p)
  <2>1. /\ registered /\ UNCHANGED <<registered, cred, challenge, history>>
        /\ req' = [req EXCEPT ![p] = [op |-> "login", pc |-> "login",
                                      cred |-> NoCred, challenge |-> NoChallenge]]
    BY <1>2 DEF Login, Start
  <2>2. Stage(p)'
    BY <1>0, <2>1 DEF Stage
  <2> QED BY <1>0, <2>1, <2>2, SerialRead
<1>3. CASE SetupVerifyOTP(p)
  <2>1. /\ UNCHANGED <<registered, cred, challenge, history>>
        /\ req' = [req EXCEPT ![p] = [op |-> "setup", pc |-> "verify",
                                      cred |-> cred, challenge |-> NoChallenge]]
    BY <1>3 DEF SetupVerifyOTP, Start
  <2>2. Stage(p)'
    BY <1>0, <2>1 DEF Stage
  <2> QED BY <1>0, <2>1, <2>2, SerialRead
<1>4. CASE Sensitive(p)
  <2>1. /\ UNCHANGED <<registered, cred, challenge, history>>
        /\ req' = [req EXCEPT ![p] = [op |-> "sensitive", pc |-> "read",
                                      cred |-> NoCred, challenge |-> NoChallenge]]
    BY <1>4 DEF Sensitive, Start
  <2>2. Stage(p)'
    BY <1>0, <2>1 DEF Stage
  <2> QED BY <1>0, <2>1, <2>2, SerialRead
<1>5. CASE ResetRead(p)
  <2>1. /\ UNCHANGED <<registered, cred, challenge, history>>
        /\ req' = [req EXCEPT ![p] = [op |-> "reset", pc |-> "resetVerify",
                                      cred |-> cred, challenge |-> NoChallenge]]
    BY <1>5 DEF ResetRead, Start
  <2>2. Stage(p)'
    BY <1>0, <2>1 DEF Stage
  <2> QED BY <1>0, <2>1, <2>2, SerialRead
<1>6. ASSUME NEW ch \in Challenges, LoginVerifyOTP(p, ch) PROVE SerialInv'
  <2>1. /\ UNCHANGED <<registered, cred, challenge, history>>
        /\ challenge[ch].state = "open"
        /\ req' = [req EXCEPT ![p] = [op |-> "verify", pc |-> "read",
                                      cred |-> NoCred, challenge |-> ch]]
    BY <1>6 DEF LoginVerifyOTP, Start, IsUsable
  <2>2. Stage(p)'
    BY <1>0, <2>1 DEF Stage
  <2> QED BY <1>0, <2>1, <2>2, SerialRead
<1> QED BY <1>1, <1>2, <1>3, <1>4, <1>5, <1>6

(* A request reads, issues its session, or ends early.                      *)
LEMMA SerialMove ==
  ASSUME IInv, SerialInv, NEW p \in Reqs,
         \/ LoginRead(p) \/ SetupRead(p) \/ ReadCredential(p) \/ IssueSession(p)
         \/ VerifyLocked(p) \/ Fail(p)
  PROVE  SerialInv'
<1>0. /\ req \in [Reqs -> Requests] /\ req[p] \in Requests /\ Stage(p)
      /\ UNCHANGED <<registered, cred, challenge, history>>
  BY DEF IInv, TypeOK, SerialInv, LoginRead, SetupRead, ReadCredential, IssueSession,
         VerifyLocked, Fail
<1>1. CASE Return(p)
  BY <1>0, <1>1, ReturnType, IdleStage, SerialRead
<1>2. CASE LoginRead(p)
  <2>1. /\ req[p].pc = "login"
        /\ \/ Goto(p, "challenge")
           \/ Goto(p, "setupRead") /\ (cred = NoCred \/ ~cred.enabled)
    BY <1>2 DEF LoginRead, At
  <2>2. /\ \A q \in Reqs : q # p => req'[q] = req[q]
        /\ \/ req'[p] = [req[p] EXCEPT !.pc = "challenge"]
           \/ req'[p] = [req[p] EXCEPT !.pc = "setupRead"] /\ (cred = NoCred \/ ~cred.enabled)
    BY <1>0, <2>1, GotoType
  <2>3. Stage(p)'
    BY <1>0, <2>1, <2>2 DEF Stage, Requests
  <2> QED BY <1>0, <2>2, <2>3, SerialRead
<1>3. CASE SetupRead(p) \/ ReadCredential(p)
  <2>1. PICK l \in {"setupWrite", "verify"} :
          /\ req' = [req EXCEPT ![p].pc = l, ![p].cred = cred]
          /\ req[p].pc = IF l = "setupWrite" THEN "setupRead" ELSE "read"
    BY <1>3 DEF SetupRead, ReadCredential, GetByUserID, At
  <2>2. /\ \A q \in Reqs : q # p => req'[q] = req[q]
        /\ req'[p] = [req[p] EXCEPT !.pc = l, !.cred = cred]
    BY <1>0, <2>1 DEF Requests
  <2>3. Stage(p)'
    BY <1>0, <2>1, <2>2 DEF Stage, Requests
  <2> QED BY <1>0, <2>2, <2>3, SerialRead
<1>4. CASE IssueSession(p)
  <2>1. req[p].pc = "issue" /\ Goto(p, "finish")
    BY <1>4 DEF IssueSession, At
  <2>2. /\ \A q \in Reqs : q # p => req'[q] = req[q]
        /\ req'[p] = [req[p] EXCEPT !.pc = "finish"]
    BY <1>0, <2>1, GotoType
  <2>3. Stage(p)'
    BY <1>0, <2>1, <2>2 DEF Stage, Requests
  <2> QED BY <1>0, <2>2, <2>3, SerialRead
<1> QED BY <1>1, <1>2, <1>3, <1>4 DEF VerifyLocked, Fail

(* beginTOTPSetup: a new row, or the pending one with a new secret; either  *)
(* way the failure count starts again and the stored counter is kept.       *)
LEMMA SerialSetup ==
  ASSUME IInv, SerialInv, NoOverlap, NEW p \in Reqs, SetupWrite(p)
  PROVE  SerialInv'
<1>0. /\ req \in [Reqs -> Requests] /\ Stage(p) /\ CopySound(p) /\ Return(p)
      /\ cred \in Credentials \cup {NoCred} /\ req[p].pc = "setupWrite"
      /\ UNCHANGED <<registered, challenge, accepted, replayed, answered, reused>>
  BY DEF IInv, TypeOK, SerialInv, SetupWrite, At
<1>1. /\ \A q \in Reqs : q # p => req'[q] = req[q]
      /\ req'[p] = Idle /\ Stage(p)' /\ ~At(p, "idle") /\ registered /\ req[p].cred = cred
  BY <1>0, ReturnType, IdleStage DEF Stage, At
<1>2. PICK k \in Secrets : /\ guesses' = 0
                          /\ \/ cred = NoCred /\ cred' = New(k)
                             \/ cred # NoCred /\ cred' = BeginSetup(cred, k)
  <2>1. /\ secrets + 1 \in Secrets /\ guesses' = 0
        /\ \/ cred = NoCred /\ cred' = New(secrets + 1)
           \/ cred # NoCred /\ cred' = BeginSetup(cred, secrets + 1)
    BY <1>1, Zenon DEF SetupWrite, CreateCredential, Update
  <2> QED BY <2>1, Zenon
<1>3. cred'.failed = 0 /\ (cred # NoCred => cred'.lastUsed = cred.lastUsed)
  <2>1. CASE cred = NoCred
    BY <1>2, <2>1 DEF New
  <2>2. CASE cred # NoCred
    BY <1>0, <1>2, <2>2 DEF BeginSetup, Credentials
  <2> QED BY <2>1, <2>2
<1>4. cred' \in Credentials
  BY <1>0, <1>2, SetupOK DEF IInv, TypeOK
<1>5. Counted'
  BY <1>2, <1>3 DEF Counted
<1>6. cred' # NoCred
  BY <1>4, TwoFactorAssumption
<1>7. Spent'
  BY <1>0, <1>3, <1>6 DEF SerialInv, Spent
<1>8. Answered' /\ (cred # NoCred => registered)'
  BY <1>0, <1>1 DEF SerialInv, Answered
<1> QED BY <1>1, <1>5, <1>7, <1>8, SerialWrite

(* What RecordFailure does to the columns.                                  *)
LEMMA FailureFields ==
  ASSUME NEW c \in Credentials
  PROVE  LET d == RecordFailure(c) IN
         /\ d.enabled = c.enabled /\ d.lastUsed = c.lastUsed
         /\ c.failed + 1 >= OTPMaxAttempts =>
              d.failed = 0 /\ d.lockedUntil = now + LockoutPeriods
         /\ ~(c.failed + 1 >= OTPMaxAttempts) =>
              d.failed = c.failed + 1 /\ d.lockedUntil = c.lockedUntil
BY DEF RecordFailure, Credentials

(* What RecordSuccess and MarkCodeUsed do to the columns.                   *)
LEMMA SuccessFields ==
  ASSUME NEW c \in Credentials, NEW t
  PROVE  /\ RecordSuccess(c, t).enabled = c.enabled
         /\ RecordSuccess(c, t).lastUsed = t /\ RecordSuccess(c, t).failed = 0
         /\ MarkCodeUsed(c, t).enabled = c.enabled /\ MarkCodeUsed(c, t).lastUsed = t
         /\ MarkCodeUsed(c, t).failed = c.failed
         /\ MarkCodeUsed(c, t).lockedUntil = c.lockedUntil
BY DEF RecordSuccess, MarkCodeUsed, Credentials

(* verifyOTP rejects a code: the count goes up with the guesses, and when   *)
(* it would reach the cap a lockout starts and both start again.            *)
LEMMA SerialFails ==
  ASSUME IInv, SerialInv, NoOverlap, NEW p \in Reqs, VerifyFails(p)
  PROVE  SerialInv'
<1> USE TwoFactorAssumption
<1>0. /\ TypeOK /\ Stage(p) /\ CopySound(p) /\ Return(p) /\ req[p].pc = "verify"
      /\ UNCHANGED <<registered, challenge, accepted, replayed, answered, reused>>
  BY DEF IInv, SerialInv, VerifyFails, At
<1>1. /\ \A q \in Reqs : q # p => req'[q] = req[q]
      /\ req'[p] = Idle /\ Stage(p)' /\ ~At(p, "idle")
  BY <1>0, ReturnType, IdleStage DEF At, TypeOK
<1>2. req[p].cred = cred /\ cred \in Credentials
  BY <1>0 DEF Stage, CopySound, TypeOK
<1>3. /\ ~IsLocked(cred) /\ cred' = RecordFailure(cred)
      /\ guesses' = IF IsLocked(RecordFailure(cred)) THEN 0
                    ELSE IF guesses < OTPMaxAttempts THEN guesses + 1 ELSE guesses
  BY <1>2, Zenon DEF VerifyFails, Update
<1>4. /\ cred'.lastUsed = cred.lastUsed
      /\ cred.failed + 1 >= OTPMaxAttempts =>
           cred'.failed = 0 /\ cred'.lockedUntil = now + LockoutPeriods
      /\ ~(cred.failed + 1 >= OTPMaxAttempts) =>
           cred'.failed = cred.failed + 1 /\ cred'.lockedUntil = cred.lockedUntil
  BY <1>2, <1>3, FailureFields
<1>5. /\ now \in Nat /\ cred.failed \in 0..(OTPMaxAttempts - 1) /\ cred.lockedUntil \in Nat
      /\ cred # NoCred /\ cred' # NoCred
  <2>1. now \in Periods /\ Sound(cred, proven)
    BY <1>0, <1>2 DEF TypeOK, CopySound
  <2>2. cred' \in Credentials
    BY <1>2, <1>3, <2>1, FailureOK
  <2> QED BY <1>2, <2>1, <2>2 DEF Periods, Credentials
<1>6. Counted'
  <2> SUFFICES ASSUME LockoutPeriods # 0 PROVE guesses' = cred'.failed
    BY <1>5 DEF Counted
  <2>1. guesses = cred.failed
    BY <1>5 DEF SerialInv, Counted
  <2>2. guesses' = IF now < cred'.lockedUntil THEN 0
                   ELSE IF guesses < OTPMaxAttempts THEN guesses + 1 ELSE guesses
    BY <1>3 DEF IsLocked
  <2>3. CASE cred.failed + 1 >= OTPMaxAttempts
    <3>1. now < cred'.lockedUntil
      BY <1>4, <1>5, <2>3
    <3> QED BY <1>4, <2>2, <2>3, <3>1
  <2>4. CASE ~(cred.failed + 1 >= OTPMaxAttempts)
    <3>1. ~(now < cred'.lockedUntil)
      BY <1>3, <1>4, <2>4 DEF IsLocked
    <3> QED BY <1>4, <1>5, <2>1, <2>2, <2>4, <3>1
  <2> QED BY <2>3, <2>4
<1>7. Spent'
  BY <1>0, <1>4, <1>5 DEF SerialInv, Spent
<1>8. Answered' /\ (cred # NoCred => registered)'
  BY <1>0, <1>5 DEF SerialInv, Answered
<1> QED BY <1>1, <1>6, <1>7, <1>8, SerialWrite

(* A code past the stored counter is past every accepted one: it is no      *)
(* replay, and storing its period keeps that so.                            *)
LEMMA AcceptSpends ==
  ASSUME IInv, Spent, cred # NoCred, NEW t \in 1..(MaxPeriod + 1),
         ~IsCodeConsumed(cred, t), Accept(cred, t), cred' # NoCred, cred'.lastUsed = t
  PROVE  Spent'
<1> USE TwoFactorAssumption
<1>0. TypeOK
  BY DEF IInv
<1>1. cred.lastUsed \in Nat /\ t \in Nat /\ cred.lastUsed < t
  BY <1>0 DEF TypeOK, Credentials, IsCodeConsumed
<1>2. \A a \in accepted : a[2] \in Nat /\ a[2] <= cred.lastUsed
  BY <1>0 DEF Spent, TypeOK
<1>3. ~ \E a \in accepted : t <= a[2]
  BY <1>1, <1>2
<1>4. replayed' = {} /\ accepted' = accepted \cup {<<cred.secret, t>>}
  BY <1>3 DEF Accept, Spent
<1>5. \A a \in accepted' : a[2] <= t
  BY <1>1, <1>2, <1>4
<1> QED BY <1>4, <1>5 DEF Spent

(* verifyOTP accepts a code, real or demo.                                  *)
LEMMA SerialSucceeds ==
  ASSUME IInv, SerialInv, NoOverlap, NEW p \in Reqs,
         VerifyDemo(p) \/ \E t \in 1..(MaxPeriod + 1) : VerifySucceeds(p, t)
  PROVE  SerialInv'
<1> USE TwoFactorAssumption
<1>0. /\ TypeOK /\ Stage(p) /\ CopySound(p) /\ req[p].pc = "verify"
      /\ guesses' = 0
      /\ UNCHANGED <<registered, challenge, answered, reused>>
  BY DEF IInv, SerialInv, VerifyDemo, VerifySucceeds, At
<1>1. req[p].cred = cred /\ cred \in Credentials /\ cred # NoCred /\ Sound(cred, proven)
  BY <1>0 DEF Stage, CopySound, TypeOK
<1>2. PICK t \in 0..(MaxPeriod + 1) :
        /\ cred' = RecordSuccess(cred, t) /\ Verified(p, RecordSuccess(cred, t))
        /\ \/ accepted' = {} /\ replayed' = replayed
           \/ t \in 1..(MaxPeriod + 1) /\ ~IsCodeConsumed(cred, t) /\ Accept(cred, t)
  <2>1. CASE VerifyDemo(p)
    <3>1. 0 \in 0..(MaxPeriod + 1)
      OBVIOUS
    <3>2. /\ cred' = RecordSuccess(cred, 0) /\ Verified(p, RecordSuccess(cred, 0))
          /\ accepted' = {} /\ replayed' = replayed
      BY <1>1, <2>1 DEF VerifyDemo, Update
    <3> QED BY <3>1, <3>2, Zenon
  <2>2. ASSUME NEW t \in 1..(MaxPeriod + 1), VerifySucceeds(p, t)
        PROVE  /\ t \in 0..(MaxPeriod + 1)
               /\ cred' = RecordSuccess(cred, t) /\ Verified(p, RecordSuccess(cred, t))
               /\ ~IsCodeConsumed(cred, t) /\ Accept(cred, t)
    <3>1. t \in 0..(MaxPeriod + 1)
      OBVIOUS
    <3> QED BY <1>1, <2>2, <3>1 DEF VerifySucceeds, Update
  <2> QED BY <2>1, <2>2, Zenon
<1>3. /\ cred' \in Credentials /\ cred' # NoCred
      /\ cred'.lastUsed = t /\ cred'.failed = 0
  BY <1>1, <1>2, SuccessOK, SuccessFields
<1>4. /\ \A q \in Reqs : q # p => req'[q] = req[q]
      /\ Stage(p)' /\ ~At(p, "idle")
  <2>1. CASE req[p].op = "sensitive"
    <3>1. Return(p)
      BY <1>2, <2>1 DEF Verified, Return
    <3> QED BY <1>0, <3>1, ReturnType, IdleStage DEF TypeOK, At
  <2>2. CASE req[p].op # "sensitive"
    <3>1. req' = [req EXCEPT ![p] = [req[p] EXCEPT !.pc = "issue", !.cred = cred']]
      BY <1>0, <1>2, <2>2 DEF Verified, TypeOK
    <3>2. /\ \A q \in Reqs : q # p => req'[q] = req[q]
          /\ req'[p].op = req[p].op /\ req'[p].pc = "issue" /\ req'[p].cred = cred'
          /\ req'[p].challenge = req[p].challenge
      BY <1>0, <3>1 DEF TypeOK, Requests
    <3>3. Stage(p)'
      BY <1>0, <3>2 DEF Stage
    <3> QED BY <1>0, <3>2, <3>3 DEF At
  <2> QED BY <2>1, <2>2
<1>5. Counted'
  BY <1>0, <1>3 DEF Counted
<1>6. Spent'
  <2>1. CASE accepted' = {} /\ replayed' = replayed
    BY <2>1 DEF SerialInv, Spent
  <2>2. CASE t \in 1..(MaxPeriod + 1) /\ ~IsCodeConsumed(cred, t) /\ Accept(cred, t)
    BY <1>1, <1>3, <2>2, AcceptSpends DEF SerialInv
  <2> QED BY <1>2, <2>1, <2>2
<1>7. Answered' /\ (cred # NoCred => registered)'
  BY <1>0, <1>1 DEF SerialInv, Answered
<1> QED BY <1>4, <1>5, <1>6, <1>7, SerialWrite

(* SetupVerifyOTP enables the credential.                                   *)
LEMMA SerialEnable ==
  ASSUME IInv, SerialInv, NoOverlap, NEW p \in Reqs, FinishSetup(p)
  PROVE  SerialInv'
<1>0. /\ TypeOK /\ Stage(p) /\ CopySound(p) /\ Return(p) /\ req[p].pc = "finish"
      /\ UNCHANGED <<registered, challenge, accepted, replayed, guesses, answered, reused>>
  BY DEF IInv, SerialInv, FinishSetup, At, history
<1>1. /\ \A q \in Reqs : q # p => req'[q] = req[q]
      /\ req'[p] = Idle /\ Stage(p)' /\ ~At(p, "idle")
  BY <1>0, ReturnType, IdleStage DEF At, TypeOK
<1>2. req[p].cred = cred /\ cred \in Credentials /\ cred # NoCred
  BY <1>0 DEF Stage, CopySound, TypeOK
<1>3. cred' = Enable(cred) /\ cred.secret \in proven
  BY <1>0, <1>2 DEF FinishSetup, Update, CopySound
<1>4. cred'.lastUsed = cred.lastUsed /\ cred'.failed = cred.failed
  BY <1>2, <1>3 DEF Enable, Credentials
<1>5. cred' \in Credentials /\ cred' # NoCred
  BY <1>2, <1>3, EnableOK, TwoFactorAssumption
<1>6. Counted' /\ Spent'
  BY <1>0, <1>2, <1>4, <1>5 DEF SerialInv, Counted, Spent
<1>7. Answered' /\ (cred # NoCred => registered)'
  BY <1>0, <1>2 DEF SerialInv, Answered
<1> QED BY <1>1, <1>6, <1>7, SerialWrite

(* VerifyPasswordResetOTP stores the accepted code.                         *)
LEMMA SerialReset ==
  ASSUME IInv, SerialInv, NoOverlap, NEW p \in Reqs,
         NEW t \in 1..(MaxPeriod + 1), ResetSucceeds(p, t)
  PROVE  SerialInv'
<1> USE TwoFactorAssumption
<1>0. /\ TypeOK /\ Stage(p) /\ CopySound(p) /\ Return(p) /\ req[p].pc = "resetVerify"
      /\ UNCHANGED <<registered, challenge, guesses, answered, reused>>
  BY DEF IInv, SerialInv, ResetSucceeds, At
<1>1. /\ \A q \in Reqs : q # p => req'[q] = req[q]
      /\ req'[p] = Idle /\ Stage(p)' /\ ~At(p, "idle")
  BY <1>0, ReturnType, IdleStage DEF At, TypeOK
<1>2. req[p].cred = cred /\ cred \in Credentials /\ cred # NoCred /\ Sound(cred, proven)
  BY <1>0 DEF Stage, CopySound, TypeOK
<1>3. cred' = MarkCodeUsed(cred, t) /\ ~IsCodeConsumed(cred, t) /\ Accept(cred, t)
  BY <1>2, Zenon DEF ResetSucceeds, Update
<1>4. cred'.lastUsed = t /\ cred'.failed = cred.failed
  BY <1>2, <1>3, SuccessFields
<1>5. cred' \in Credentials /\ cred' # NoCred
  <2>1. t \in 0..(MaxPeriod + 1)
    OBVIOUS
  <2> QED BY <1>2, <1>3, <2>1, SuccessOK
<1>6. Spent'
  BY <1>2, <1>3, <1>4, <1>5, AcceptSpends DEF SerialInv
<1>7. Counted'
  BY <1>0, <1>2, <1>4, <1>5 DEF SerialInv, Counted
<1>8. Answered' /\ (cred # NoCred => registered)'
  BY <1>0, <1>2 DEF SerialInv, Answered
<1> QED BY <1>1, <1>6, <1>7, <1>8, SerialWrite

(* A new challenge is none that was answered; LoginVerifyOTP consumes an    *)
(* open one, which was not answered before.                                 *)
LEMMA SerialChallenge ==
  ASSUME IInv, SerialInv, NoOverlap, NEW p \in Reqs,
         IssueLoginChallenge(p) \/ FinishLogin(p)
  PROVE  SerialInv'
<1>0. /\ TypeOK /\ Stage(p) /\ CopySound(p) /\ Return(p)
      /\ UNCHANGED <<registered, cred, accepted, replayed, guesses>>
      /\ ~At(p, "idle")
  BY DEF IInv, SerialInv, IssueLoginChallenge, FinishLogin, At, history
<1>1. /\ \A q \in Reqs : q # p => req'[q] = req[q]
      /\ req'[p] = Idle /\ Stage(p)'
  BY <1>0, ReturnType, IdleStage DEF TypeOK
<1>2. Counted' /\ Spent' /\ (cred # NoCred => registered)'
  BY <1>0 DEF SerialInv, Counted, Spent
<1>3. Answered'
  <2>1. CASE IssueLoginChallenge(p)
    <3>1. PICK ch \in Challenges : CreateChallenge(ch)
      BY <2>1 DEF IssueLoginChallenge
    <3>2. answered' = answered /\ reused' = reused /\ answered \subseteq Challenges
      BY <1>0, <2>1 DEF IssueLoginChallenge, history, TypeOK
    <3>3. ASSUME NEW c \in answered PROVE challenge'[c].state = "consumed"
      BY <1>0, <3>1, <3>2 DEF CreateChallenge, TypeOK, SerialInv, Answered
    <3> QED BY <3>2, <3>3 DEF Answered, SerialInv
  <2>2. CASE FinishLogin(p)
    <3> DEFINE ch == req[p].challenge
    <3>1. ch \in Challenges /\ challenge[ch].state = "open"
      BY <1>0, <2>2 DEF FinishLogin, CopySound, Stage
    <3>2. ch \notin answered
      BY <3>1 DEF SerialInv, Answered
    <3>3. /\ answered' = answered \cup {ch} /\ reused' = reused
          /\ challenge' = [challenge EXCEPT ![ch].state = "consumed"]
      BY <2>2, <3>2 DEF FinishLogin, ConsumeChallenge
    <3>4. \A c \in answered' : challenge'[c].state = "consumed"
      BY <1>0, <3>1, <3>3 DEF TypeOK, SerialInv, Answered
    <3> QED BY <3>3, <3>4 DEF Answered, SerialInv
  <2> QED BY <2>1, <2>2
<1> QED BY <1>0, <1>1, <1>2, <1>3, SerialWrite

-----------------------------------------------------------------------------
(* Before the registration no request is in progress and nothing happened.  *)
LEMMA SerialInit == Init => SerialInv
BY DEF Init, SerialInv, Counted, Spent, Answered, Stage, Idle

(* From a state in which no requests overlap, every step keeps the          *)
(* invariant.                                                               *)
LEMMA SerialStep == IInv /\ SerialInv /\ NoOverlap /\ [Next]_vars => SerialInv'
<1> SUFFICES ASSUME IInv, SerialInv, NoOverlap, [Next]_vars PROVE SerialInv'
  OBVIOUS
<1>1. CASE UNCHANGED vars \/ Tick
  BY <1>1 DEF vars, Tick, history, SerialInv, Counted, Spent, Answered, Stage
<1>2. ASSUME NEW p \in Reqs, Step(p) PROVE SerialInv'
  BY <1>2, SerialStart, SerialMove, SerialSetup, SerialFails, SerialSucceeds,
     SerialEnable, SerialReset, SerialChallenge DEF Step
<1> QED BY <1>1, <1>2 DEF Next

(* As long as requests do not overlap, the serial invariant holds, with the *)
(* one that holds anyway.                                                   *)
THEOREM SerialInvariance == Spec /\ []NoOverlap => [](IInv /\ SerialInv)
BY Invariance, SerialInit, SerialStep, PTL DEF Spec

(* MarkCodeUsed: requests that do not overlap never have a code accepted    *)
(* that was accepted before, or the code of an earlier period.              *)
THEOREM CodesAreSpent == Spec /\ []NoOverlap => []NoCodeReplayed
<1>1. SerialInv => NoCodeReplayed
  BY DEF SerialInv, Spent, NoCodeReplayed
<1> QED BY <1>1, SerialInvariance, PTL

(* LoginVerifyOTP: requests that do not overlap never get two sessions for  *)
(* one login challenge.                                                     *)
THEOREM ChallengesAreSpent == Spec /\ []NoOverlap => []ChallengeSingleUse
<1>1. SerialInv => ChallengeSingleUse
  BY DEF SerialInv, Answered, ChallengeSingleUse
<1> QED BY <1>1, SerialInvariance, PTL

(* verifyOTP: with a lockout that lasts at least a period, requests that do *)
(* not overlap never have OTPMaxAttempts codes rejected without one.        *)
THEOREM GuessesLockOut ==
  LockoutPeriods # 0 => (Spec /\ []NoOverlap => []GuessesBounded)
<1>1. LockoutPeriods # 0 /\ IInv /\ SerialInv => GuessesBounded
  BY TwoFactorAssumption DEF IInv, TypeOK, SerialInv, Counted, GuessesBounded, Credentials
<1>2. CASE LockoutPeriods # 0
  <2>1. IInv /\ SerialInv => GuessesBounded
    BY <1>1, <1>2
  <2> QED BY <2>1, SerialInvariance, PTL
<1> QED BY <1>2

(* A step taken alone never takes an enabled credential back to the setup.  *)
LEMMA EnrolmentStep ==
  IInv /\ SerialInv /\ [Next]_vars => [cred # NoCred /\ cred.enabled => cred'.enabled]_vars
<1> SUFFICES ASSUME IInv, SerialInv, Next, cred # NoCred, cred.enabled PROVE cred'.enabled
  OBVIOUS
<1>0. cred \in Credentials
  BY DEF IInv, TypeOK
<1>1. CASE cred' = cred
  BY <1>1
<1>2. ASSUME NEW p \in Reqs, Step(p), cred' # cred PROVE cred'.enabled
  <2>0. Stage(p)
    BY DEF SerialInv
  <2>1. CASE SetupWrite(p)
    BY <2>0, <2>1 DEF SetupWrite, Stage, At
  <2>2. CASE VerifyFails(p)
    <3>1. cred' = RecordFailure(cred)
      BY <2>0, <2>2 DEF VerifyFails, Update, Stage, At
    <3> QED BY <1>0, <3>1, FailureFields
  <2>3. CASE VerifyDemo(p)
    <3>1. cred' = RecordSuccess(cred, 0)
      BY <2>0, <2>3 DEF VerifyDemo, Update, Stage, At
    <3> QED BY <1>0, <3>1, SuccessFields
  <2>4. ASSUME NEW t, VerifySucceeds(p, t) PROVE cred'.enabled
    <3>1. cred' = RecordSuccess(cred, t)
      BY <2>0, <2>4 DEF VerifySucceeds, Update, Stage, At
    <3> QED BY <1>0, <3>1, SuccessFields
  <2>5. ASSUME NEW t, ResetSucceeds(p, t) PROVE cred'.enabled
    <3>1. cred' = MarkCodeUsed(cred, t)
      BY <2>0, <2>5 DEF ResetSucceeds, Update, Stage, At
    <3> QED BY <1>0, <3>1, SuccessFields
  <2>6. CASE FinishSetup(p)
    <3>1. cred' = Enable(cred)
      BY <2>0, <2>6 DEF FinishSetup, Update, Stage, At
    <3> QED BY <1>0, <3>1 DEF Enable, Credentials
  <2> QED BY <1>2, <2>1, <2>2, <2>3, <2>4, <2>5, <2>6
       DEF Step, Register, Login, LoginRead, IssueLoginChallenge, SetupRead, SetupVerifyOTP,
           Sensitive, ReadCredential, LoginVerifyOTP, VerifyLocked, IssueSession, FinishLogin,
           ResetRead, Fail
<1> QED BY <1>1, <1>2 DEF Next, Tick

(* Login: as long as requests do not overlap, nothing takes an enabled      *)
(* credential back to the setup state.                                      *)
THEOREM EnrolmentStays == Spec /\ []NoOverlap => EnrolmentIsPermanent
BY EnrolmentStep, SerialInvariance, PTL DEF Spec, EnrolmentIsPermanent
=============================================================================
