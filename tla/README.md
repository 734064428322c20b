# Verification of the BeeBase auth service

TLA+ models of `beebase-auth-service` (Go, PostgreSQL, Redis), the TLC
configurations that check them, and TLAPS proofs of their main invariants. The
reference is the code under `src/`; comments, README and tests of the
repository are quoted where a property states what they say.

## 1. The system and its parts

The service runs as several replicas in front of one PostgreSQL database and
one Redis. Every HTTP request is a goroutine; each repository call is a
statement (or, for account deletion, a transaction) of its own. **No handler
holds a lock or a transaction across two calls**, so other requests run between
any two of them, on the same or on another replica. A request may be cut off
anywhere: a call fails, the 30 s timeout of the router fires, the process stops.

| Part | State | Operations | Interacts with |
|---|---|---|---|
| Sessions | `refresh_tokens` rows; the active-session marker of a user in Redis (one session id, with a TTL) | Refresh, Logout, issueSession, the session-ending tails of ChangePassword, ConfirmPasswordReset and DeleteAccount, cleanupSessionDevices | the users table (deletion status), notification-service through a detached goroutine, every other service through the marker |
| Account deletion | `users.deletion_status`, `account_deletion_jobs`, `account_deletion_steps`, one worker per replica | RequestDeletion, ClaimDeletion, the step loop of RunOnce, retry, CompleteDeletionJob | seven downstream services, the users table |
| Two-factor authentication | `two_factor_credentials` (one row per user), `login_challenges` | Register, Login, beginTOTPSetup, SetupVerifyOTP, LoginVerifyOTP, verifyOTP | issueSession; the password reset flow writes the same row |
| Password reset | `password_reset_flows` | RequestPasswordReset, VerifyPasswordResetOTP, ConfirmPasswordReset | the credential row, the user's password, the sessions |
| Profile | `users.avatar_media_id` | UpdateProfile | files in media-service |
| HTTP transport | none | routing, authentication gate, validation of every request body | all of the above |
| Server process | the two connection pools, the HTTP goroutine, the context of the signal handler | `run()` of `cmd/server`: configuration, connections, start, select, shutdown, deferred closes; the supervisor's restart | every request in flight uses its pools |
| Signing, hashing, encryption, health, `dbclear`, `keygen` | none of their own | | |

What is hard here, and what a unit test hardly reaches:

- *Read, check, write back.* Credentials and reset flows are read as a whole,
  checked and changed in memory, and written back as a whole with an
  unconditional UPDATE. A copy may be stale when it is written.
- *Two stores.* A session is a row in PostgreSQL and a marker in Redis, changed
  one after the other.
- *Half-done requests.* An error after the second of four steps leaves the first
  two; retries then meet a state the first attempt left behind.
- *Leases.* A deletion worker may outlive its two-minute lease (seven calls of up
  to 25 s) and then runs next to the worker that claimed the job after it.
- *Detached work.* Device cleanup runs after the request was answered.
- *Shared row.* Handlers that read the user before the deletion worker removed it
  go on, and create sessions for it.
- *Stopping.* A handler may run for 30 s, Shutdown waits for 15 s, and then the
  pools are closed under whatever still runs.

`PROJECT.json` lists each of these at the line where it bites ("hazards") with
the properties that are about it. Several hazards are overlaps that the code does
not exclude and that break the property named: the property is then checked
without the overlap, and the note of the hazard says so and names the
configuration in which TLC finds the overlap (section 3). A note also says what
no property covers.

What makes each part correct: a user has one usable session and ending it is
final (Sessions); a deletion request leads to the removal of the data everywhere,
then of the user row, and is never lost (account deletion); a code works once,
failures are capped, and only a proven secret gates a login (two-factor); a
password is replaced only after an accepted code, once per flow, and no flow is
used up that did not replace it (password reset; what a reset does to the
sessions belongs to Sessions); the avatar is a stored file and nothing else is
deleted (profile); a removed account has nothing left, not even a token
(life cycle); a malformed code never reaches the lockout counter (validation); a
process serves only with its stores, ends when it is told to and says truthfully
whether it cut anything short (server).

## 2. Modules

| Module | Models | Variables ↔ code |
|---|---|---|
| `Sessions` | `application/auth/service.go`, tails of `service_totp.go` and `service_password_reset.go`, `refresh_token_repository.go` | `rows`, `owner`, `expired`: refresh tokens; `marker`: Redis; `status`: `deletion_status`; `req`: handlers in progress with the local variables they still need; `held`: tokens returned to clients; `cleanups`: goroutines |
| `AccountDeletion` | `deletion_worker.go`, `deletion_store.go`, `deletionclient` | `job`, `leased`, `step`, `queue` (order of `next_attempt_at`): job tables; `worker`: the round of RunOnce a worker is in; `data`: the downstream services |
| `TwoFactor` | `service_totp.go`, `domain/totp`, `platform/totp`, Login/Register/beginTOTPSetup, the credential side of `service_password_reset.go` | `cred`: the row; `req[p].cred`: a handler's copy; `challenge`: login challenges; `now`: TOTP periods |
| `PasswordReset` | `service_password_reset.go`, `domain/passwordreset` | `flow`: the rows; `req[p].row`: a handler's copy; the RevokeAllForUser and Deactivate at the end of Confirm are its steps, their effect on sessions is in `Sessions` |
| `Profile` | `Service.UpdateProfile`, `mediaclient` | `avatar`, `stored`, `req`; history `calm`, `overlap`: see section 4 |
| `DeletionContract` | what account deletion promises, without jobs, leases, steps or workers | `state`, `holders`; `AccountDeletion` implements it with `state <- account`, `holders <- data` |
| `AccountLifecycle` | `Sessions` and `AccountDeletion` over the users row they share | `status` of `Sessions` is `account` of `AccountDeletion`; the `RequestDeletion` transaction and the removal of the row (with its cascade) are joint steps |
| `Server` | `cmd/server/main.go`, `config.Load` | `phase`: where `run()` is; `env`: required variables that are set; `db`, `redis`: pools; `listener`: the HTTP goroutine; `code`: what `run()` returns; `inflight`: a parameter, the requests being handled |
| `Validation` | `Validate` of the requests of `transport/http/auth` and `transport/http/profile` that carry a code, and of the profile update | no state: operators from field values to the set of failing fields |
| `ServedProfile` | `PUT /profile` behind `Server` and `Validation` | `inflight` of `Server` is the set of busy requests of `Profile`; a handler fails when the pool it needs is closed, and is gone when the process exits |

An action is one repository or client call with the local computation around it,
so every interleaving the code allows is a behaviour. `Fail(p)` (or `Abort(w)`)
ends a handler anywhere; a call that took effect but whose answer was lost is the
action followed by `Fail`. History variables (marked so in the modules) record
what was answered or accepted; no guard reads them.
An operator whose comment begins with "Fault:" is a plausible wrong version of
the definition after it; it is used by no specification and exists to show that
a property notices the difference.

`MC*` modules extend a specification with the symmetry sets for TLC. `*Proofs`
modules hold the inductive invariants and the proofs (those about sessions
whose requests do not overlap are in `SessionsSerialProofs`). Parts outside `src/`
(the Redis session store and token verifier of beebase-common, media-service,
the clock) are modelled from how the code uses them.

Abstractions: tokens, hashes and secrets are distinct ids; a TOTP code is the
pair (secret, period), and wrong codes are all alike; passwords are right (a
wrong one returns before any change); names, email normalisation, logging,
response formats and the JWT are left out. In `Validation` a string is a sequence
of character classes with a width in bytes, since the code counts bytes in one
place and characters in the next; whether google/uuid parses an id is a property
of the value. `Server` is composed with
`Profile`, whose handler works on three systems (Redis, PostgreSQL and
media-service); what a stop does to the other
handlers is their `Fail`. `TwoFactor`, `PasswordReset` and
`Profile` each follow one account, since no row of one account is ever written
by a handler for another.

## 3. Runs

Passing runs. All check for deadlock except `Reset`: there the flow ids and reset
tokens of the bound may all be used up, and then nothing is left to do.

| Run | Instance | Shows |
|---|---|---|
| `SessionsConcurrent` | 1 user, 2 sessions, 2 requests, all operations | `CleanupOnlyDeadSessions`, `CompletedLogoutIsFinal`, `SessionEndsForCause` under every interleaving and failure |
| `SessionsSerial` | 1 user, 3 sessions, 1 request at a time | `SingleSession`, `LiveTokenIsActive`, `TokenRotatesOnce`, `EndedSessionsStayDead`, `PendingAccountHasNoLiveToken` when requests do not overlap (they may still fail anywhere) |
| `Deletion` | 2 accounts, 2 services, 2 workers, 1 failed call, 1 crash, fair | `UserRowOutlivesData`, `PendingAccountHasOpenJob`, `DeletionCompletes`; `ImplementsContract`: the workflow implements `DeletionContract`, safety and progress |
| `TwoFactorConcurrent` | 2 requests, 2 secrets, 1 period, the demo account | `EnabledSecretProven`, `EnabledXorSetupToken` under every interleaving |
| `TwoFactorSerial` | 1 request at a time, 4 periods, 2 challenges, the demo account | `NoCodeReplayed`, `GuessesBounded`, `ChallengeSingleUse`, `EnrolmentIsPermanent` when requests do not overlap |
| `Reset` | 2 flows, 2 reset tokens, 2 requests, 1 failure, cap 2 | `ResetNeedsVerifiedOTP` and `ConsumedAfterChange` under every interleaving and failure, `FlowResetsOnce` and `FlowGuessesBounded` until two requests overlap |
| `Lifecycle` | 1 user, 2 sessions, 2 requests (logins and deletions), 1 service, 1 worker, fair | `GoneAccountHasNothing`, `DeletionIsTotal` under every interleaving and failed request |
| `Served` | 2 files, 2 requests, 1 failed call, any number of signals and restarts; strings of up to 4 characters | `OnlyAvatarsAreDeleted`, `RequestsHaveStores`, `CleanStopCutsNothing`, `SignalStops`; `AvatarIsStored` until requests overlap or one is lost on its way to the row, and again after the next change of the avatar that completes alone; `NoOrphanedAvatar` until requests overlap; `OTPGateIsExact` over all strings |

Each component thus has two kinds of results: what holds whatever overlaps, and
what holds only when the requests of one account do not overlap (the serial
runs, and the properties that begin with `calm` or `overlap`). Four further
runs show, for different kinds of write, that the second kind is not a limit of
the models: the code lets the comment's statement fail. They are findings of
`PROJECT.json`.

| Run | Property | The code lets this happen |
|---|---|---|
| `SessionsDoubleRefresh` | `TokenRotatesOnce` | two overlapping refreshes exchange one token for two sessions |
| `SessionsLogoutRetry` | `AckedLogoutIsDead` | a logout that failed between its writes is retried and answers success while the access token still works |
| `OtpReplayRace` | `NoCodeReplayed` | two requests that read the credential before either writes it accept the same code |
| `ResetUnconsumed` | `ConsumedIsFinal` | a slow verification writes its copy of a flow after the flow was consumed, and it is open again |

The cause of the three races is the same: check and write are separate
statements and the write is unconditional. Conditional UPDATEs (`WHERE
revoked_at IS NULL`, `WHERE consumed_at IS NULL`, with a look at the rows
affected) or a row lock would bring the concurrent case down to the serial one.
The other serial properties fail under overlap for the same cause
(`FlowGuessesBounded` as `GuessesBounded` does). These configurations are not runs
of their own; with each `tlc -config <name>.cfg <module>` finds the
counterexample in seconds, the last one without any overlap:

| Configuration | Module | Property | Counterexample |
|---|---|---|---|
| `SessionsTwoLogins` | `MCSessions` | `SingleSession` | two logins each revoke before the other creates: two live tokens (one of them not the active session's, so `LiveTokenIsActive` fails too), against "Only one session may be active per user at a time" (`service.go:406-407`) |
| `SessionsResetRace` | `MCSessions` | `EndedSessionsStayDead` | a login or refresh in progress creates its token after a reset revoked all of them, and it works after the reset answered success, against "a password recovery invalidates existing sessions" (`service_password_reset.go:146-148`) |
| `SessionsPendingRace` | `MCSessions` | `PendingAccountHasNoLiveToken` | a login that passed the status check creates its token after RequestDeletion committed |
| `OtpFailuresLost` | `MCTwoFactor` | `GuessesBounded` | two wrong codes judged against one copy are counted once |
| `OtpLockoutUndone` | `MCTwoFactor` | `ResetSparesLockout` | a reset verification writes back the credential it read before a lockout, against "it must never touch FailedAttempts/LockedUntil" (`service_password_reset.go:95-96`) |
| `ChallengeTwice` | `MCTwoFactor` | `ChallengeSingleUse` | two verifications look a challenge up before either consumes it: two sessions |
| `EnrolmentUndone` | `MCTwoFactor` | `EnrolmentIsPermanent` | a request writes back, not enabled, the credential it read before its setup was completed |
| `ResetTwice` | `MCPasswordReset` | `FlowSingleUse` | two confirmations look a reset token up before either consumes it: two resets |
| `ResetHalfDone` | `MCPasswordReset` | `ConsumedIsComplete` | no overlap but a failure: Consume comes before the two calls that end the sessions, so when one of them fails the token is spent, the sessions live on and the request cannot be repeated, although the comment speaks of "a failure in a later, unrelated step" (`service_password_reset.go:160-162`) |

**A lost authenticator.** `EnrolmentIsPermanent` is what the code does, and two
comments say the opposite: "an abandoned setup or a lost authenticator can always
be safely restarted by whoever can prove they hold the account's current
password" (`service.go:527-529`) and "to let a user who never finished setup (or
lost their authenticator) start over" (`credential.go:75-76`). Login begins a
setup only where the credential is not enabled (`service.go:167`), and nothing
else begins one after Register, so the owner of an enabled credential has no way
to start over. The finding names the passing run, since the property that
contradicts the comments is the one that holds.

The demo code stores counter 0 and so forgets the last period that was used;
`NoCodeReplayed` is about the codes accepted since then.

`DeletionIsTotal` needs its fairness in full. A login that overlaps a deletion
request can issue a session after the request cleared the old one, and a
deletion request that fails before `Deactivate` leaves the marker; both are
usable for a while. The property says that this ends: the worker's removal of
the row takes the token rows with it, the foreign key refuses later ones, and the
marker runs out.

**Bounds.** Two requests are enough for every race between a read and a write;
the runs that allow more sequential history (three sessions, four periods)
run one request at a time, because the state space of both together is
out of reach. One failure in `Reset` is enough for a request
that is cut short and repeated.
`Lifecycle` leaves out refresh, logout and password changes, which issue and end
sessions through the same steps as the operations it has, and the failures of
workers, which `Deletion` covers. In `Served` the lengths are 3 bytes instead of
6 and 8, so that strings of four characters are on both sides of every
boundary, multi-byte ones included; two required variables stand for twelve,
which `Load` treats alike. Two services and two workers are the least with a step before and
after the one that fails and with an overlap. In the serial
runs and in `Reset`, `OTPMaxAttempts = 2` and `MaxOTPAttempts = 2` let a failure be counted
without a lockout and then with one, and lifetimes of one period let tokens
expire inside the run. `TwoFactorConcurrent` locks on the first failure, has a
single period and leaves out the OTP gate of ChangePassword and DeleteAccount,
which reads and writes the credential as a login does: its two properties depend
neither on the time nor on the count, and the proofs cover every clock, cap and
set of operations. `MaxFailures`, `MaxAborts`,
`MaxTokens`, `MaxSecrets`, `MaxPeriod` cap what would be unbounded; they are
constants, and the theorems hold for every value of them.

**Fairness.** `Deletion`: weak fairness of every worker's own steps (the ticker
of `Run` keeps firing and each call ends, clients time out after 25 s) and of
the expiry of leases (time passes). Failures are not fair, only bounded: the
services recover eventually. `Lifecycle` adds that a request that was accepted
ends, by an answer or by the 30 s timeout of the router, and that refresh tokens
and the marker expire; that a client calls is never assumed. `Served`: the main
goroutine goes on, because every connection attempt and Shutdown has a timeout
and the rest does not block; handlers, signals and restarts are not fair.

## 4. Proofs

Checked by TLAPS for every value of the constants (any number of users, requests,
workers, services, flows; every cap and lifetime), from the named assumptions
only: `SessionsAssumption`, `DeletionAssumption`, `TwoFactorAssumption`,
`PasswordResetAssumption`, `ProfileAssumption`, `LifecycleAssumption` and
`ValidationAssumption`. They say that the "no value" constants are distinct from
the real ones, that numbers are naturals, that `OTPMaxAttempts` is positive
(as in the default configuration) and that the strings considered
are at least as long as a code.

| Theorem | Statement |
|---|---|
| `TypeCorrect` of `SessionsProofs`, `AccountDeletionProofs`, `TwoFactorProofs`, `PasswordResetProofs`, `ProfileProofs` | `Spec => []TypeOK` |
| `SessionsProofs!CleanupSafe` | `Spec => []CleanupOnlyDeadSessions` |
| `SessionsProofs!LogoutFinal` | `Spec => []CompletedLogoutIsFinal` |
| `SessionsProofs!EndsForCause` | `Spec => SessionEndsForCause` |
| `SessionsSerialProofs!OneSession` | `Spec /\ []NoOverlap => []SingleSession` |
| `SessionsSerialProofs!TokensDieTogether` | `Spec /\ []NoOverlap => []LiveTokenIsActive` |
| `SessionsSerialProofs!RotatesOnce` | `Spec /\ []NoOverlap => []TokenRotatesOnce` |
| `SessionsSerialProofs!EndedStayDead` | `Spec /\ []NoOverlap => []EndedSessionsStayDead` |
| `SessionsSerialProofs!PendingHasNoToken` | `Spec /\ []NoOverlap => []PendingAccountHasNoLiveToken` |
| `AccountDeletionProofs!RowOutlivesData` | `Spec => []UserRowOutlivesData` |
| `AccountDeletionProofs!OpenJob` | `Spec => []PendingAccountHasOpenJob` |
| `AccountDeletionProofs!RefinesContract` | `Spec => Contract!Spec`, the safety part of `ImplementsContract` |
| `AccountLifecycleProofs!ImplementsSessions` | `LifecycleSpec => Spec` of `Sessions` |
| `AccountLifecycleProofs!ImplementsDeletion` | `LifecycleSpec => Spec` of `AccountDeletion` |
| `AccountLifecycleProofs!GoneHasNothing` | `LifecycleSpec => []GoneAccountHasNothing` |
| `TwoFactorProofs!EnabledIsProven` | `Spec => []EnabledSecretProven` |
| `TwoFactorProofs!EnabledOrPending` | `Spec => []EnabledXorSetupToken` |
| `TwoFactorProofs!CodesAreSpent` | `Spec /\ []NoOverlap => []NoCodeReplayed` |
| `TwoFactorProofs!ChallengesAreSpent` | `Spec /\ []NoOverlap => []ChallengeSingleUse` |
| `TwoFactorProofs!GuessesLockOut` | `LockoutPeriods # 0 => (Spec /\ []NoOverlap => []GuessesBounded)` |
| `TwoFactorProofs!EnrolmentStays` | `Spec /\ []NoOverlap => EnrolmentIsPermanent` |
| `PasswordResetProofs!ResetIsVerified` | `Spec => []ResetNeedsVerifiedOTP` |
| `PasswordResetProofs!BurntOnlyByReset` | `Spec => []ConsumedAfterChange` |
| `PasswordResetProofs!ResetsOnce` | `Spec => []FlowResetsOnce` |
| `PasswordResetProofs!GuessesBounded` | `Spec => []FlowGuessesBounded` |
| `ProfileProofs!NoForeignFileLost` | `Spec => []OnlyAvatarsAreDeleted` |
| `ProfileProofs!AvatarStored` | `Spec => []AvatarIsStored` |
| `ProfileProofs!NoOrphan` | `Spec => []NoOrphanedAvatar` |
| `ServedProfileProofs!StoresOutliveRequests` | `ServedSpec => []RequestsHaveStores` |
| `ServedProfileProofs!CleanStop` | `ServedSpec => []CleanStopCutsNothing` |
| `ServedProfileProofs!ServedFilesSafe`, `ServedAvatarStored` | the three profile invariants for `ServedSpec` |
| `ServedProfileProofs!OTPGate` | `ServedSpec => []OTPGateIsExact` |

In each module `IInv` is the inductive invariant, one lemma per group of actions
shows that it is preserved, `InvStep` combines them and `Invariance` concludes.
The strengthenings say why the properties hold.

What holds under every interleaving:

- *Sessions*: session ids are fresh. An id is in a row, a marker, a client's
  hands or a goroutine only after `IssueActivate` generated it, no two requests
  issue the same id, and `IssueActivate` never generates an id again; so a
  session that lost its marker cannot get it back, and a token that was revoked
  is never created a second time.
- *AccountDeletion*: data never comes back, so what a worker knows about it stays
  true when its lease is gone: every step that is recorded as completed, that a
  round skipped, or that a round has passed, belongs to a service without data.
  The refinement uses the same invariant: a round works on an account that was
  requested, so a call is a `Purge` of the contract or changes nothing, and the
  removal of the row is its `Close` or, when another worker was first, nothing.
- *TwoFactor* and *PasswordReset*: what is claimed of the row must hold of every
  copy in a handler too, because any copy may be written at any time. A copy that
  says "enabled" names a proven secret; a copy that says "verified" belongs to an
  eligible flow with an accepted code, and `proven` only grows.
- *PasswordReset*, `BurntInv`: a consumed flow has replaced the password, no copy
  in a handler is consumed (it was checked when it was read), and the handler
  about to consume has replaced the password. A stale write can only reopen a flow.
- *Profile*: the old avatar a request read was an avatar, and the new one it is
  about to store was verified or read, so neither comes from anywhere else.
- *AccountLifecycle*, `JointInv`: the invariants of both parts and `RowsGone`
  (a deleted user has no token row: the cascade removes them and the foreign key
  refuses an insert that comes later). The invariants of the parts say which
  account a request or a round works on, which is what a joint step
  hands to the other part. That the composition implements both parts carries
  everything proved of them, the deletion contract included, to a system in which
  handlers and workers run next to each other.
- *ServedProfile*, `ServedInv`: what each phase of `run()` has already opened and
  not yet closed (`PhaseSound`), with the invariants of `Profile`; a stop or a
  restart cuts requests short, which for `Profile` is a `Fail`.
- *Validation*: no induction over strings is needed. A string has at
  least as many bytes as characters, and no more when all are ASCII digits
  (`SizeBounds`), so `otpLength` bytes without a non-digit are the codes an
  authenticator displays (`OTPFormat`), and a body whose other fields are in order
  fails on its code alone or not at all (`OneFails`). The result holds for every
  code length and length of strings; the run takes 3 and 4.

What holds when requests do not overlap:

- *PasswordReset* carries the condition in the state (`calm`): `CalmSound` says
  that the one request in progress holds the row as it is, that the attempts a
  row counts are the ones that were answered, and that a flow that completed a
  reset is consumed.
- *Profile* carries it in `overlap` (have requests ever overlapped, do they now)
  and `calm`, which ends with an overlap or a request that is lost and begins again
  when a change of the avatar completes alone. `Alone` says why it may: a request
  that met no other has read the present avatar and writes a file it has verified,
  so its update leaves a stored avatar whatever was there before.
- *Sessions* and *TwoFactor* carry it as a hypothesis on the behaviour,
  `[]NoOverlap`. For sessions it is about each account: requests of different
  accounts overlap freely, so the theorems say more than the run
  `SessionsSerial`, which has one request. In both, requests may fail anywhere.
  `SerialInv` says for every step of a handler (`Stage`) what it has read and is
  still true, and for the state between requests that a live token is the active
  session's (`Tokens`), that the row holds the last period accepted (`Spent`),
  every failure that was answered (`Counted`) and no open challenge that was used
  (`Answered`).
- The hypothesis cannot be dropped: the violation runs and the configurations
  of section 3 are behaviours of the same specifications that violate these
  properties without it.
- `GuessesLockOut` also needs a lockout that lasts. `config.Load` reads
  `TOTP_LOCKOUT_DURATION` (15 minutes by default) without a lower bound, and with
  zero the cap resets the count and locks nothing.

Only model-checked: `DeletionCompletes`, `DeletionIsTotal`, `SignalStops` and the
progress part of `ImplementsContract`. They are liveness under fairness, which,
like `ENABLED`, is outside what the prover handles.

## 5. Not modelled

- The branch of `DeleteAccount` for a service built without a
  `DeletionRequester`: `cmd/server` always passes one.
- Signing, JWKS, bcrypt, token hashing and the cipher: stateless. Their promise
  (distinct ids, nothing accepted without the right secret) is an assumption.
- Response formats, cookies, the mapping of errors to status codes, health
  checks, `dbclear`, `keygen`: no state of the service.
- The values of the optional variables: they are the constants of the models.
- Which password a login challenge was issued for: the code does not record it,
  and an open challenge survives a password change until it expires.
- A downstream service that fails for ever: a deletion job keeps its place in the
  queue (the backoff is written to the step, not to the job), so later jobs wait
  behind it; nothing promises otherwise.
- Attempt counters and `next_attempt_at` of deletion steps: written, never read.

## 6. Plan

Done, in this order: `Sessions`, `AccountDeletion`, `TwoFactor`,
`PasswordReset`, `Profile` and their first proofs; `DeletionContract` and the
refinement; the compositions `AccountLifecycle` and `ServedProfile`; `Server`
and `Validation`; the proofs of every safety property a passing run checks.

Next, proofs:
1. The contract and the serial session results restated for the composition
   (`LifecycleSpec => Contract!Spec`, `LifecycleSpec /\ []NoOverlap => ...`), from
   the two refinement theorems.
2. Which of the serial properties survive overlap with requests that write
   nothing they share, so that `NoOverlap` can be weakened to conflicting ones.
