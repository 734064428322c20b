------------------------- MODULE ServedProfileProofs -------------------------
(***************************************************************************)
(* Proofs about profile updates on a replica that starts, stops, fails and *)
(* is started again, for any number of requests, files and variables.      *)
(***************************************************************************)
EXTENDS ServedProfile, ProfileProofs, FiniteSetTheorems, SequenceTheorems

(***************************************************************************)
(* What run() has set up by each phase.  Requests exist only between the   *)
(* start of the listener and the end of the process; there both pools are  *)
(* open until the main goroutine closes them, which it does after Shutdown *)
(* saw the last request answered, or on its way out with an error.         *)
(***************************************************************************)
Early   == {"load", "database", "redis", "keys"}
Serving == {"select", "shutdown", "drain"}
Closing == {"closeRedis", "closeDatabase", "exit", "exited"}

PhaseSound ==
  /\ phase \in Early \cup Serving \cup Closing
  /\ phase \in Early => listener = "none"
  /\ phase \in Early \cup {"exited"} => InFlight = {}
  /\ phase \in {"database", "redis", "keys"} \cup Serving => env = Variables
  /\ phase \in {"redis", "keys"} \cup Serving => db = "open"
  /\ phase \in {"keys"} \cup Serving => redis = "open"
  /\ phase = "drain" => listener = "closed"
  /\ phase \in Closing => code \in {"ok", "error"}
  /\ phase \notin Closing => code = "none"

ServedInv == IInv /\ CalmSound /\ PhaseSound /\ CleanStopCutsNothing

-----------------------------------------------------------------------------
(* Steps of handlers and clients, seen from UpdateProfile: those of the     *)
(* module Profile.                                                          *)
LEMMA ProfileSteps ==
  ASSUME \/ \E p \in Reqs : Receive(p) \/ CallMedia(p) \/ Store(p)
         \/ \E m \in Media : Upload(m)
  PROVE  Next
BY DEF Receive, CallMedia, Store, Next

(* A handler that finds the pool closed under it ends the calm.             *)
LEMMA StoreFailsStep ==
  ASSUME IInv, CalmSound, NEW p \in Reqs, StoreFails(p)
  PROVE  IInv' /\ CalmSound'
<1> USE ProfileAssumption DEF IInv
<1>0. /\ calm' = FALSE /\ Return(p) /\ UNCHANGED <<avatar, stored, worn, overlap>>
      /\ ~At(p, "idle")
  BY DEF StoreFails, At
<1>1. calm' \in BOOLEAN
  BY <1>0, Zenon
<1>2. CalmSound'
  <2>1. CASE overlap = "now"
    BY <1>0, <2>1, CalmOverlap
  <2>2. CASE overlap # "now"
    <3>1. Alone(p) /\ (overlap = "none" => Only(avatar)')
      BY <1>0, <2>2 DEF CalmSound, Only
    <3>2. \A q \in Reqs : q # p => At(q, "idle") /\ req'[q] = req[q]
      BY <1>0, <3>1 DEF Return, Alone, TypeOK
    <3> QED BY <1>0, <2>2, <3>1, <3>2, CalmRequest
  <2> QED BY <2>1, <2>2
<1>3. TypeOK'
  <2>1. req' \in [Reqs -> [pc : {"idle", "verify", "delete", "update"}, old : Ids, new : Ids]]
    BY DEF StoreFails, Return, Idle, TypeOK, Ids
  <2> QED BY <1>1, <2>1 DEF StoreFails, TypeOK
<1>4. RowSound' /\ OnlyAvatarsAreDeleted'
  BY DEF StoreFails, RowSound, OnlyAvatarsAreDeleted
<1>5. RequestsSound'
  BY DEF StoreFails, Return, Idle, TypeOK, RequestsSound, At
<1> QED BY <1>2, <1>3, <1>4, <1>5

(* The end of the process forgets its requests; calm is over unless there   *)
(* were none.                                                               *)
LEMMA CutOffStep ==
  ASSUME IInv, CalmSound, CutOff
  PROVE  IInv' /\ CalmSound' /\ InFlight' = {}
<1> USE ProfileAssumption
<1>1. /\ UNCHANGED <<avatar, stored, uploaded, worn, failures, overlap>>
      /\ req' = [p \in Reqs |-> Idle] /\ calm' = (calm /\ Quiet)
  BY DEF CutOff
<1>2. req' \in [Reqs -> [pc : {"idle", "verify", "delete", "update"}, old : Ids, new : Ids]]
  BY <1>1 DEF Idle, Ids
<1>3. calm' \in BOOLEAN
  BY <1>1, Zenon DEF IInv, TypeOK, Quiet
<1>4. TypeOK'
  BY <1>1, <1>2, <1>3 DEF IInv, TypeOK
<1>5. RowSound' /\ OnlyAvatarsAreDeleted' /\ RequestsSound'
  BY <1>1 DEF IInv, RowSound, OnlyAvatarsAreDeleted, RequestsSound, Idle, At
<1>6. InFlight' = {}
  BY <1>1 DEF InFlight, Idle, At
<1>7. /\ calm' => overlap' # "now" /\ Has(avatar)'
      /\ overlap' = "none" => Only(avatar)'
  BY <1>1 DEF CalmSound, Has, Only
<1>8. CalmSound'
  BY <1>1, <1>7 DEF CalmSound, Idle, At
<1> QED BY <1>4, <1>5, <1>6, <1>8 DEF IInv

-----------------------------------------------------------------------------
(* A handler's step ends at most its own request.                           *)
LEMMA NoNewRequest ==
  ASSUME TypeOK, NEW p \in Reqs, CallMedia(p) \/ Store(p) \/ StoreFails(p)
  PROVE  InFlight' \subseteq InFlight
<1>1. ~At(p, "idle")
  BY DEF CallMedia, Store, StoreFails, VerifyOwnership, DeleteByIDs, DeleteFails, Fail,
         UpdateUser, At
<1>2. \A q \in Reqs : q # p => req'[q] = req[q]
  BY DEF CallMedia, Store, StoreFails, VerifyOwnership, DeleteByIDs, DeleteFails, Fail,
         UpdateUser, Goto, Return, TypeOK
<1> QED BY <1>1, <1>2 DEF InFlight, At

(* The server is as it was and has no more requests than it had.            *)
LEMMA ServerStays ==
  ASSUME PhaseSound, CleanStopCutsNothing, UNCHANGED server, InFlight' \subseteq InFlight
  PROVE  PhaseSound' /\ CleanStopCutsNothing'
BY DEF PhaseSound, CleanStopCutsNothing, Srv!CleanStopCutsNothing, server

(* Steps of the main goroutine.                                             *)
LEMMA MainStep ==
  ASSUME PhaseSound, CleanStopCutsNothing, Srv!Main
  PROVE  PhaseSound' /\ CleanStopCutsNothing'
<1> USE DEF PhaseSound, CleanStopCutsNothing, Srv!CleanStopCutsNothing, Early, Serving, Closing
<1>1. CASE Srv!Load
  BY <1>1 DEF Srv!Load
<1>2. CASE Srv!ConnectDatabase
  BY <1>2 DEF Srv!ConnectDatabase
<1>3. CASE Srv!ConnectRedis
  BY <1>3 DEF Srv!ConnectRedis
<1>4. CASE Srv!Start
  BY <1>4 DEF Srv!Start
<1>5. CASE Srv!Select
  BY <1>5 DEF Srv!Select
<1>6. CASE Srv!StopListening
  BY <1>6 DEF Srv!StopListening
<1>7. CASE Srv!Drain
  BY <1>7 DEF Srv!Drain
<1>8. CASE Srv!CloseRedis
  BY <1>8 DEF Srv!CloseRedis
<1>9. CASE Srv!CloseDatabase
  BY <1>9 DEF Srv!CloseDatabase
<1> QED BY <1>1, <1>2, <1>3, <1>4, <1>5, <1>6, <1>7, <1>8, <1>9 DEF Srv!Main

(* What happens around the main goroutine.                                  *)
LEMMA AroundStep ==
  ASSUME PhaseSound, CleanStopCutsNothing,
         \/ Srv!Listen \/ Srv!ServeFails \/ Srv!Signal \/ Srv!Restart \/ Srv!Exit
         \/ \E p \in Reqs : Srv!Accept(p)
  PROVE  PhaseSound' /\ CleanStopCutsNothing'
<1> USE DEF PhaseSound, CleanStopCutsNothing, Srv!CleanStopCutsNothing, Early, Serving, Closing
<1>1. CASE Srv!Listen \/ Srv!ServeFails
  BY <1>1 DEF Srv!Listen, Srv!ServeFails
<1>2. CASE Srv!Signal
  BY <1>2 DEF Srv!Signal
<1>3. CASE Srv!Restart
  BY <1>3 DEF Srv!Restart
<1>4. CASE Srv!Exit
  BY <1>4 DEF Srv!Exit
<1>5. CASE \E p \in Reqs : Srv!Accept(p)
  BY <1>5 DEF Srv!Accept
<1> QED BY <1>1, <1>2, <1>3, <1>4, <1>5

-----------------------------------------------------------------------------
(* The replica starts without files, requests or connections.               *)
LEMMA ServedInitial == ServedInit => ServedInv
<1> SUFFICES ASSUME ServedInit PROVE ServedInv
  OBVIOUS
<1>1. IInv
  BY InvInit DEF ServedInit
<1>2. CalmSound
  BY DEF ServedInit, Init, Idle, CalmSound, Quiet, Has, Only, At
<1>3. PhaseSound /\ CleanStopCutsNothing
  BY DEF ServedInit, Srv!Init, PhaseSound, CleanStopCutsNothing, Srv!CleanStopCutsNothing,
         Early, Serving, Closing
<1> QED BY <1>1, <1>2, <1>3 DEF ServedInv

(* Every step keeps the invariant.                                          *)
LEMMA ServedStep == ServedInv /\ [ServedNext]_allVars => ServedInv'
<1> SUFFICES ASSUME ServedInv, [ServedNext]_allVars PROVE ServedInv'
  OBVIOUS
<1> USE DEF ServedInv
<1>0. TypeOK
  BY DEF IInv
<1>1. ASSUME UNCHANGED vars PROVE IInv' /\ CalmSound' /\ InFlight' = InFlight
  BY <1>1, InvStep, CalmStep DEF vars, InFlight, At
<1>2. ASSUME Next PROVE IInv' /\ CalmSound'
  BY <1>2, InvStep, CalmStep
<1>3. CASE UNCHANGED allVars
  BY <1>1, <1>3, ServerStays DEF allVars
<1>4. CASE UNCHANGED vars /\ Srv!Main
  BY <1>1, <1>4, MainStep
<1>5. CASE CutOff
  BY <1>5, CutOffStep, AroundStep DEF CutOff
<1>6. ASSUME NEW p \in Reqs, Receive(p) PROVE ServedInv'
  BY <1>2, <1>6, ProfileSteps, AroundStep DEF Receive
<1>7. ASSUME NEW p \in Reqs, CallMedia(p) \/ Store(p) PROVE ServedInv'
  <2>1. UNCHANGED server
    BY <1>7 DEF CallMedia, Store
  <2> QED BY <1>0, <1>2, <1>7, <2>1, ProfileSteps, NoNewRequest, ServerStays
<1>8. ASSUME NEW p \in Reqs, StoreFails(p) PROVE ServedInv'
  <2>1. UNCHANGED server
    BY <1>8 DEF StoreFails, server
  <2> QED BY <1>0, <1>8, <2>1, StoreFailsStep, NoNewRequest, ServerStays
<1>9. ASSUME NEW m \in Media, Upload(m), UNCHANGED server PROVE ServedInv'
  <2>1. InFlight' = InFlight
    BY <1>9 DEF Upload, InFlight, At
  <2> QED BY <1>2, <1>9, <2>1, ProfileSteps, ServerStays
<1>10. CASE UNCHANGED vars /\ (Srv!Listen \/ Srv!ServeFails \/ Srv!Signal \/ Srv!Restart)
  BY <1>1, <1>10, AroundStep
<1> QED BY <1>3, <1>4, <1>5, <1>6, <1>7, <1>8, <1>9, <1>10 DEF ServedNext, Run

(* No signal, failure or restart of the replica leaves the invariant.       *)
THEOREM ServedInvariance == ServedSpec => []ServedInv
BY ServedInitial, ServedStep, PTL DEF ServedSpec

(* run(): a request in flight has its stores, unless the process is giving  *)
(* up with an error, at whatever moment signals, failures of the listener   *)
(* and restarts come.                                                       *)
THEOREM StoresOutliveRequests == ServedSpec => []RequestsHaveStores
<1>1. ServedInv => RequestsHaveStores
  BY DEF ServedInv, PhaseSound, CleanStopCutsNothing, Srv!CleanStopCutsNothing,
         RequestsHaveStores, Srv!RequestsHaveStores, Early, Serving, Closing
<1> QED BY <1>1, ServedInvariance, PTL

(* run(): "server stopped cleanly" means that no request was cut short.     *)
THEOREM CleanStop == ServedSpec => []CleanStopCutsNothing
<1>1. ServedInv => CleanStopCutsNothing
  BY DEF ServedInv
<1> QED BY <1>1, ServedInvariance, PTL

(* UpdateProfile on a replica that may stop under it and start again still  *)
(* destroys no file that was not an avatar.                                 *)
THEOREM ServedFilesSafe == ServedSpec => []OnlyAvatarsAreDeleted
<1>1. ServedInv => OnlyAvatarsAreDeleted
  BY DEF ServedInv, IInv
<1> QED BY <1>1, ServedInvariance, PTL

(* UpdateProfile on such a replica: a stop may leave an avatar without its  *)
(* file, and the next change of the avatar that is completed alone repairs  *)
(* it, before or after a restart; a former avatar's file it leaves only if  *)
(* requests overlapped.                                                     *)
THEOREM ServedAvatarStored == ServedSpec => [](AvatarIsStored /\ NoOrphanedAvatar)
<1>1. ServedInv => AvatarIsStored /\ NoOrphanedAvatar
  BY DEF ServedInv, CalmSound, Has, Only, AvatarIsStored, NoOrphanedAvatar
<1> QED BY <1>1, ServedInvariance, PTL
-----------------------------------------------------------------------------
(***************************************************************************)
(* Validation, for every code length, password policy and length of the    *)
(* strings tried.                                                          *)
(***************************************************************************)

(* The length of a string in bytes is at least its number of characters,    *)
(* and no more where every character is one byte.                           *)
LEMMA SizeBounds ==
  ASSUME NEW s \in Seq(Chars)
  PROVE  /\ Size(s) \in Nat /\ Size(s) >= Len(s)
         /\ ~HasAny(s, Chars \ {"digit"}) => Size(s) = Len(s)
<1>1. \A class : Count(s, class) \in Nat
  <2> SUFFICES ASSUME NEW class PROVE Count(s, class) \in Nat
    OBVIOUS
  <2>1. IsFiniteSet(1..Len(s))
    BY FS_Interval
  <2>2. {i \in DOMAIN s : s[i] \in class} \subseteq 1..Len(s)
    OBVIOUS
  <2>3. IsFiniteSet({i \in DOMAIN s : s[i] \in class})
    BY <2>1, <2>2, FS_Subset
  <2> QED BY <2>3, FS_CardinalityType DEF Count
<1>2. ASSUME ~HasAny(s, Chars \ {"digit"})
      PROVE  Count(s, {"udigit"}) = 0 /\ Count(s, {"wide"}) = 0
  <2>1. \A i \in DOMAIN s : s[i] = "digit"
    BY <1>2 DEF HasAny
  <2>2. {i \in DOMAIN s : s[i] \in {"udigit"}} = {} /\ {i \in DOMAIN s : s[i] \in {"wide"}} = {}
    BY <2>1
  <2> QED BY <2>2, FS_EmptySet DEF Count
<1> QED BY <1>1, <1>2 DEF Size

(* validateOTP lets through otpLength ASCII digits and nothing else.        *)
LEMMA OTPFormat ==
  ASSUME NEW c \in Seq(Chars)
  PROVE  validateOTP(c) = "" <=> c \in Displayed
<1> USE ValidationAssumption
<1>1. ASSUME validateOTP(c) = "" PROVE c \in Displayed
  <2>1. c # <<>> /\ Size(c) = otpLength /\ ~HasAny(c, Chars \ {"digit"})
    BY <1>1 DEF validateOTP
  <2>2. Len(c) = otpLength
    BY <2>1, SizeBounds
  <2>3. \A i \in 1..Len(c) : c[i] = "digit"
    BY <2>1 DEF HasAny
  <2> QED BY <2>2, <2>3 DEF Displayed
<1>2. ASSUME c \in Displayed PROVE validateOTP(c) = ""
  <2>1. Len(c) = otpLength /\ \A i \in DOMAIN c : c[i] = "digit"
    BY <1>2 DEF Displayed
  <2>2. ~HasAny(c, Chars \ {"digit"})
    BY <2>1 DEF HasAny
  <2>3. Size(c) = otpLength
    BY <2>1, <2>2, SizeBounds
  <2>4. c # <<>>
    BY <2>1
  <2> QED BY <2>2, <2>3, <2>4 DEF validateOTP
<1> QED BY <1>1, <1>2

(* The fields map when at most one field can fail.                          *)
LEMMA OneFails ==
  ASSUME NEW r, NEW f \in DOMAIN r, \A g \in DOMAIN r : g # f => r[g] = ""
  PROVE  Failing(r) = IF r[f] = "" THEN {} ELSE {f}
BY DEF Failing

(* A token that is not blank.                                               *)
LEMMA LetterRequired == ASSUME NEW m PROVE Required(<<"letter">>, m) = ""
<1> DEFINE s == <<"letter">>
<1>1. {i \in DOMAIN s : s[i] # "space"} = {1}
  OBVIOUS
<1>2. /\ (CHOOSE i \in {1} : \A j \in {1} : i <= j) = 1
      /\ (CHOOSE i \in {1} : \A j \in {1} : j <= i) = 1
  OBVIOUS
<1>3. TrimSpace(s) = SubSeq(s, 1, 1)
  BY <1>1, <1>2 DEF TrimSpace
<1>4. SubSeq(s, 1, 1) # <<>>
  OBVIOUS
<1> QED BY <1>3, <1>4 DEF Required

(* A new password that Register and ChangePassword take.                    *)
LEMMA NewPasswordFits ==
  validatePassword(<<"digit", "special">> \o [i \in 1..minPasswordLength |-> "letter"]) = ""
<1> USE ValidationAssumption
<1> DEFINE t == [i \in 1..minPasswordLength |-> "letter"]
           n == <<"digit", "special">> \o t
<1>1. t \in Seq(Chars) /\ Len(t) = minPasswordLength
  BY DEF Chars
<1>2. <<"digit", "special">> \in Seq(Chars)
  BY DEF Chars
<1> HIDE DEF t
<1>3. n \in Seq(Chars) /\ Len(n) = 2 + minPasswordLength /\ n[1] = "digit" /\ n[2] = "special"
  BY <1>1, <1>2
<1> HIDE DEF n
<1>4. Size(n) \in Nat /\ Size(n) >= minPasswordLength
  BY <1>3, SizeBounds
<1>5. containsDigit(n) /\ HasAny(n, {"special"})
  BY <1>3 DEF containsDigit, HasAny
<1>6. validatePassword(n) = ""
  BY <1>4, <1>5 DEF validatePassword
<1> QED BY <1>6 DEF n, t

(* Of a request that is right otherwise, the code alone decides; the five   *)
(* requests of both packages decide alike.                                  *)
LEMMA OTPRequests ==
  ASSUME NEW c
  PROVE  OTPVerdicts(c) = IF validateOTP(c) = "" THEN {{}} ELSE {{"otp"}}
<1> DEFINE v == validateOTP(c)
           token == <<"letter">>
           new == <<"digit", "special">> \o [i \in 1..minPasswordLength |-> "letter"]
           V == IF v = "" THEN {} ELSE {"otp"}
<1>0. validatePassword(new) = "" /\ \A m : Required(token, m) = ""
  BY NewPasswordFits, LetterRequired
<1>1. token # <<>>
  OBVIOUS
<1>2. validateProfileOTP(c) = v
  BY DEF validateOTP, validateProfileOTP
<1> HIDE DEF v, token, new
<1>3. SetupVerifyRequest(token, c) = V
  <2> DEFINE r == [setupToken |-> Required(token, "setup_token_required"), otp |-> v]
  <2>1. DOMAIN r = {"setupToken", "otp"} /\ r["otp"] = v /\ r["setupToken"] = ""
    BY <1>0
  <2> HIDE DEF r
  <2>2. \A g \in DOMAIN r : g # "otp" => r[g] = ""
    BY <2>1
  <2>3. Failing(r) = V
    BY <2>1, <2>2, OneFails
  <2> QED BY <1>0, <2>3 DEF SetupVerifyRequest, r, v
<1>4. LoginVerifyOTPRequest(token, c) = V
  <2> DEFINE r == [challengeToken |-> Required(token, "challenge_token_required"), otp |-> v]
  <2>1. DOMAIN r = {"challengeToken", "otp"} /\ r["otp"] = v /\ r["challengeToken"] = ""
    BY <1>0
  <2> HIDE DEF r
  <2>2. \A g \in DOMAIN r : g # "otp" => r[g] = ""
    BY <2>1
  <2>3. Failing(r) = V
    BY <2>1, <2>2, OneFails
  <2> QED BY <1>0, <2>3 DEF LoginVerifyOTPRequest, r, v
<1>5. PasswordResetVerifyOTPRequest(token, c) = V
  <2> DEFINE r == [flowToken |-> Required(token, "flow_token_required"), otp |-> v]
  <2>1. DOMAIN r = {"flowToken", "otp"} /\ r["otp"] = v /\ r["flowToken"] = ""
    BY <1>0
  <2> HIDE DEF r
  <2>2. \A g \in DOMAIN r : g # "otp" => r[g] = ""
    BY <2>1
  <2>3. Failing(r) = V
    BY <2>1, <2>2, OneFails
  <2> QED BY <1>0, <2>3 DEF PasswordResetVerifyOTPRequest, r, v
<1>6. ChangePasswordRequest(token, new, c) = V
  <2> DEFINE r == [currentPassword |-> IF token = <<>> THEN "current_password_required" ELSE "",
                   newPassword |-> validatePassword(new), otp |-> v]
  <2>1. DOMAIN r = {"currentPassword", "newPassword", "otp"} /\ r["otp"] = v
        /\ r["currentPassword"] = "" /\ r["newPassword"] = ""
    BY <1>0, <1>1
  <2> HIDE DEF r
  <2>2. \A g \in DOMAIN r : g # "otp" => r[g] = ""
    BY <2>1
  <2>3. Failing(r) = V
    BY <2>1, <2>2, OneFails
  <2> QED BY <1>0, <1>1, <2>3 DEF ChangePasswordRequest, r, v
<1>7. DeleteAccountRequest(c) = V
  <2> DEFINE r == [otp |-> v]
  <2>1. DOMAIN r = {"otp"} /\ r["otp"] = v
    OBVIOUS
  <2> HIDE DEF r
  <2>2. \A g \in DOMAIN r : g # "otp" => r[g] = ""
    BY <2>1
  <2>3. Failing(r) = V
    BY <2>1, <2>2, OneFails
  <2> QED BY <1>2, <2>3 DEF DeleteAccountRequest, r, v
<1>8. OTPVerdicts(c) = {V}
  BY <1>3, <1>4, <1>5, <1>6, <1>7 DEF OTPVerdicts, token, new
<1> QED BY <1>8 DEF v

(* The strings that are tried, with every displayed code among them.        *)
LEMMA StringsAreSeqs == Strings \subseteq Seq(Chars) /\ Displayed \subseteq Strings
<1> USE ValidationAssumption
<1>1. ASSUME NEW s \in [1..MaxProbe -> Chars], NEW n \in 0..MaxProbe
      PROVE  SubSeq(s, 1, n) \in Seq(Chars)
  <2>1. s \in Seq(Chars) /\ Len(s) = MaxProbe
    OBVIOUS
  <2> QED BY <2>1
<1>2. ASSUME NEW d \in Displayed PROVE d \in Strings
  <2> DEFINE s == [i \in 1..MaxProbe |-> "digit"]
  <2>1. s \in [1..MaxProbe -> Chars] /\ otpLength \in 0..MaxProbe
    BY DEF Chars
  <2>2. SubSeq(s, 1, otpLength) = d
    BY DEF Displayed
  <2> QED BY <2>1, <2>2 DEF Strings
<1>3. Strings \subseteq Seq(Chars)
  BY <1>1 DEF Strings
<1> QED BY <1>2, <1>3

(* A code passes exactly when an authenticator displays it.                 *)
LEMMA GateExact == CodesLetThrough = Displayed /\ CodesSplit = {}
<1>1. \A c \in Strings : {} \in OTPVerdicts(c) <=> c \in Displayed
  BY OTPRequests, OTPFormat, StringsAreSeqs
<1>2. \A c \in Strings : OTPVerdicts(c) \in {{{}}, {{"otp"}}}
  BY OTPRequests
<1> QED BY <1>1, <1>2, StringsAreSeqs DEF CodesLetThrough, CodesSplit

(* validateOTP of both packages: whatever the length of codes, no request   *)
(* reaches verifyOTP with a code that an authenticator does not display,    *)
(* and none with one it does display is refused for it.                     *)
THEOREM OTPGate == ServedSpec => []OTPGateIsExact
<1>1. OTPGateIsExact
  BY GateExact DEF OTPGateIsExact
<1> QED BY <1>1, PTL
==============================================================================
