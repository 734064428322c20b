---------------------------- MODULE ServedProfile ----------------------------
(***************************************************************************)
(* Profile behind the HTTP server: what start-up, shutdown and restart of  *)
(* the replica do to profile updates in flight, and which request bodies   *)
(* become updates.  The requests in flight of Server are those of Profile. *)
(***************************************************************************)
EXTENDS Profile, Validation

CONSTANT Variables

VARIABLES phase, env, db, redis, signalled, listener, code

server   == <<phase, env, db, redis, signalled, listener, code>>
InFlight == {p \in Reqs : ~At(p, "idle")}

Srv == INSTANCE Server WITH inflight <- InFlight

allVars == <<vars, server>>

ServedInit == Init /\ Srv!Init

-----------------------------------------------------------------------------
(* Names that are blank, fit or are too long.                               *)
Names == {<<>>, <<"space">>, <<"letter">>, [i \in 1..(maxNameLength + 1) |-> "letter"]}

(* PUT /profile: RequireAuth asks Redis, the body is validated, and         *)
(* UpdateProfile reads the row; the avatar field says which update it is.   *)
Receive(p) ==
  \E first, last \in Names, a \in Media \cup {"absent", "empty", "other"} :
    /\ redis = "open" /\ db = "open"
    /\ UpdateProfileRequest(first, last, a, Media) = {}
    /\ \/ a = "absent" /\ KeepAvatar(p)
       \/ a = "empty" /\ RemoveAvatar(p)
       \/ a \in Media /\ ReplaceAvatar(p, a)
    /\ Srv!Accept(p)

(* A handler's calls of media-service need neither pool.                    *)
CallMedia(p) ==
  /\ VerifyOwnership(p) \/ DeleteByIDs(p) \/ DeleteFails(p) \/ Fail(p)
  /\ UNCHANGED server

Store(p) == db = "open" /\ UpdateUser(p) /\ UNCHANGED server

(* The pool was closed under the handler.                                   *)
StoreFails(p) ==
  /\ db # "open" /\ At(p, "update")
  /\ Return(p) /\ calm' = FALSE
  /\ UNCHANGED <<avatar, stored, uploaded, worn, failures, overlap, server>>

(* The process ends with its handlers wherever they are.                    *)
CutOff ==
  /\ req' = [p \in Reqs |-> Idle] /\ calm' = (calm /\ Quiet)
  /\ Srv!Exit
  /\ UNCHANGED <<avatar, stored, uploaded, worn, failures, overlap>>

Run == (UNCHANGED vars /\ Srv!Main) \/ CutOff

ServedNext ==
  \/ Run
  \/ \E p \in Reqs : Receive(p) \/ CallMedia(p) \/ Store(p) \/ StoreFails(p)
  \/ \E m \in Media : Upload(m) /\ UNCHANGED server
  \/ UNCHANGED vars /\ (Srv!Listen \/ Srv!ServeFails \/ Srv!Signal \/ Srv!Restart)

(* The main goroutine runs: its connection attempts and Shutdown have       *)
(* timeouts, so each of its steps ends.  Handlers need no fairness.         *)
ServedSpec == ServedInit /\ [][ServedNext]_allVars /\ WF_allVars(Run)

-----------------------------------------------------------------------------
(* The properties of the server, of the requests it really has.             *)
RequestsHaveStores   == Srv!RequestsHaveStores
CleanStopCutsNothing == Srv!CleanStopCutsNothing
SignalStops          == Srv!SignalStops

(* "a malformed code never consumes an OTP-lockout attempt": of all         *)
(* strings, those of the right number of bytes in other scripts included,   *)
(* no request lets one through to verifyOTP that an authenticator does not  *)
(* display, every code it does display gets there, and all requests that    *)
(* carry a code agree.  A fact about strings, the same in every state: the  *)
(* listener only says when a server reads requests at all.                  *)
OTPGateIsExact ==
  listener = "open" => CodesLetThrough = Displayed /\ CodesSplit = {}
==============================================================================
