------------------------------- MODULE Server -------------------------------
(***************************************************************************)
(* One replica's process: run() of cmd/server, from config.Load to the     *)
(* deferred closes, the goroutine of the HTTP server, and the signal that  *)
(* ends it.  The deferred calls run in reverse order: Redis, the database, *)
(* then stop(), which is the end of the process.                           *)
(*                                                                         *)
(* server.Server of beebase-common and net/http are modelled from how      *)
(* run() uses them: Shutdown closes the listener and idle connections,     *)
(* waits for the requests in flight and gives up after                     *)
(* HTTP_SHUTDOWN_TIMEOUT; after a failure of the listener requests still   *)
(* come in on connections that are open.                                   *)
(***************************************************************************)
CONSTANT Variables  \* required environment variables

VARIABLES
  phase,      \* where the main goroutine is
  env,        \* the variables of Variables that are set and not empty
  db, redis,  \* the connection pools
  signalled,  \* SIGINT or SIGTERM was received: ctx is done
  listener,   \* the HTTP goroutine
  code,       \* what run() returns
  inflight    \* requests being handled

vars == <<phase, env, db, redis, signalled, listener, code, inflight>>

Init ==
  /\ phase = "load" /\ env = Variables
  /\ db = "none" /\ redis = "none"
  /\ signalled = FALSE /\ listener = "none" /\ code = "none"
  /\ inflight = {}

-----------------------------------------------------------------------------
(* Fault: run() goes on with an incomplete configuration.                   *)
LoadAnything ==
  /\ phase = "load" /\ phase' = "database"
  /\ UNCHANGED <<env, db, redis, signalled, listener, code, inflight>>

(* config.Load: every required variable is set, or run() returns at once.   *)
(* Other variables fall back to their defaults when they are not set or not *)
(* of their type.                                                           *)
Load ==
  /\ phase = "load"
  /\ IF env = Variables THEN phase' = "database" /\ UNCHANGED code
                        ELSE phase' = "exit" /\ code' = "error"
  /\ UNCHANGED <<env, db, redis, signalled, listener, inflight>>

(* Both connections are made under ctx, so they fail once it is done.       *)
ConnectDatabase ==
  /\ phase = "database"
  /\ \/ ~signalled /\ db' = "open" /\ phase' = "redis" /\ UNCHANGED code
     \/ phase' = "exit" /\ code' = "error" /\ UNCHANGED db
  /\ UNCHANGED <<env, redis, signalled, listener, inflight>>

ConnectRedis ==
  /\ phase = "redis"
  /\ \/ ~signalled /\ redis' = "open" /\ phase' = "keys" /\ UNCHANGED code
     \/ phase' = "closeDatabase" /\ code' = "error" /\ UNCHANGED redis
  /\ UNCHANGED <<env, db, signalled, listener, inflight>>

(* The signing key and the TOTP key are decoded, the service and its router *)
(* are built, and the worker's and the HTTP goroutine started; a bad key    *)
(* ends run().                                                              *)
Start ==
  /\ phase = "keys"
  /\ \/ phase' = "select" /\ listener' = "starting" /\ UNCHANGED code
     \/ phase' = "closeRedis" /\ code' = "error" /\ UNCHANGED listener
  /\ UNCHANGED <<env, db, redis, signalled, inflight>>

(* srv.Run in its goroutine: the port is bound or not, and serving may fail *)
(* later.  After Shutdown it returns without binding it.                    *)
Listen ==
  /\ listener = "starting" /\ listener' \in {"open", "failed"}
  /\ UNCHANGED <<phase, env, db, redis, signalled, code, inflight>>

ServeFails ==
  /\ listener = "open" /\ listener' = "failed"
  /\ UNCHANGED <<phase, env, db, redis, signalled, code, inflight>>

(* Fault: the main goroutine waits for the HTTP goroutine only.             *)
SelectErrorOnly ==
  /\ phase = "select"
  /\ listener = "failed" /\ phase' = "closeRedis" /\ code' = "error"
  /\ UNCHANGED <<env, db, redis, signalled, listener, inflight>>

(* select: when both channels are ready either case may be taken.           *)
Select ==
  /\ phase = "select"
  /\ \/ listener = "failed" /\ phase' = "closeRedis" /\ code' = "error"
     \/ signalled /\ phase' = "shutdown" /\ UNCHANGED code
  /\ UNCHANGED <<env, db, redis, signalled, listener, inflight>>

StopListening ==
  /\ phase = "shutdown" /\ phase' = "drain"
  /\ listener' = "closed"
  /\ UNCHANGED <<env, db, redis, signalled, code, inflight>>

(* Fault: the server is closed, not shut down.                              *)
DrainNothing ==
  /\ phase = "drain" /\ phase' = "closeRedis" /\ code' = "ok"
  /\ UNCHANGED <<env, db, redis, signalled, listener, inflight>>

(* The rest of Shutdown: no request is left, or shutdownCtx has expired.    *)
Drain ==
  /\ phase = "drain" /\ phase' = "closeRedis"
  /\ code' = IF inflight = {} THEN "ok" ELSE "error"
  /\ UNCHANGED <<env, db, redis, signalled, listener, inflight>>

CloseRedis ==
  /\ phase = "closeRedis" /\ phase' = "closeDatabase" /\ redis' = "closed"
  /\ UNCHANGED <<env, db, signalled, listener, code, inflight>>

(* db.Close waits for the statements in progress, which are single steps.   *)
CloseDatabase ==
  /\ phase = "closeDatabase" /\ phase' = "exit" /\ db' = "closed"
  /\ UNCHANGED <<env, redis, signalled, listener, code, inflight>>

(* main returns or calls os.Exit: whatever still runs is gone.              *)
Exit ==
  /\ phase = "exit" /\ phase' = "exited"
  /\ inflight' = {}
  /\ UNCHANGED <<env, db, redis, signalled, listener, code>>

Main ==
  \/ Load \/ ConnectDatabase \/ ConnectRedis \/ Start \/ Select
  \/ StopListening \/ Drain \/ CloseRedis \/ CloseDatabase

-----------------------------------------------------------------------------
(* A signal: kills a process that has not called NotifyContext yet.         *)
Signal ==
  /\ phase # "exited" /\ ~signalled
  /\ signalled' = TRUE
  /\ IF phase = "load" THEN phase' = "exit" /\ code' = "error" ELSE UNCHANGED <<phase, code>>
  /\ UNCHANGED <<env, db, redis, listener, inflight>>

(* The supervisor starts the process again, with whatever is in its         *)
(* environment then.                                                        *)
Restart ==
  /\ phase = "exited" /\ phase' = "load"
  /\ \E v \in Variables : env' \in {Variables, Variables \ {v}}
  /\ db' = "none" /\ redis' = "none"
  /\ signalled' = FALSE /\ listener' = "none" /\ code' = "none"
  /\ UNCHANGED inflight

(* A request is accepted, on a new connection or on one still open.  How it *)
(* is answered is up to the module that has the handlers.                   *)
Accept(p) ==
  /\ listener \in {"open", "failed"} /\ phase # "exited"
  /\ p \notin inflight /\ inflight' = inflight \cup {p}
  /\ UNCHANGED <<phase, env, db, redis, signalled, listener, code>>

-----------------------------------------------------------------------------
(* A request in flight has what its handler needs: run() got its whole      *)
(* configuration, and both pools are connected, and stay so until the last  *)
(* request was answered, however signals, restarts and failures fall; the   *)
(* exception is a process that gives up, and says so by its exit code.      *)
RequestsHaveStores ==
  inflight # {} /\ code # "error" => env = Variables /\ db = "open" /\ redis = "open"

(* "server stopped cleanly" is true: a process that ends without an error   *)
(* has cut no request short and takes none that it cannot finish.           *)
CleanStopCutsNothing ==
  code = "ok" => inflight = {} /\ listener = "closed"

(* A signal always ends the process, requests in flight or not, and at      *)
(* whatever point of start-up or failure it arrives.                        *)
SignalStops == signalled ~> phase = "exited"
=============================================================================
