------------------------------- MODULE Server -------------------------------
(***************************************************************************)
(* The life of the server process: run and runServer of cmd/server, the    *)
(* database pool of internal/db and the requests and detached goroutines   *)
(* that use it.  A signal may come at any time.  net/http and pgxpool are  *)
(* external: Shutdown stops accepting and waits for the handlers, Close    *)
(* cuts their connections and waits for nothing, and closing the pool      *)
(* refuses new acquisitions and waits for the connections in use.          *)
(***************************************************************************)
EXTENDS Config, FiniteSets

CONSTANTS
  Request,
  Env,          \* the environments the process may be started in
  MaxConns,     \* pool size
  StartFaults   \* the later steps of the start that may fail

StartSteps == {"config", "connect", "migrate", "listen", "serve"}

ASSUME ServerAssumption ==
  /\ IsFiniteSet(Request)
  /\ MaxConns \in Nat \ {0}
  /\ \A env \in Env : env \in [EnvKeys -> [is : Values, n : Int]]
  /\ StartFaults \subseteq StartSteps \ {"config"}

VARIABLES
  phase,   \* where run and runServer are
  pool,    \* "none", "open", "closing" or "closed"
  signal,  \* SIGINT or SIGTERM was received: ctx is cancelled
  code,    \* what the process exits with, once it is decided; -1 before
  environ, \* the environment, until a Config is loaded from it
  cfg,     \* of the Config, whether to apply the migrations
  named,   \* the variables that an error of Load named
  req,     \* the handler of a request: "db" while it holds a connection
  cut,     \* its connection was closed by Close
  dbLost,  \* it was refused a connection by a pool that is closing
  audit    \* the goroutine that writes its gateway_usage row

vars == << phase, pool, signal, code, environ, cfg, named, req, cut, dbLost, audit >>
conf == << environ, cfg, named >>
reqVars == << req, cut, dbLost, audit >>

Codes == {0 - 1, 0, 1}
TypeOK ==
  /\ phase \in StartSteps \cup {"serving", "draining", "closing", "exited"}
  /\ pool \in {"none", "open", "closing", "closed"}
  /\ signal \in BOOLEAN
  /\ code \in Codes
  /\ cfg \in [autoMigrate : BOOLEAN]
  /\ environ \in Env \cup {NoEnv}
  /\ named \subseteq EnvKeys
  /\ req \in [Request -> {"idle", "working", "db", "returned", "killed"}]
  /\ cut \in [Request -> BOOLEAN]
  /\ dbLost \in [Request -> BOOLEAN]
  /\ audit \in [Request -> {"none", "pending", "writing", "row", "lost"}]

Init ==
  /\ phase = "config"
  /\ pool = "none"
  /\ signal = FALSE
  /\ code = 0 - 1
  /\ cfg = [autoMigrate |-> FALSE]
  /\ environ \in Env
  /\ named = {}
  /\ req = [r \in Request |-> "idle"]
  /\ cut = [r \in Request |-> FALSE]
  /\ dbLost = [r \in Request |-> FALSE]
  /\ audit = [r \in Request |-> "none"]

Signal ==
  /\ ~ signal /\ phase # "exited"
  /\ signal' = TRUE
  /\ UNCHANGED << phase, pool, code, conf, reqVars >>

-----------------------------------------------------------------------------
(***************************************************************************)
(* run: each step of the start either goes on or ends the process with     *)
(* what was opened so far released.                                        *)
(***************************************************************************)
After(step) ==
  CASE step = "connect" -> IF cfg.autoMigrate THEN "migrate" ELSE "listen"
    [] step = "migrate" -> "listen"
    [] step = "listen"  -> "serving"

(* config.Load: the process starts, or ends with every variable named. *)
LoadConfig ==
  /\ phase = "config" /\ Problems(environ) = {}
  /\ phase' = "connect"
  /\ cfg' = [autoMigrate |-> Load(environ).autoMigrate]
  /\ environ' = NoEnv
  /\ UNCHANGED << pool, signal, code, named, reqVars >>

ConfigFails ==
  /\ phase = "config" /\ Problems(environ) # {}
  /\ phase' = "exited" /\ code' = 1
  /\ named' = Problems(environ)
  /\ UNCHANGED << pool, signal, environ, cfg, reqVars >>

(* The steps that use ctx fail once it is cancelled. *)
Cancelled(step) == signal /\ step \in {"connect", "migrate"}

StartStep ==
  /\ phase \in {"connect", "migrate", "listen"} /\ ~ Cancelled(phase)
  /\ phase' = After(phase)
  /\ pool' = IF phase = "connect" THEN "open" ELSE pool
  /\ UNCHANGED << signal, code, conf, reqVars >>

StartFails ==
  /\ phase \in {"connect", "migrate", "listen"}
  /\ phase \in StartFaults \/ Cancelled(phase)
  /\ phase' = "exited"
  /\ code' = 1
  /\ pool' = IF pool = "open" THEN "closed" ELSE pool
  /\ UNCHANGED << signal, conf, reqVars >>

-----------------------------------------------------------------------------
(***************************************************************************)
(* runServer.                                                              *)
(***************************************************************************)
ServeFails ==
  /\ phase = "serving" /\ "serve" \in StartFaults
  /\ phase' = "closing" /\ pool' = "closing"
  /\ code' = 1
  /\ UNCHANGED << signal, conf, reqVars >>

BeginShutdown ==
  /\ phase = "serving" /\ signal
  /\ phase' = "draining"
  /\ UNCHANGED << pool, signal, code, conf, reqVars >>

InFlight(r) == req[r] \in {"working", "db"}

(* Mutant: The pool released when the listener is closed, before the       *)
(* handlers returned.                                                      *)
DrainedAtOnce ==
  /\ phase = "draining"
  /\ phase' = "closing" /\ pool' = "closing"
  /\ code' = 0
  /\ UNCHANGED << signal, conf, reqVars >>

(* Shutdown returns nil: the deferred pool.Close runs. *)
Drained ==
  /\ phase = "draining"
  /\ \A r \in Request : ~ InFlight(r)
  /\ phase' = "closing" /\ pool' = "closing"
  /\ code' = 0
  /\ UNCHANGED << signal, conf, reqVars >>

(* Mutant: A Shutdown without a deadline. *)
NoGrace ==
  FALSE /\ UNCHANGED vars

(* The grace is over: srv.Close, then the deferred pool.Close. *)
GraceExceeded ==
  /\ phase = "draining"
  /\ \E r \in Request : InFlight(r)
  /\ phase' = "closing" /\ pool' = "closing"
  /\ code' = 1
  /\ cut' = [r \in Request |-> cut[r] \/ InFlight(r)]
  /\ UNCHANGED << signal, conf, req, dbLost, audit >>

Holders == {r \in Request : req[r] = "db"} \cup {r \in Request : audit[r] = "writing"}

(* pool.Close has waited for the connections in use; main returns and the  *)
(* process ends with every goroutine that is left.                         *)
Exit ==
  /\ phase = "closing" /\ Holders = {}
  /\ phase' = "exited" /\ pool' = "closed"
  /\ req' = [r \in Request |-> IF InFlight(r) THEN "killed" ELSE req[r]]
  /\ audit' = [r \in Request |-> IF audit[r] = "pending" THEN "lost" ELSE audit[r]]
  /\ UNCHANGED << signal, code, conf, cut, dbLost >>

-----------------------------------------------------------------------------
(***************************************************************************)
(* A request: statements on connections of the pool, then, for a chat      *)
(* turn, the audit goroutine that outlives the handler.  No handler holds  *)
(* a connection while it asks for another.  FrontDoor says what else a     *)
(* handler does.                                                           *)
(***************************************************************************)
Accept(r) ==
  /\ phase = "serving" /\ req[r] = "idle"
  /\ req' = [req EXCEPT ![r] = "working"]
  /\ UNCHANGED << phase, pool, signal, code, conf, cut, dbLost, audit >>

HasConn == pool = "open" /\ Cardinality({r \in Request : req[r] = "db"})
                              + Cardinality({r \in Request : audit[r] = "writing"}) < MaxConns

Acquire(r) ==
  /\ req[r] = "working" /\ ~ cut[r] /\ HasConn
  /\ req' = [req EXCEPT ![r] = "db"]
  /\ UNCHANGED << phase, pool, signal, code, conf, cut, dbLost, audit >>

AcquireRefused(r) ==
  /\ req[r] = "working" /\ pool \in {"closing", "closed"} /\ phase # "exited" /\ ~ dbLost[r]
  /\ dbLost' = [dbLost EXCEPT ![r] = TRUE]
  /\ UNCHANGED << phase, pool, signal, code, conf, req, cut, audit >>

Release(r) ==
  /\ req[r] = "db"
  /\ req' = [req EXCEPT ![r] = "working"]
  /\ UNCHANGED << phase, pool, signal, code, conf, cut, dbLost, audit >>

(* Only a chat turn has the audit goroutine. *)
Return(r, audited) ==
  /\ req[r] = "working" /\ phase # "exited"
  /\ req' = [req EXCEPT ![r] = "returned"]
  /\ audit' = [audit EXCEPT ![r] = IF audited THEN "pending" ELSE "none"]
  /\ UNCHANGED << phase, pool, signal, code, conf, cut, dbLost >>

AuditAcquires(r) ==
  /\ audit[r] = "pending" /\ HasConn
  /\ audit' = [audit EXCEPT ![r] = "writing"]
  /\ UNCHANGED << phase, pool, signal, code, conf, req, cut, dbLost >>

AuditRefused(r) ==
  /\ audit[r] = "pending" /\ pool \in {"closing", "closed"}
  /\ audit' = [audit EXCEPT ![r] = "lost"]
  /\ UNCHANGED << phase, pool, signal, code, conf, req, cut, dbLost >>

AuditWrites(r) ==
  /\ audit[r] = "writing"
  /\ audit' = [audit EXCEPT ![r] = "row"]
  /\ UNCHANGED << phase, pool, signal, code, conf, req, cut, dbLost >>

Process ==
  \/ LoadConfig \/ ConfigFails \/ StartStep \/ StartFails
  \/ BeginShutdown \/ Drained \/ GraceExceeded \/ Exit

AuditStep(r) == AuditAcquires(r) \/ AuditRefused(r) \/ AuditWrites(r)

RequestStep(r) ==
  \/ Accept(r) \/ Acquire(r) \/ AcquireRefused(r) \/ Release(r)
  \/ \E audited \in BOOLEAN : Return(r, audited)
  \/ AuditStep(r)

Gone == phase = "exited"

(* The process by itself, whatever its requests are for. *)
Next ==
  \/ Signal \/ ServeFails \/ Process
  \/ \E r \in Request : RequestStep(r)

Spec == Init /\ [][Next]_vars

-----------------------------------------------------------------------------
(* main.go: "stop accepting and drain in-flight requests FIRST, then       *)
(* release the pool, so a request never loses its database connection      *)
(* mid-flight": unless the grace is exceeded or serving fails, no request  *)
(* is refused a connection by the shutdown or killed by the exit.          *)
CleanExitLosesNothing ==
  code = 0 => \A r \in Request : req[r] # "killed" /\ ~ dbLost[r] /\ ~ cut[r]

(* run: the deferred pool.Close and main's return: whichever way the       *)
(* process ends, its pool is not left open and no connection of it is in   *)
(* use, and no handler or goroutine is half way through anything.          *)
PoolIsReleased ==
  phase = "exited" =>
    /\ pool \in {"none", "closed"} /\ Holders = {}
    /\ \A r \in Request : ~ InFlight(r) /\ audit[r] # "pending"

(* Load: "a single aggregated error naming every offending variable": when *)
(* those are put right the process starts, however many there were and     *)
(* whatever hides behind them.                                             *)
OneRepairIsEnough ==
  named # {} => Problems(Repaired(environ, named)) = {}

=============================================================================
