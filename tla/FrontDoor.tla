------------------------------ MODULE FrontDoor ------------------------------
(***************************************************************************)
(* The base middleware chain of internal/httpserver (logging, CORS, panic  *)
(* recovery), the health endpoints, and the handlers behind them, composed *)
(* with the process and the pool of Server.  The recorder of the logging   *)
(* layer sits between a handler and net/http's response writer, which is   *)
(* external; what a domain handler does with the writer is left open, as   *)
(* it is at the seam where routes are registered.                          *)
(***************************************************************************)
EXTENDS Server

CONSTANT Status   \* the statuses that domain handlers answer with

VARIABLE http     \* of each request, its recorder and its response

front == << vars, http >>

(* The calls that are answered at once, and with what: an OPTIONS request  *)
(* that CORS ends, /version and /healthz, and what the mux does not route. *)
ConstantAnswer == [preflight |-> 204, version |-> 200, unknown |-> 404]
Calls == DOMAIN ConstantAnswer \cup {"domain", "readyz"}
Codes200 == {200, 204, 404, 500, 503} \cup Status

ASSUME StatusAssumption == Status \subseteq 200..599

(* A recorder keeps wrote and status.  wire, body and dropped are of       *)
(* net/http: the status sent (0 before), who wrote to the body, and that   *)
(* the connection was dropped.  panicked is the wire status of the panic.  *)
NewRecorder ==
  [call |-> "none", wrote |-> FALSE, status |-> 200, wire |-> 0, body |-> {}, dropped |-> FALSE,
   panicked |-> 0 - 1, ping |-> "todo", probed |-> FALSE, line |-> 0]

HTTPTypeOK ==
  /\ TypeOK
  /\ http \in [Request ->
       [call : Calls \cup {"none"}, wrote : BOOLEAN, status : Codes200, wire : Codes200 \cup {0},
        body : SUBSET {"answer", "error"}, dropped : BOOLEAN, panicked : Codes200 \cup {0, 0 - 1},
        ping : {"todo", "asked", "ok", "failed"}, probed : BOOLEAN, line : Codes200 \cup {0}]]

-----------------------------------------------------------------------------
(***************************************************************************)
(* net/http's writer: the first status counts, and a body or a flush       *)
(* without one sends 200.                                                  *)
(***************************************************************************)
NetWriteHeader(h, status) == IF h.wire = 0 THEN [h EXCEPT !.wire = status] ELSE h
NetWrite(h, part) == [NetWriteHeader(h, 200) EXCEPT !.body = @ \cup {part}]
NetFlush(h) == NetWriteHeader(h, 200)

(* responseRecorder. *)
WriteHeader(h, status) ==
  IF h.wrote THEN h ELSE NetWriteHeader([h EXCEPT !.status = status, !.wrote = TRUE], status)

Write(h, part) == NetWrite(WriteHeader(h, 200), part)

(* Mutant: A flush that does not commit the recorder to 200. *)
FlushThrough(h) ==
  NetFlush(h)

Flush(h) == NetFlush(WriteHeader(h, 200))

(* writeJSON of every handler, and http.Error. *)
Answered(h, status) == Write(WriteHeader(h, status), "answer")
HTTPError(h) == Write(WriteHeader(h, 500), "error")

(* Mutant: The error written without asking whether the response has       *)
(* started.                                                                *)
RecoveredAlways(h) ==
  HTTPError(h)

(* Recoverer: a response that has started is left alone. *)
Recovered(h) == IF h.wrote THEN h ELSE HTTPError(h)

-----------------------------------------------------------------------------
Working(r, call) == req[r] = "working" /\ http[r].call = call /\ http[r].line = 0

Enter(r, call) ==
  /\ Accept(r)
  /\ http' = [http EXCEPT ![r].call = call]

AnswerAtOnce(r) ==
  /\ \E call \in DOMAIN ConstantAnswer : Working(r, call)
  /\ ~ http[r].wrote
  /\ LET h == http[r] IN http' = [http EXCEPT ![r] =
       IF h.call = "preflight" THEN WriteHeader(h, 204) ELSE Answered(h, ConstantAnswer[h.call])]
  /\ UNCHANGED vars

(* A domain handler: any use of the writer, in any order. *)
DomainWrites(r) ==
  /\ Working(r, "domain")
  /\ \/ \E status \in Status : http' = [http EXCEPT ![r] = WriteHeader(@, status)]
     \/ http' = [http EXCEPT ![r] = Write(@, "answer")]
     \/ http' = [http EXCEPT ![r] = Flush(@)]
  /\ UNCHANGED vars

DomainQueries(r) ==
  /\ http[r].call = "domain"
  /\ Acquire(r) \/ Release(r) \/ AcquireRefused(r)
  /\ UNCHANGED http

(* The layers that a return passes, outwards: net/http sends 200 for a     *)
(* handler that wrote nothing, after the middleware has logged its line.   *)
Logged(h) == NetWriteHeader([h EXCEPT !.line = h.status], 200)

Finish(r) ==
  /\ http[r].call = "domain" \/ http[r].wrote
  /\ \E audited \in BOOLEAN : (audited => http[r].call = "domain") /\ Return(r, audited)
  /\ http' = [http EXCEPT ![r] = Logged(@)]

Panic(r) ==
  /\ Working(r, "domain") /\ Return(r, FALSE)
  /\ http' = [http EXCEPT ![r] = Logged(Recovered([@ EXCEPT !.panicked = http[r].wire]))]

(* http.ErrAbortHandler passes Recoverer and the middleware, which logs no *)
(* line, and net/http drops the connection.                                *)
Abort(r) ==
  /\ Working(r, "domain") /\ Return(r, FALSE)
  /\ http' = [http EXCEPT ![r].dropped = TRUE]

-----------------------------------------------------------------------------
(***************************************************************************)
(* readinessHandler: Ping takes a connection of the pool and asks the      *)
(* server, then the probe asks the model; each has its own timeout.        *)
(***************************************************************************)
PingAsks(r) ==
  /\ http[r].call = "readyz" /\ http[r].ping = "todo"
  /\ Acquire(r)
  /\ http' = [http EXCEPT ![r].ping = "asked"]

PingAnswered(r) ==
  /\ http[r].call = "readyz" /\ http[r].ping = "asked" /\ Release(r)
  /\ \E result \in {"ok", "failed"} : http' = [http EXCEPT ![r].ping = result]

(* Mutant: A ping on the context of the request, without a timeout. *)
PingWaits(r) ==
  /\ Working(r, "readyz") /\ http[r].ping = "todo" /\ pool # "open"
  /\ http' = [http EXCEPT ![r].ping = "failed"]
  /\ UNCHANGED vars

(* No connection within the timeout, or none at all from a closed pool. *)
PingTimesOut(r) ==
  /\ Working(r, "readyz") /\ http[r].ping = "todo"
  /\ http' = [http EXCEPT ![r].ping = "failed"]
  /\ UNCHANGED vars

(* The probe answers, fails or times out: it is reported, no more. *)
ProbeEnds(r) ==
  /\ Working(r, "readyz") /\ http[r].ping \in {"ok", "failed"} /\ ~ http[r].probed
  /\ http' = [http EXCEPT ![r].probed = TRUE]
  /\ UNCHANGED vars

Readiness(r) ==
  /\ Working(r, "readyz") /\ http[r].probed /\ ~ http[r].wrote
  /\ http' = [http EXCEPT ![r] = Answered(@, IF @.ping = "ok" THEN 200 ELSE 503)]
  /\ UNCHANGED vars

-----------------------------------------------------------------------------
FrontInit == Init /\ http = [r \in Request |-> NewRecorder]

ReadyzStep(r) == PingAsks(r) \/ PingAnswered(r) \/ PingTimesOut(r) \/ ProbeEnds(r) \/ Readiness(r)
Serve(r) ==
  \/ \E call \in Calls : Enter(r, call)
  \/ AnswerAtOnce(r) \/ DomainWrites(r) \/ DomainQueries(r) \/ ReadyzStep(r)
  \/ Finish(r) \/ Panic(r) \/ Abort(r)
  \/ AuditStep(r) /\ UNCHANGED http

FrontNext ==
  \/ (Signal \/ ServeFails \/ Process) /\ UNCHANGED http
  \/ \E r \in Request : phase # "exited" /\ Serve(r)
  \/ Gone /\ UNCHANGED front

FrontSpec == FrontInit /\ [][FrontNext]_front

(***************************************************************************)
(* The process takes its own steps (that serving fails is none), the grace *)
(* ends, and a statement ends: its context is the request's, which Close   *)
(* cancels, or has a limit.  The readiness handler goes on, every wait of  *)
(* it having a timer.  Nothing is assumed of a domain handler that waits   *)
(* for the model, and no one is promised a connection of the pool.         *)
(***************************************************************************)
ReadyzGoesOn(r) ==
  http[r].call = "readyz" /\ (PingAnswered(r) \/ PingTimesOut(r) \/ ProbeEnds(r) \/ Readiness(r) \/ Finish(r))

Fairness ==
  /\ WF_front(Process /\ UNCHANGED http)
  /\ \A r \in Request :
       /\ WF_front(http[r].call = "domain" /\ Release(r) /\ UNCHANGED http)
       /\ WF_front(AuditWrites(r) /\ UNCHANGED http)
       /\ WF_front(phase # "exited" /\ ReadyzGoesOn(r))
FairFrontSpec == FrontSpec /\ Fairness

-----------------------------------------------------------------------------
(* Middleware: "logs exactly one summary line per request", with the       *)
(* status that the client was sent (flush: "so the logged status matches   *)
(* the wire status"), whatever the handler did, panics included, short of  *)
(* an intended abort; and a process that exits cleanly has logged all it   *)
(* accepted.                                                               *)
LogIsTrue ==
  /\ \A r \in Request : req[r] = "returned" /\ ~ http[r].dropped => http[r].line = http[r].wire
  /\ phase = "exited" /\ code = 0 =>
       \A r \in Request : http[r].call # "none" /\ ~ http[r].dropped => http[r].line # 0

(* Recoverer: a panic before the response began is answered 500; one in    *)
(* the middle of a response leaves what was sent as it is, as "a body      *)
(* would corrupt the in-flight response".                                  *)
PanicIsAnswered ==
  \A r \in Request : LET h == http[r] IN h.panicked >= 0 =>
    IF h.panicked = 0 THEN h.wire = 500 /\ h.body = {"error"} ELSE h.wire = h.panicked /\ "error" \notin h.body

(* HealthDeps.Timeout: "a slow dependency can never hang the endpoint",    *)
(* also when every connection of the pool stays taken.                     *)
ReadyzEnds ==
  \A r \in Request : http[r].call = "readyz" ~> req[r] \in {"returned", "killed"}

(* runServer: "a hung streaming connection cannot block shutdown forever", *)
(* and "the pool is always released": whatever the process is at when the  *)
(* signal comes, it ends, with no connection left open.                    *)
ShutdownEnds == signal ~> (phase = "exited" /\ pool \in {"none", "closed"} /\ Holders = {})
=============================================================================
