-------------------------- MODULE FrontDoorProofs --------------------------
(***************************************************************************)
(* The process, its pool, its environment and the front door, for every    *)
(* set of requests and environments, every size of the pool and every way  *)
(* the start may fail: an orderly shutdown takes nothing from a request,   *)
(* the log line is the response, a panic is answered, and one repair of    *)
(* the environment is enough.                                              *)
(***************************************************************************)
EXTENDS FrontDoor, TLAPS

-----------------------------------------------------------------------------
(***************************************************************************)
(* The environment.                                                        *)
(***************************************************************************)

(* A variable that was put right is not named again, and the others are    *)
(* what they were.                                                         *)
LEMMA RepairIsEnough ==
  ASSUME NEW env \in [EnvKeys -> [is : Values, n : Int]]
  PROVE  Problems(Repaired(env, Problems(env))) = {}
<1> DEFINE fixed == Repaired(env, Problems(env))
<1> USE DEF EnvKeys, Required, Knobs
<1>1. \A v \in EnvKeys : fixed[v] = IF v \in Problems(env) THEN Right(v) ELSE env[v]
  BY DEF Repaired
<1>2. fixed["LISTEN_ADDR"] = env["LISTEN_ADDR"]
  BY <1>1 DEF Problems, Missing, BadURLs, BadFlags, BadNumbers
<1> HIDE DEF fixed
<1>3. ~ BadPort(fixed)
  <2>1. CASE BadPort(env)
    <3>1. fixed["PORT"] = Number(1)
      BY <1>1, <2>1 DEF Problems, Right
    <3>2. QED
      BY <3>1 DEF BadPort, Number
  <2>2. CASE ~ BadPort(env)
    <3>1. fixed["PORT"] = env["PORT"]
      BY <1>1, <2>2 DEF Problems, Missing, BadURLs, BadFlags, BadNumbers
    <3>2. BadPort(fixed) <=> BadPort(env)
      BY <1>2, <3>1, SMT DEF BadPort, IsSet
    <3>3. QED
      BY <2>2, <3>2
  <2>3. QED
    BY <2>1, <2>2
<1>4. Missing(fixed) = {}
  <2>1. ASSUME NEW v \in Required PROVE IsSet(fixed, v)
    <3>1. CASE v \in Problems(env)
      BY <1>1, <3>1 DEF IsSet, Right, Address, Text
    <3>2. CASE v \notin Problems(env)
      BY <1>1, <3>2 DEF IsSet, Problems, Missing
    <3>3. QED
      BY <3>1, <3>2
  <2>2. QED
    BY <2>1 DEF Missing
<1>5. BadURLs(fixed) = {}
  <2>1. "VLLM_URL" \notin BadURLs(fixed)
    <3>1. CASE "VLLM_URL" \in Problems(env)
      BY <1>1, <3>1 DEF BadURLs, Right, Address
    <3>2. CASE "VLLM_URL" \notin Problems(env)
      BY <1>1, <3>2 DEF BadURLs, IsSet, Problems
    <3>3. QED
      BY <3>1, <3>2
  <2>2. "DATABASE_URL" \notin BadURLs(fixed)
    <3>1. CASE "DATABASE_URL" \in Problems(env)
      BY <1>1, <3>1 DEF BadURLs, Right, Address
    <3>2. CASE "DATABASE_URL" \notin Problems(env)
      BY <1>1, <3>2 DEF BadURLs, Problems
    <3>3. QED
      BY <3>1, <3>2
  <2>3. QED
    BY <2>1, <2>2 DEF BadURLs
<1>6. BadFlags(fixed) = {}
  <2>1. CASE "AUTO_MIGRATE" \in Problems(env)
    BY <1>1, <2>1 DEF BadFlags, Right, Flag
  <2>2. CASE "AUTO_MIGRATE" \notin Problems(env)
    BY <1>1, <2>2 DEF BadFlags, IsSet, Problems
  <2>3. QED
    BY <2>1, <2>2
<1>7. BadNumbers(fixed) = {}
  <2>1. ASSUME NEW v \in Knobs \cup {"SHUTDOWN_GRACE"}
        PROVE  ~ (IsSet(fixed, v) /\ ~ (fixed[v].is = "number" /\ fixed[v].n >= 0))
    <3>1. CASE v \in Problems(env)
      BY <1>1, <3>1 DEF Right, Number
    <3>2. CASE v \notin Problems(env)
      BY <1>1, <3>2 DEF IsSet, Problems, BadNumbers
    <3>3. QED
      BY <3>1, <3>2
  <2>2. QED
    BY <2>1 DEF BadNumbers
<1>8. Problems(fixed) = {}
  BY <1>3, <1>4, <1>5, <1>6, <1>7 DEF Problems
<1>9. QED
  BY <1>8 DEF fixed

(* What an error of Load named is what is wrong with the environment. *)
NamedInv == named # {} => environ \in [EnvKeys -> [is : Values, n : Int]] /\ named = Problems(environ)

(* Only LoadConfig and ConfigFails touch the configuration. *)
LEMMA ConfigIsReadOnce ==
  ASSUME [FrontNext]_front, ~ LoadConfig, ~ ConfigFails PROVE UNCHANGED << environ, named >> /\ (phase' = "config" => phase = "config")
<1> USE DEF conf
<1>1. CASE (Signal \/ ServeFails \/ Process) /\ UNCHANGED http
  BY <1>1 DEF Signal, ServeFails, Process, StartStep, After, StartFails, BeginShutdown, Drained, GraceExceeded, Exit
<1>2. ASSUME NEW r \in Request, Serve(r) PROVE UNCHANGED << environ, named, phase >>
  <2>1. CASE \E call \in Calls : Enter(r, call)
    BY <2>1 DEF Enter, Accept
  <2>2. CASE AnswerAtOnce(r) \/ DomainWrites(r) \/ DomainQueries(r)
    BY <2>2 DEF AnswerAtOnce, DomainWrites, DomainQueries, Acquire, Release, AcquireRefused, vars
  <2>3. CASE ReadyzStep(r)
    BY <2>3 DEF ReadyzStep, PingAsks, PingAnswered, PingTimesOut, ProbeEnds, Readiness, Acquire, Release, vars
  <2>4. CASE Finish(r) \/ Panic(r) \/ Abort(r)
    BY <2>4 DEF Finish, Panic, Abort, Return
  <2>5. CASE AuditStep(r)
    BY <2>5 DEF AuditStep, AuditAcquires, AuditRefused, AuditWrites
  <2>6. QED
    BY <1>2, <2>1, <2>2, <2>3, <2>4, <2>5 DEF Serve
<1>3. CASE UNCHANGED front
  BY <1>3 DEF front, vars
<1>4. QED
  BY <1>1, <1>2, <1>3 DEF FrontNext

(* Until the configuration is read nothing is named; then it is what is    *)
(* wrong.                                                                  *)
LEMMA NamedInvHolds == FrontSpec => [](phase = "config" => environ \in Env /\ named = {}) /\ []NamedInv
<1> DEFINE Unread == phase = "config" => environ \in Env /\ named = {}
<1>1. FrontInit => Unread /\ NamedInv
  BY DEF FrontInit, Init, NamedInv
<1>2. Unread /\ NamedInv /\ [FrontNext]_front => Unread' /\ NamedInv'
  <2> SUFFICES ASSUME Unread, NamedInv, [FrontNext]_front PROVE Unread' /\ NamedInv'
    OBVIOUS
  <2>1. CASE LoadConfig
    BY <2>1 DEF LoadConfig, NamedInv
  <2>2. CASE ConfigFails
    BY <2>2, ServerAssumption DEF ConfigFails, NamedInv
  <2>3. CASE ~ LoadConfig /\ ~ ConfigFails
    BY <2>3, ConfigIsReadOnce DEF NamedInv
  <2>4. QED
    BY <2>1, <2>2, <2>3
<1>3. QED
  BY <1>1, <1>2, PTL DEF FrontSpec

(* Load names every offending variable in one error, so a process that is  *)
(* started again with those put right has nothing left to complain of.     *)
THEOREM OneRepair == FrontSpec => []OneRepairIsEnough
<1>1. NamedInv => OneRepairIsEnough
  BY RepairIsEnough DEF NamedInv, OneRepairIsEnough
<1>2. QED
  BY <1>1, NamedInvHolds, PTL

-----------------------------------------------------------------------------
(***************************************************************************)
(* The recorder: what it notes of a response is what net/http was given,   *)
(* until the middleware has written its line.                              *)
(***************************************************************************)
Recorders ==
  [call : Calls \cup {"none"}, wrote : BOOLEAN, status : Codes200, wire : Codes200 \cup {0},
   body : SUBSET {"answer", "error"}, dropped : BOOLEAN, panicked : Codes200 \cup {0, 0 - 1},
   ping : {"todo", "asked", "ok", "failed"}, probed : BOOLEAN, line : Codes200 \cup {0}]

(* A handler is at work, or was killed at it. *)
AtWork(h) ==
  /\ h.line = 0 /\ h.panicked = 0 - 1 /\ ~ h.dropped
  /\ h.body \subseteq {"answer"}
  /\ IF h.wrote THEN h.wire = h.status ELSE h.wire = 0 /\ h.body = {} /\ h.status = 200

(* A handler has returned through all layers. *)
Answers(h) ==
  h.panicked >= 0 =>
    IF h.panicked = 0 THEN h.wire = 500 /\ h.body = {"error"} ELSE h.wire = h.panicked /\ "error" \notin h.body
Done(h) == (h.dropped \/ (h.line = h.wire /\ h.line # 0)) /\ Answers(h)

(* Every status is one that HTTP knows, so none is the 0 of "not sent". *)
LEMMA CodesAreNotZero == \A c \in Codes200 : c \in Int /\ c > 0
BY StatusAssumption DEF Codes200

(* responseRecorder.WriteHeader: the first status is noted and sent, a     *)
(* second one is neither.                                                  *)
LEMMA RecorderWritesHeader ==
  ASSUME NEW h \in Recorders, AtWork(h), NEW status \in Codes200
  PROVE  LET g == WriteHeader(h, status) IN
         /\ g \in Recorders /\ AtWork(g) /\ g.wrote
         /\ g.call = h.call /\ (~ h.wrote => g.wire = status /\ g.body = {})
<1>1. CASE h.wrote
  BY <1>1 DEF WriteHeader
<1>2. CASE ~ h.wrote
  <2> DEFINE g == WriteHeader(h, status)
  <2>1. h.wire = 0
    BY <1>2 DEF AtWork
  <2>2. g = [h EXCEPT !.status = status, !.wrote = TRUE, !.wire = status]
    BY <1>2, <2>1 DEF WriteHeader, NetWriteHeader, Recorders
  <2> HIDE DEF g
  <2>3. g \in Recorders
    BY <2>2 DEF Recorders
  <2>4. AtWork(g) /\ g.wrote /\ g.call = h.call /\ g.wire = status /\ g.body = {}
    BY <1>2, <2>2 DEF AtWork, Recorders
  <2>5. QED
    BY <2>3, <2>4 DEF g
<1>3. QED
  BY <1>1, <1>2

(* responseRecorder.Write: a body without a status is a 200. *)
LEMMA RecorderWrites ==
  ASSUME NEW h \in Recorders, AtWork(h)
  PROVE  LET g == Write(h, "answer") IN g \in Recorders /\ AtWork(g) /\ g.wrote /\ g.call = h.call
<1> DEFINE k == WriteHeader(h, 200)
<1>1. k \in Recorders /\ AtWork(k) /\ k.wrote /\ k.call = h.call
  BY RecorderWritesHeader DEF Codes200
<1>2. Write(h, "answer") = NetWrite(k, "answer")
  BY DEF Write
<1> HIDE DEF k
<1>3. k.wire # 0
  BY <1>1, CodesAreNotZero DEF AtWork, Recorders
<1>4. NetWrite(k, "answer") = [k EXCEPT !.body = @ \cup {"answer"}]
  BY <1>3 DEF NetWrite, NetWriteHeader
<1>5. [k EXCEPT !.body = @ \cup {"answer"}] \in Recorders
  BY <1>1 DEF Recorders
<1>6. AtWork([k EXCEPT !.body = @ \cup {"answer"}])
  BY <1>1 DEF AtWork, Recorders
<1>7. [k EXCEPT !.body = @ \cup {"answer"}].wrote /\ [k EXCEPT !.body = @ \cup {"answer"}].call = k.call
  BY <1>1 DEF Recorders
<1>8. QED
  BY <1>1, <1>2, <1>4, <1>5, <1>6, <1>7

(* responseRecorder.Flush: what is flushed has been committed to. *)
LEMMA RecorderFlushes ==
  ASSUME NEW h \in Recorders, AtWork(h)
  PROVE  LET g == Flush(h) IN g \in Recorders /\ AtWork(g) /\ g.call = h.call
<1> DEFINE k == WriteHeader(h, 200)
<1>1. k \in Recorders /\ AtWork(k) /\ k.wrote /\ k.call = h.call
  BY RecorderWritesHeader DEF Codes200
<1>2. Flush(h) = NetFlush(k)
  BY DEF Flush
<1> HIDE DEF k
<1>3. k.wire # 0
  BY <1>1, CodesAreNotZero DEF AtWork, Recorders
<1>4. NetFlush(k) = k
  BY <1>3 DEF NetFlush, NetWriteHeader
<1>5. QED
  BY <1>1, <1>2, <1>4

(* writeJSON. *)
LEMMA RecorderAnswers ==
  ASSUME NEW h \in Recorders, AtWork(h), NEW status \in Codes200
  PROVE  LET g == Answered(h, status) IN g \in Recorders /\ AtWork(g) /\ g.call = h.call
<1>1. /\ WriteHeader(h, status) \in Recorders /\ AtWork(WriteHeader(h, status))
      /\ WriteHeader(h, status).call = h.call
  BY RecorderWritesHeader
<1>2. QED
  BY <1>1, RecorderWrites DEF Answered

(* The line of the middleware is the status that goes out. *)
LEMMA LineIsWire ==
  ASSUME NEW h \in Recorders, h.wrote => h.wire = h.status, ~ h.wrote => h.wire = 0 /\ h.status = 200
  PROVE  LET g == Logged(h) IN
         /\ g \in Recorders /\ g.line = g.wire /\ g.line # 0
         /\ g.call = h.call /\ g.body = h.body /\ g.panicked = h.panicked
         /\ g.wire = IF h.wrote THEN h.wire ELSE 200
<1> DEFINE w == IF h.wrote THEN h.wire ELSE 200
<1>1. h.status # 0 /\ h.status \in Codes200 /\ 200 \in Codes200
  BY CodesAreNotZero DEF Recorders, Codes200
<1>2. w = h.status /\ w # 0 /\ w \in Codes200
  BY <1>1
<1>3. Logged(h) = [h EXCEPT !.line = h.status, !.wire = w]
  BY <1>1, <1>2 DEF Logged, NetWriteHeader, Recorders
<1> HIDE DEF w
<1> DEFINE g == [h EXCEPT !.line = h.status, !.wire = w]
<1>4. g \in Recorders
  BY <1>1, <1>2 DEF Recorders
<1>5. /\ g.line = h.status /\ g.wire = w
      /\ g.call = h.call /\ g.body = h.body /\ g.panicked = h.panicked
  BY DEF Recorders
<1> HIDE DEF g
<1>6. g.line = g.wire /\ g.line # 0
  BY <1>1, <1>2, <1>5
<1>7. Logged(h) = g
  BY <1>3 DEF g
<1>8. QED
  BY <1>4, <1>5, <1>6, <1>7 DEF w

(* A handler that returns, with or without a response. *)
LEMMA FinishIsDone ==
  ASSUME NEW h \in Recorders, AtWork(h)
  PROVE  Logged(h) \in Recorders /\ Done(Logged(h)) /\ Logged(h).call = h.call
<1>1. /\ Logged(h) \in Recorders /\ Logged(h).line = Logged(h).wire /\ Logged(h).line # 0
      /\ Logged(h).call = h.call /\ Logged(h).panicked = h.panicked
  BY LineIsWire DEF AtWork
<1>2. QED
  BY <1>1 DEF AtWork, Done, Answers

(* A panic: Recoverer answers it if nothing was sent, and the middleware   *)
(* logs what Recoverer left.                                               *)
LEMMA PanicIsDone ==
  ASSUME NEW h \in Recorders, AtWork(h)
  PROVE  LET g == Logged(Recovered([h EXCEPT !.panicked = h.wire])) IN
         g \in Recorders /\ Done(g) /\ g.call = h.call
<1> DEFINE p == [h EXCEPT !.panicked = h.wire]
           q == Recovered(p)
           g == Logged(q)
<1>1. p \in Recorders
  BY DEF Recorders
<1>2. /\ p.panicked = h.wire /\ p.wrote = h.wrote /\ p.wire = h.wire /\ p.status = h.status
      /\ p.body = h.body /\ p.call = h.call /\ p.line = h.line /\ p.dropped = h.dropped
  BY DEF Recorders
<1> HIDE DEF p
<1>3. CASE h.wrote
  <2>1. q = p
    BY <1>2, <1>3 DEF Recovered
  <2>2. p.wrote /\ p.wire = p.status
    BY <1>2, <1>3 DEF AtWork
  <2> DEFINE k == Logged(p)
  <2>3. /\ k \in Recorders /\ k.line = k.wire /\ k.line # 0
        /\ k.call = p.call /\ k.body = p.body /\ k.panicked = p.panicked /\ k.wire = p.wire
    BY <1>1, <2>2, LineIsWire
  <2>4. g = k
    BY <2>1
  <2>5. p.wire # 0 /\ "error" \notin p.body
    BY <1>2, <1>3, CodesAreNotZero DEF AtWork, Recorders
  <2> HIDE DEF k
  <2>6. Done(k)
    BY <1>2, <2>3, <2>5 DEF Done, Answers
  <2>7. QED
    BY <1>2, <2>3, <2>4, <2>6 DEF p
<1>4. CASE ~ h.wrote
  <2>1. p.wire = 0 /\ p.body = {} /\ p.panicked = 0 /\ ~ p.wrote
    BY <1>2, <1>4 DEF AtWork
  <2>2. q = NetWrite(WriteHeader(WriteHeader(p, 500), 200), "error")
    BY <2>1 DEF Recovered, HTTPError, Write
  <2> DEFINE e == [p EXCEPT !.status = 500, !.wrote = TRUE, !.wire = 500]
  <2>3. WriteHeader(p, 500) = e
    BY <1>1, <2>1 DEF WriteHeader, NetWriteHeader, Recorders
  <2>4. /\ e.wrote /\ e.wire = 500 /\ e.status = 500 /\ e.body = {} /\ e.panicked = 0
        /\ e.call = p.call
    BY <1>1, <2>1 DEF Recorders
  <2>5. e \in Recorders
    <3>1. 500 \in Codes200
      BY DEF Codes200
    <3>2. ASSUME NEW c \in Codes200
          PROVE  [p EXCEPT !.status = c, !.wrote = TRUE, !.wire = c] \in Recorders
      BY <1>1 DEF Recorders
    <3>3. QED
      BY <3>1, <3>2
  <2> HIDE DEF e
  <2>6. q = [e EXCEPT !.body = {"error"}]
    <3>1. WriteHeader(e, 200) = e
      BY <2>4 DEF WriteHeader
    <3>2. q = NetWrite(e, "error")
      BY <2>2, <2>3, <3>1
    <3>3. NetWriteHeader(e, 200) = e
      BY <2>4 DEF NetWriteHeader
    <3>4. QED
      BY <2>4, <3>2, <3>3 DEF NetWrite
  <2> HIDE DEF q
  <2>7. q \in Recorders
    BY <2>5, <2>6 DEF Recorders
  <2>8. /\ q.wrote /\ q.wire = 500 /\ q.status = 500 /\ q.body = {"error"} /\ q.panicked = 0
        /\ q.call = p.call
    BY <2>4, <2>5, <2>6 DEF Recorders
  <2>9. /\ g \in Recorders /\ g.line = g.wire /\ g.line # 0
        /\ g.call = q.call /\ g.body = q.body /\ g.panicked = q.panicked /\ g.wire = q.wire
    BY <2>7, <2>8, LineIsWire
  <2> HIDE DEF g
  <2>10. Done(g)
    BY <2>8, <2>9 DEF Done, Answers
  <2>11. QED
    BY <1>2, <2>8, <2>9, <2>10 DEF g, q, p
<1>5. QED
  BY <1>3, <1>4
-----------------------------------------------------------------------------
(***************************************************************************)
(* The process and its pool.                                               *)
(***************************************************************************)
Untouched(r) == req[r] # "killed" /\ ~ dbLost[r] /\ ~ cut[r]

(* Before the pool begins to close nothing was taken from any request, and *)
(* an exit with 0 was decided when every handler had returned, after which *)
(* nothing can be taken from one: that is what draining first is for.      *)
ServerInv ==
  /\ phase \notin {"closing", "exited"} => pool \in {"none", "open"} /\ \A r \in Request : Untouched(r)
  /\ code = 0 =>
       /\ phase \in {"closing", "exited"}
       /\ \A r \in Request : Untouched(r) /\ ~ InFlight(r)

(* The pool is open from the start step that connects until runServer is   *)
(* over, and nothing runs before the process serves or after it ended.     *)
Starting == {"config", "connect", "migrate", "listen"}
Quiet(r) == req[r] \in {"idle", "returned", "killed"} /\ audit[r] \in {"none", "row", "lost"}
PoolInv ==
  /\ phase \in {"config", "connect"} => pool = "none"
  /\ phase \in {"migrate", "listen", "serving", "draining"} => pool = "open"
  /\ phase = "exited" => pool \in {"none", "closed"}
  /\ phase \in Starting \cup {"exited"} => \A r \in Request : Quiet(r)
  /\ phase \in Starting => \A r \in Request : req[r] = "idle" /\ audit[r] = "none"

(* Everything the front door does is one of the steps of Server. *)
LEMMA ServeIsRequestStep == \A r \in Request : Serve(r) => RequestStep(r) \/ UNCHANGED vars
<1> SUFFICES ASSUME NEW r \in Request, Serve(r) PROVE RequestStep(r) \/ UNCHANGED vars
  OBVIOUS
<1>1. CASE \E call \in Calls : Enter(r, call)
  BY <1>1 DEF Enter, RequestStep
<1>2. CASE AnswerAtOnce(r) \/ DomainWrites(r) \/ DomainQueries(r)
  BY <1>2 DEF AnswerAtOnce, DomainWrites, DomainQueries, RequestStep
<1>3. CASE ReadyzStep(r)
  BY <1>3 DEF ReadyzStep, PingAsks, PingAnswered, PingTimesOut, ProbeEnds, Readiness, RequestStep
<1>4. CASE Finish(r) \/ Panic(r) \/ Abort(r)
  BY <1>4 DEF Finish, Panic, Abort, RequestStep
<1>5. CASE AuditStep(r)
  BY <1>5 DEF RequestStep
<1>6. QED
  BY <1>1, <1>2, <1>3, <1>4, <1>5 DEF Serve

(* The steps of requests keep the types of the process. *)
LEMMA RequestStepType ==
  ASSUME TypeOK, NEW r \in Request, RequestStep(r) \/ UNCHANGED vars PROVE TypeOK'
<1> USE DEF TypeOK, conf
<1>1. CASE Accept(r)
  BY <1>1 DEF Accept
<1>2. CASE Acquire(r)
  BY <1>2 DEF Acquire
<1>3. CASE AcquireRefused(r)
  BY <1>3 DEF AcquireRefused
<1>4. CASE Release(r)
  BY <1>4 DEF Release
<1>5. CASE \E audited \in BOOLEAN : Return(r, audited)
  BY <1>5 DEF Return
<1>6. CASE AuditStep(r)
  BY <1>6 DEF AuditStep, AuditAcquires, AuditRefused, AuditWrites
<1>7. CASE UNCHANGED vars
  BY <1>7 DEF vars
<1>8. QED
  BY <1>1, <1>2, <1>3, <1>4, <1>5, <1>6, <1>7 DEF RequestStep

(* A request is refused a connection only by a pool that closes, and none  *)
(* is accepted or works on after an exit with 0 was decided.               *)
LEMMA RequestStepKeeps ==
  ASSUME TypeOK, ServerInv, NEW r \in Request, RequestStep(r) \/ UNCHANGED vars PROVE ServerInv'
<1> USE DEF TypeOK, ServerInv, Untouched, InFlight
<1>1. CASE Accept(r)
  BY <1>1 DEF Accept
<1>2. CASE Acquire(r)
  BY <1>2 DEF Acquire
<1>3. CASE AcquireRefused(r)
  BY <1>3 DEF AcquireRefused
<1>4. CASE Release(r)
  BY <1>4 DEF Release
<1>5. CASE \E audited \in BOOLEAN : Return(r, audited)
  BY <1>5 DEF Return
<1>6. CASE AuditStep(r)
  BY <1>6 DEF AuditStep, AuditAcquires, AuditRefused, AuditWrites
<1>7. CASE UNCHANGED vars
  BY <1>7 DEF vars
<1>8. QED
  BY <1>1, <1>2, <1>3, <1>4, <1>5, <1>6, <1>7 DEF RequestStep

(* A step of the process itself, or a signal, or the end of serving. *)
ProcessStep == Signal \/ ServeFails \/ Process

(* The steps of the process keep its types. *)
LEMMA ProcessType == ASSUME TypeOK, ProcessStep PROVE TypeOK'
<1> USE DEF TypeOK, conf, reqVars, Codes, StartSteps
<1>1. CASE LoadConfig
  BY <1>1 DEF LoadConfig, Load
<1>2. CASE ConfigFails
  <2>1. Problems(environ) \subseteq EnvKeys
    BY DEF Problems, Missing, BadURLs, BadFlags, BadNumbers, EnvKeys, Required, Knobs
  <2>2. QED
    BY <1>2, <2>1 DEF ConfigFails
<1>3. CASE StartStep
  BY <1>3 DEF StartStep, After
<1>4. CASE StartFails
  BY <1>4 DEF StartFails
<1>5. CASE Signal
  BY <1>5 DEF Signal
<1>6. CASE ServeFails
  BY <1>6 DEF ServeFails
<1>7. CASE BeginShutdown
  BY <1>7 DEF BeginShutdown
<1>8. CASE Drained
  BY <1>8 DEF Drained
<1>9. CASE GraceExceeded
  <2>1. cut' \in [Request -> BOOLEAN]
    BY <1>9 DEF GraceExceeded, InFlight
  <2>2. QED
    BY <1>9, <2>1 DEF GraceExceeded
<1>10. CASE Exit
  BY <1>10 DEF Exit
<1>11. QED
  BY <1>1, <1>2, <1>3, <1>4, <1>5, <1>6, <1>7, <1>8, <1>9, <1>10 DEF ProcessStep, Process

(* The pool closes with the process; cutting and killing go with an exit   *)
(* by 1.                                                                   *)
LEMMA ProcessKeeps == ASSUME TypeOK, ServerInv, ProcessStep PROVE ServerInv'
<1> USE DEF TypeOK, ServerInv, Untouched, InFlight, reqVars
<1>1. CASE LoadConfig
  BY <1>1 DEF LoadConfig
<1>2. CASE ConfigFails
  BY <1>2 DEF ConfigFails
<1>3. CASE StartStep
  BY <1>3 DEF StartStep, After
<1>4. CASE StartFails
  BY <1>4 DEF StartFails
<1>5. CASE Signal
  BY <1>5 DEF Signal
<1>6. CASE ServeFails
  BY <1>6 DEF ServeFails
<1>7. CASE BeginShutdown
  BY <1>7 DEF BeginShutdown
<1>8. CASE Drained
  BY <1>8 DEF Drained
<1>9. CASE GraceExceeded
  BY <1>9 DEF GraceExceeded
<1>10. CASE Exit
  BY <1>10 DEF Exit
<1>11. QED
  BY <1>1, <1>2, <1>3, <1>4, <1>5, <1>6, <1>7, <1>8, <1>9, <1>10 DEF ProcessStep, Process

(* The process touches no recorder, and of the requests only those that it *)
(* ends with.                                                              *)
LEMMA ProcessAndRequests ==
  ASSUME TypeOK, ProcessStep, NEW r \in Request
  PROVE  req'[r] = req[r] \/ (InFlight(r) /\ req'[r] = "killed")
<1>1. CASE Exit
  BY <1>1 DEF Exit, TypeOK
<1>2. CASE ~ Exit
  BY <1>2 DEF ProcessStep, Process, reqVars, LoadConfig, ConfigFails, StartStep, StartFails, Signal,
              ServeFails, BeginShutdown, Drained, GraceExceeded
<1>3. QED
  BY <1>1, <1>2
-----------------------------------------------------------------------------
(***************************************************************************)
(* The front door: a request and its recorder go together.                 *)
(***************************************************************************)
HTTPType == http \in [Request -> Recorders]

Recorded(r) ==
  /\ http[r].call = "none" <=> req[r] = "idle"
  /\ IF req[r] = "returned" THEN Done(http[r]) ELSE AtWork(http[r])
RecorderInv == \A r \in Request : Recorded(r)

(* The two parts of HTTPTypeOK. *)
LEMMA TypeIsRecorded == HTTPTypeOK <=> TypeOK /\ HTTPType
BY DEF HTTPTypeOK, HTTPType, Recorders

(* A handler that is working and has a recorder with another content that  *)
(* is coherent too.                                                        *)
LEMMA WorkingOn ==
  ASSUME TypeOK, HTTPType, RecorderInv, NEW r \in Request, UNCHANGED req, req[r] # "returned",
         NEW g \in Recorders, AtWork(g), g.call = http[r].call,
         http' = [http EXCEPT ![r] = g]
  PROVE  HTTPType' /\ RecorderInv'
<1>1. HTTPType'
  BY DEF HTTPType
<1>2. ASSUME NEW x \in Request PROVE Recorded(x)'
  <2>1. CASE x = r
    <3>1. http'[r] = g /\ req'[r] = req[r]
      BY DEF HTTPType
    <3>2. Recorded(r)
      BY DEF RecorderInv
    <3>3. QED
      BY <2>1, <3>1, <3>2 DEF Recorded
  <2>2. CASE x # r
    <3>1. http'[x] = http[x] /\ req'[x] = req[x] /\ Recorded(x)
      BY <2>2 DEF HTTPType, RecorderInv
    <3>2. QED
      BY <3>1 DEF Recorded
  <2>3. QED
    BY <2>1, <2>2
<1>3. QED
  BY <1>1, <1>2 DEF RecorderInv

(* A handler that returns, with what the middleware made of its recorder.  *)
LEMMA Returning ==
  ASSUME TypeOK, HTTPType, RecorderInv, NEW r \in Request, NEW audited \in BOOLEAN, Return(r, audited),
         NEW g \in Recorders, Done(g), g.call = http[r].call,
         http' = [http EXCEPT ![r] = g]
  PROVE  HTTPType' /\ RecorderInv'
<1>1. HTTPType'
  BY DEF HTTPType
<1>2. req[r] = "working" /\ req' = [req EXCEPT ![r] = "returned"]
  BY DEF Return
<1>3. ASSUME NEW x \in Request PROVE Recorded(x)'
  <2>1. CASE x = r
    <3>1. http'[r] = g /\ req'[r] = "returned"
      BY <1>2 DEF HTTPType, TypeOK
    <3>2. http[r].call # "none"
      BY <1>2 DEF RecorderInv, Recorded
    <3>3. QED
      BY <2>1, <3>1, <3>2 DEF Recorded
  <2>2. CASE x # r
    <3>1. http'[x] = http[x] /\ req'[x] = req[x] /\ Recorded(x)
      BY <1>2, <2>2 DEF HTTPType, TypeOK, RecorderInv
    <3>2. QED
      BY <3>1 DEF Recorded
  <2>3. QED
    BY <2>1, <2>2
<1>4. QED
  BY <1>1, <1>3 DEF RecorderInv

(* A handler that takes or gives back a connection. *)
LEMMA AtTheDatabase ==
  ASSUME TypeOK, HTTPType, RecorderInv, NEW r \in Request,
         NEW g \in Recorders, AtWork(g), g.call = http[r].call,
         http' = [http EXCEPT ![r] = g],
         NEW busy \in {"working", "db"}, InFlight(r), req' = [req EXCEPT ![r] = busy]
  PROVE  HTTPType' /\ RecorderInv'
<1>1. HTTPType'
  BY DEF HTTPType
<1>2. ASSUME NEW x \in Request PROVE Recorded(x)'
  <2>1. CASE x = r
    <3>1. http'[r] = g /\ req'[r] = busy
      BY DEF HTTPType, TypeOK
    <3>2. http[r].call # "none"
      BY DEF RecorderInv, Recorded, InFlight
    <3>3. QED
      BY <2>1, <3>1, <3>2 DEF Recorded
  <2>2. CASE x # r
    <3>1. http'[x] = http[x] /\ req'[x] = req[x] /\ Recorded(x)
      BY <2>2 DEF HTTPType, TypeOK, RecorderInv
    <3>2. QED
      BY <3>1 DEF Recorded
  <2>3. QED
    BY <2>1, <2>2
<1>3. QED
  BY <1>1, <1>2 DEF RecorderInv

(* A step that leaves the recorders alone and moves no request between     *)
(* idle, busy and returned.                                                *)
LEMMA RecordersAlone ==
  ASSUME HTTPType, RecorderInv, UNCHANGED http,
         \A r \in Request : \/ req'[r] = req[r]
                            \/ req[r] \in {"working", "db"} /\ req'[r] \in {"working", "db", "killed"}
  PROVE  HTTPType' /\ RecorderInv'
<1>1. ASSUME NEW r \in Request PROVE Recorded(r)'
  <2>1. Recorded(r) /\ http'[r] = http[r]
    BY DEF RecorderInv
  <2>2. (req[r] = "idle" <=> req'[r] = "idle") /\ (req[r] = "returned" <=> req'[r] = "returned")
    OBVIOUS
  <2>3. QED
    BY <2>1, <2>2 DEF Recorded
<1>2. QED
  BY <1>1 DEF HTTPType, RecorderInv
(* What a busy request's recorder is, and that only its bookkeeping fields *)
(* moved.                                                                  *)
LEMMA BusyRecorder ==
  ASSUME HTTPType, RecorderInv, NEW r \in Request, req[r] # "returned"
  PROVE  http[r] \in Recorders /\ AtWork(http[r])
BY DEF HTTPType, RecorderInv, Recorded

(* A request that is accepted has a fresh recorder. *)
LEMMA EnterKeeps ==
  ASSUME TypeOK, HTTPType, RecorderInv, NEW r \in Request, NEW call \in Calls, Enter(r, call)
  PROVE  HTTPType' /\ RecorderInv'
<1> DEFINE g == [http[r] EXCEPT !.call = call]
<1>1. req[r] = "idle" /\ req' = [req EXCEPT ![r] = "working"]
  BY DEF Enter, Accept
<1>2. http[r] \in Recorders /\ AtWork(http[r])
  BY <1>1, BusyRecorder
<1>3. http' = [http EXCEPT ![r] = g]
  BY DEF Enter
<1>4. g \in Recorders
  BY <1>2 DEF Recorders
<1>5. AtWork(g)
  BY <1>2 DEF AtWork, Recorders
<1>6. g.call = call /\ call # "none"
  BY <1>2 DEF Recorders, Calls, ConstantAnswer
<1> HIDE DEF g
<1>7. HTTPType'
  BY <1>3, <1>4 DEF HTTPType
<1>8. ASSUME NEW x \in Request PROVE Recorded(x)'
  <2>1. CASE x = r
    <3>1. http'[r] = g /\ req'[r] = "working"
      BY <1>1, <1>3 DEF HTTPType, TypeOK
    <3>2. QED
      BY <1>5, <1>6, <2>1, <3>1 DEF Recorded
  <2>2. CASE x # r
    <3>1. http'[x] = http[x] /\ req'[x] = req[x] /\ Recorded(x)
      BY <1>1, <1>3, <2>2 DEF HTTPType, TypeOK, RecorderInv
    <3>2. QED
      BY <3>1 DEF Recorded
  <2>3. QED
    BY <2>1, <2>2
<1>9. QED
  BY <1>7, <1>8 DEF RecorderInv

(* A handler that uses its writer. *)
LEMMA AnswersKeep ==
  ASSUME TypeOK, HTTPType, RecorderInv, NEW r \in Request, AnswerAtOnce(r) \/ DomainWrites(r)
  PROVE  HTTPType' /\ RecorderInv'
<1> DEFINE h == http[r]
<1>1. req[r] = "working" /\ UNCHANGED req
  BY DEF AnswerAtOnce, DomainWrites, Working, vars
<1>2. h \in Recorders /\ AtWork(h)
  BY <1>1, BusyRecorder
<1>3. \E status \in Codes200 : http' \in {[http EXCEPT ![r] = WriteHeader(h, status)],
                                          [http EXCEPT ![r] = Answered(h, status)],
                                          [http EXCEPT ![r] = Write(h, "answer")],
                                          [http EXCEPT ![r] = Flush(h)]}
  <2>1. CASE AnswerAtOnce(r)
    <3>1. h.call \in DOMAIN ConstantAnswer
      BY <2>1 DEF AnswerAtOnce, Working
    <3>2. ConstantAnswer[h.call] \in Codes200 /\ 204 \in Codes200
      BY <3>1 DEF ConstantAnswer, Codes200
    <3>3. http' = [http EXCEPT ![r] = IF h.call = "preflight" THEN WriteHeader(h, 204)
                                      ELSE Answered(h, ConstantAnswer[h.call])]
      BY <2>1 DEF AnswerAtOnce
    <3>4. QED
      BY <3>2, <3>3
  <2>2. CASE DomainWrites(r)
    <3>1. Status \subseteq Codes200 /\ 200 \in Codes200
      BY DEF Codes200
    <3>2. QED
      BY <2>2, <3>1 DEF DomainWrites
  <2>3. QED
    BY <2>1, <2>2
<1>4. PICK status \in Codes200 : http' \in {[http EXCEPT ![r] = WriteHeader(h, status)],
                                            [http EXCEPT ![r] = Answered(h, status)],
                                            [http EXCEPT ![r] = Write(h, "answer")],
                                            [http EXCEPT ![r] = Flush(h)]}
  BY <1>3
<1>5. CASE http' = [http EXCEPT ![r] = WriteHeader(h, status)]
  <2>1. /\ WriteHeader(h, status) \in Recorders /\ AtWork(WriteHeader(h, status))
        /\ WriteHeader(h, status).call = h.call
    BY <1>2, RecorderWritesHeader
  <2>2. QED
    BY <1>1, <1>5, <2>1, WorkingOn
<1>6. CASE http' = [http EXCEPT ![r] = Answered(h, status)]
  <2>1. /\ Answered(h, status) \in Recorders /\ AtWork(Answered(h, status))
        /\ Answered(h, status).call = h.call
    BY <1>2, RecorderAnswers
  <2>2. QED
    BY <1>1, <1>6, <2>1, WorkingOn
<1>7. CASE http' = [http EXCEPT ![r] = Write(h, "answer")]
  <2>1. Write(h, "answer") \in Recorders /\ AtWork(Write(h, "answer")) /\ Write(h, "answer").call = h.call
    BY <1>2, RecorderWrites
  <2>2. QED
    BY <1>1, <1>7, <2>1, WorkingOn
<1>8. CASE http' = [http EXCEPT ![r] = Flush(h)]
  <2>1. Flush(h) \in Recorders /\ AtWork(Flush(h)) /\ Flush(h).call = h.call
    BY <1>2, RecorderFlushes
  <2>2. QED
    BY <1>1, <1>8, <2>1, WorkingOn
<1>9. QED
  BY <1>4, <1>5, <1>6, <1>7, <1>8

(* A handler at the database leaves its response alone. *)
LEMMA DomainQueriesKeep ==
  ASSUME TypeOK, HTTPType, RecorderInv, NEW r \in Request, DomainQueries(r)
  PROVE  HTTPType' /\ RecorderInv'
<1>1. UNCHANGED http
  BY DEF DomainQueries
<1>2. \A x \in Request : req'[x] = req[x] \/ (req[x] \in {"working", "db"} /\ req'[x] \in {"working", "db"})
  BY DEF DomainQueries, Acquire, Release, AcquireRefused, TypeOK
<1>3. QED
  BY <1>1, <1>2, RecordersAlone

(* readinessHandler: only Readiness writes. *)
LEMMA ReadyzKeeps ==
  ASSUME TypeOK, HTTPType, RecorderInv, NEW r \in Request, ReadyzStep(r)
  PROVE  HTTPType' /\ RecorderInv'
<1> DEFINE h == http[r]
<1>1. req[r] \in {"working", "db"}
  BY DEF ReadyzStep, PingAsks, PingAnswered, PingTimesOut, ProbeEnds, Readiness, Working, Acquire, Release
<1>2. h \in Recorders /\ AtWork(h)
  BY <1>1, BusyRecorder
<1>3. ASSUME NEW ping \in {"todo", "asked", "ok", "failed"}
      PROVE  LET g == [h EXCEPT !.ping = ping] IN g \in Recorders /\ AtWork(g) /\ g.call = h.call
  BY <1>2 DEF Recorders, AtWork
<1>4. CASE PingAsks(r)
  <2>1. http' = [http EXCEPT ![r] = [h EXCEPT !.ping = "asked"]] /\ req' = [req EXCEPT ![r] = "db"]
    BY <1>4 DEF PingAsks, Acquire
  <2> DEFINE g == [h EXCEPT !.ping = "asked"]
  <2>2. g \in Recorders /\ AtWork(g) /\ g.call = h.call
    BY <1>3
  <2> HIDE DEF g
  <2>3. http' = [http EXCEPT ![r] = g]
    BY <2>1 DEF g
  <2>4. QED
    BY <1>1, <2>1, <2>2, <2>3, AtTheDatabase DEF InFlight
<1>5. CASE PingAnswered(r)
  <2>1. PICK ping \in {"ok", "failed"} : http' = [http EXCEPT ![r].ping = ping]
    BY <1>5 DEF PingAnswered
  <2>2. req' = [req EXCEPT ![r] = "working"]
    BY <1>5 DEF PingAnswered, Release
  <2> DEFINE g == [h EXCEPT !.ping = ping]
  <2>3. g \in Recorders /\ AtWork(g) /\ g.call = h.call
    BY <1>3
  <2>4. http' = [http EXCEPT ![r] = g]
    BY <2>1
  <2> HIDE DEF g
  <2>5. QED
    BY <1>1, <2>2, <2>3, <2>4, AtTheDatabase DEF InFlight
<1>6. CASE PingTimesOut(r)
  <2> DEFINE g == [h EXCEPT !.ping = "failed"]
  <2>1. g \in Recorders /\ AtWork(g) /\ g.call = h.call
    BY <1>3
  <2>2. http' = [http EXCEPT ![r] = g] /\ UNCHANGED req
    BY <1>6 DEF PingTimesOut, vars
  <2> HIDE DEF g
  <2>3. QED
    BY <1>1, <2>1, <2>2, WorkingOn
<1>7. CASE ProbeEnds(r)
  <2> DEFINE g == [h EXCEPT !.probed = TRUE]
  <2>1. g \in Recorders /\ AtWork(g) /\ g.call = h.call
    BY <1>2 DEF Recorders, AtWork
  <2>2. http' = [http EXCEPT ![r] = g] /\ UNCHANGED req
    BY <1>7 DEF ProbeEnds, vars
  <2> HIDE DEF g
  <2>3. QED
    BY <1>1, <2>1, <2>2, WorkingOn
<1>8. CASE Readiness(r)
  <2> DEFINE status == IF h.ping = "ok" THEN 200 ELSE 503
             g == Answered(h, status)
  <2>1. status \in Codes200
    BY DEF Codes200
  <2>2. http' = [http EXCEPT ![r] = g] /\ UNCHANGED req
    BY <1>8 DEF Readiness, vars
  <2> HIDE DEF status
  <2>3. g \in Recorders /\ AtWork(g) /\ g.call = h.call
    BY <1>2, <2>1, RecorderAnswers
  <2> HIDE DEF g
  <2>4. QED
    BY <1>1, <2>2, <2>3, WorkingOn
<1>9. QED
  BY <1>4, <1>5, <1>6, <1>7, <1>8 DEF ReadyzStep

(* The three ways out of a handler. *)
LEMMA ReturnsKeep ==
  ASSUME TypeOK, HTTPType, RecorderInv, NEW r \in Request, Finish(r) \/ Panic(r) \/ Abort(r)
  PROVE  HTTPType' /\ RecorderInv'
<1> DEFINE h == http[r]
<1>1. PICK audited \in BOOLEAN : Return(r, audited)
  BY DEF Finish, Panic, Abort
<1>2. h \in Recorders /\ AtWork(h)
  BY <1>1, BusyRecorder DEF Return
<1>3. CASE Finish(r)
  <2>1. Logged(h) \in Recorders /\ Done(Logged(h)) /\ Logged(h).call = h.call
    BY <1>2, FinishIsDone
  <2>2. http' = [http EXCEPT ![r] = Logged(h)]
    BY <1>3 DEF Finish
  <2>3. QED
    BY <1>1, <2>1, <2>2, Returning
<1>4. CASE Panic(r)
  <2> DEFINE g == Logged(Recovered([h EXCEPT !.panicked = h.wire]))
  <2>1. g \in Recorders /\ Done(g) /\ g.call = h.call
    BY <1>2, PanicIsDone
  <2>2. http' = [http EXCEPT ![r] = g]
    BY <1>4 DEF Panic
  <2> HIDE DEF g
  <2>3. QED
    BY <1>1, <2>1, <2>2, Returning
<1>5. CASE Abort(r)
  <2> DEFINE g == [h EXCEPT !.dropped = TRUE]
  <2>1. g \in Recorders
    BY <1>2 DEF Recorders
  <2>2. g.dropped /\ g.panicked = 0 - 1 /\ g.call = h.call
    BY <1>2 DEF AtWork, Recorders
  <2>3. http' = [http EXCEPT ![r] = g]
    BY <1>5 DEF Abort
  <2> HIDE DEF g
  <2>4. Done(g)
    BY <2>2 DEF Done, Answers
  <2>5. QED
    BY <1>1, <2>1, <2>2, <2>3, <2>4, Returning
<1>6. QED
  BY <1>3, <1>4, <1>5
-----------------------------------------------------------------------------
(***************************************************************************)
(* The theorems.                                                           *)
(***************************************************************************)
FrontInv == TypeOK /\ ServerInv /\ HTTPType /\ RecorderInv

(* Nothing has been accepted and no pool is open. *)
LEMMA FrontInvStarts == FrontInit => FrontInv
<1> SUFFICES ASSUME FrontInit PROVE FrontInv
  OBVIOUS
<1>1. TypeOK
  BY DEF FrontInit, Init, TypeOK, StartSteps, Codes
<1>2. ServerInv
  BY DEF FrontInit, Init, ServerInv, Untouched
<1>3. NewRecorder \in Recorders /\ AtWork(NewRecorder) /\ NewRecorder.call = "none"
  <2>1. 200 \in Codes200
    BY DEF Codes200
  <2>2. NewRecorder \in Recorders
    BY <2>1 DEF NewRecorder, Recorders
  <2>3. QED
    BY <2>2 DEF NewRecorder, AtWork
<1>4. http = [r \in Request |-> NewRecorder] /\ req = [r \in Request |-> "idle"]
  BY DEF FrontInit, Init
<1>5. HTTPType /\ RecorderInv
  BY <1>3, <1>4 DEF HTTPType, RecorderInv, Recorded
<1>6. QED
  BY <1>1, <1>2, <1>5 DEF FrontInv

(* A step is the process's, one request's, or none. *)
LEMMA FrontInvStep == FrontInv /\ [FrontNext]_front => FrontInv'
<1> SUFFICES ASSUME FrontInv, [FrontNext]_front PROVE FrontInv'
  OBVIOUS
<1> USE DEF FrontInv
<1>1. CASE ProcessStep /\ UNCHANGED http
  <2>1. TypeOK' /\ ServerInv'
    BY <1>1, ProcessType, ProcessKeeps
  <2>2. \A r \in Request : \/ req'[r] = req[r]
                           \/ req[r] \in {"working", "db"} /\ req'[r] \in {"working", "db", "killed"}
    BY <1>1, ProcessAndRequests DEF InFlight
  <2>3. HTTPType' /\ RecorderInv'
    BY <1>1, <2>2, RecordersAlone
  <2>4. QED
    BY <2>1, <2>3
<1>2. ASSUME NEW r \in Request, Serve(r) PROVE FrontInv'
  <2>1. RequestStep(r) \/ UNCHANGED vars
    BY <1>2, ServeIsRequestStep
  <2>2. TypeOK' /\ ServerInv'
    BY <2>1, RequestStepType, RequestStepKeeps
  <2>3. CASE \E call \in Calls : Enter(r, call)
    BY <2>2, <2>3, EnterKeeps
  <2>4. CASE AnswerAtOnce(r) \/ DomainWrites(r)
    BY <2>2, <2>4, AnswersKeep
  <2>5. CASE DomainQueries(r)
    BY <2>2, <2>5, DomainQueriesKeep
  <2>6. CASE ReadyzStep(r)
    BY <2>2, <2>6, ReadyzKeeps
  <2>7. CASE Finish(r) \/ Panic(r) \/ Abort(r)
    BY <2>2, <2>7, ReturnsKeep
  <2>8. CASE AuditStep(r) /\ UNCHANGED http
    <3>1. UNCHANGED req
      BY <2>8 DEF AuditStep, AuditAcquires, AuditRefused, AuditWrites
    <3>2. HTTPType' /\ RecorderInv'
      BY <2>8, <3>1, RecordersAlone
    <3>3. QED
      BY <2>2, <3>2
  <2>9. QED
    BY <1>2, <2>3, <2>4, <2>5, <2>6, <2>7, <2>8 DEF Serve
<1>3. CASE UNCHANGED front
  <2>1. UNCHANGED << vars, http >>
    BY <1>3 DEF front
  <2>2. TypeOK' /\ ServerInv'
    BY <2>1 DEF vars, TypeOK, ServerInv, Untouched, InFlight
  <2>3. HTTPType' /\ RecorderInv'
    BY <2>1, RecordersAlone DEF vars
  <2>4. QED
    BY <2>2, <2>3
<1>4. QED
  BY <1>1, <1>2, <1>3 DEF FrontNext, ProcessStep

(* The inductive invariant of the front door. *)
LEMMA FrontInvHolds == FrontSpec => []FrontInv
BY FrontInvStarts, FrontInvStep, PTL DEF FrontSpec

(* Every variable of the process and every recorder keeps its type: the    *)
(* status that a recorder notes is one that HTTP knows.                    *)
THEOREM TypeCorrect == FrontSpec => []HTTPTypeOK
<1>1. FrontInv => HTTPTypeOK
  BY TypeIsRecorded DEF FrontInv
<1>2. QED
  BY <1>1, FrontInvHolds, PTL

(* "So a request never loses its database connection mid-flight": a        *)
(* process that ends with 0 took nothing from any request, for every       *)
(* number of requests and every size of the pool.                          *)
THEOREM CleanExit == FrontSpec => []CleanExitLosesNothing
<1>1. FrontInv => CleanExitLosesNothing
  BY DEF FrontInv, ServerInv, Untouched, CleanExitLosesNothing
<1>2. QED
  BY <1>1, FrontInvHolds, PTL

(* "Logs exactly one summary line per request", with the status that went  *)
(* out, whatever the handler did with its writer; and after a clean exit   *)
(* no request that was accepted is without its line.                       *)
THEOREM LogMatchesWire == FrontSpec => []LogIsTrue
<1>1. FrontInv => LogIsTrue
  <2> SUFFICES ASSUME FrontInv PROVE LogIsTrue
    OBVIOUS
  <2>1. \A r \in Request : req[r] = "returned" /\ ~ http[r].dropped
                             => http[r].line = http[r].wire /\ http[r].line # 0
    BY DEF FrontInv, RecorderInv, Recorded, Done
  <2>2. ASSUME phase = "exited", code = 0, NEW r \in Request, http[r].call # "none", ~ http[r].dropped
        PROVE  http[r].line # 0
    <3>1. req[r] # "killed" /\ req[r] \notin {"working", "db"}
      BY <2>2 DEF FrontInv, ServerInv, Untouched, InFlight
    <3>2. req[r] # "idle"
      BY <2>2 DEF FrontInv, RecorderInv, Recorded
    <3>3. req[r] = "returned"
      BY <3>1, <3>2 DEF FrontInv, TypeOK
    <3>4. QED
      BY <2>1, <2>2, <3>3
  <2>3. QED
    BY <2>1, <2>2 DEF LogIsTrue
<1>2. QED
  BY <1>1, FrontInvHolds, PTL

(* Recoverer: a panic before the response began is answered 500 with its   *)
(* error as the only body, and one after leaves the response as it was.    *)
THEOREM PanicsAreAnswered == FrontSpec => []PanicIsAnswered
<1>1. FrontInv => PanicIsAnswered
  <2> SUFFICES ASSUME FrontInv, NEW r \in Request PROVE Answers(http[r])
    BY DEF PanicIsAnswered, Answers
  <2>1. CASE req[r] = "returned"
    BY <2>1 DEF FrontInv, RecorderInv, Recorded, Done
  <2>2. CASE req[r] # "returned"
    BY <2>2 DEF FrontInv, RecorderInv, Recorded, AtWork, Answers
  <2>3. QED
    BY <2>1, <2>2
<1>2. QED
  BY <1>1, FrontInvHolds, PTL

(* The front door is the process of Server with its requests filled in:    *)
(* whatever a request does, the process, the pool and the audit goroutines *)
(* take a step that Server allows, so what holds of Server holds here.     *)
THEOREM FrontDoorIsServer == FrontSpec => Spec
<1>1. FrontInit => Init
  BY DEF FrontInit
<1>2. [FrontNext]_front => [Next]_vars
  <2> SUFFICES ASSUME [FrontNext]_front PROVE [Next]_vars
    OBVIOUS
  <2>1. CASE ProcessStep
    BY <2>1 DEF Next, ProcessStep
  <2>2. ASSUME NEW r \in Request, Serve(r) PROVE [Next]_vars
    BY <2>2, ServeIsRequestStep DEF Next
  <2>3. CASE UNCHANGED front
    BY <2>3 DEF front
  <2>4. QED
    BY <2>1, <2>2, <2>3 DEF FrontNext, ProcessStep, front
<1>3. QED
  BY <1>1, <1>2, PTL DEF FrontSpec, Spec

(* A step of the process opens and closes the pool in its phases, and      *)
(* leaves nothing running when it ends.                                    *)
LEMMA ProcessKeepsPool == ASSUME TypeOK, PoolInv, ProcessStep PROVE PoolInv'
<1> USE DEF TypeOK, PoolInv, Quiet, Starting, reqVars, conf
<1>1. CASE LoadConfig
  BY <1>1 DEF LoadConfig
<1>2. CASE ConfigFails
  BY <1>2 DEF ConfigFails
<1>3. CASE StartStep
  BY <1>3 DEF StartStep, After
<1>4. CASE StartFails
  BY <1>4 DEF StartFails
<1>5. CASE Signal
  BY <1>5 DEF Signal
<1>6. CASE ServeFails
  BY <1>6 DEF ServeFails
<1>7. CASE BeginShutdown
  BY <1>7 DEF BeginShutdown
<1>8. CASE Drained
  BY <1>8 DEF Drained
<1>9. CASE GraceExceeded
  BY <1>9 DEF GraceExceeded
<1>10. CASE Exit
  <2>1. \A r \in Request : req[r] # "db" /\ audit[r] # "writing"
    BY <1>10 DEF Exit, Holders
  <2>2. \A r \in Request : Quiet(r)'
    BY <1>10, <2>1 DEF Exit, InFlight
  <2>3. QED
    BY <1>10, <2>2 DEF Exit
<1>11. QED
  BY <1>1, <1>2, <1>3, <1>4, <1>5, <1>6, <1>7, <1>8, <1>9, <1>10 DEF ProcessStep, Process

(* No request starts, and no goroutine goes on, while nothing may run.     *)
LEMMA RequestKeepsPool ==
  ASSUME TypeOK, PoolInv, NEW r \in Request, RequestStep(r) \/ UNCHANGED vars PROVE PoolInv'
<1> USE DEF TypeOK, PoolInv, Quiet, Starting
<1>1. CASE Accept(r)
  BY <1>1 DEF Accept
<1>2. CASE Acquire(r)
  BY <1>2 DEF Acquire
<1>3. CASE AcquireRefused(r)
  BY <1>3 DEF AcquireRefused
<1>4. CASE Release(r)
  BY <1>4 DEF Release
<1>5. CASE \E audited \in BOOLEAN : Return(r, audited)
  BY <1>5 DEF Return
<1>6. CASE AuditStep(r)
  BY <1>6 DEF AuditStep, AuditAcquires, AuditRefused, AuditWrites
<1>7. CASE UNCHANGED vars
  BY <1>7 DEF vars
<1>8. QED
  BY <1>1, <1>2, <1>3, <1>4, <1>5, <1>6, <1>7 DEF RequestStep

(* runServer: "the pool is always released".  Whichever way the process    *)
(* ends (the configuration, a step of the start, serving, a clean drain or *)
(* an exceeded grace), no connection is open or in use and nothing is half *)
(* way through anything.                                                   *)
THEOREM PoolAlwaysReleased == Spec => []PoolIsReleased
<1>1. Init => TypeOK /\ PoolInv
  <2> SUFFICES ASSUME Init PROVE TypeOK /\ PoolInv
    OBVIOUS
  <2>1. TypeOK
    BY DEF Init, TypeOK, StartSteps, Codes
  <2>2. PoolInv
    BY DEF Init, PoolInv, Starting, Quiet
  <2>3. QED
    BY <2>1, <2>2
<1>2. (TypeOK /\ PoolInv) /\ [Next]_vars => (TypeOK /\ PoolInv)'
  <2> SUFFICES ASSUME TypeOK, PoolInv, [Next]_vars PROVE TypeOK' /\ PoolInv'
    OBVIOUS
  <2>1. CASE ProcessStep
    BY <2>1, ProcessType, ProcessKeepsPool
  <2>2. ASSUME NEW r \in Request, RequestStep(r) PROVE TypeOK' /\ PoolInv'
    BY <2>2, RequestStepType, RequestKeepsPool
  <2>3. CASE UNCHANGED vars
    BY <2>3 DEF vars, TypeOK, PoolInv, Quiet, Starting
  <2>4. QED
    BY <2>1, <2>2, <2>3 DEF Next, ProcessStep
<1>3. TypeOK /\ PoolInv => PoolIsReleased
  BY DEF PoolInv, PoolIsReleased, Quiet, Starting, Holders, InFlight
<1>4. QED
  BY <1>1, <1>2, <1>3, PTL DEF Spec

(* The same of the process with the front door.                            *)
THEOREM FrontDoorReleasesPool == FrontSpec => []PoolIsReleased
BY FrontDoorIsServer, PoolAlwaysReleased
=============================================================================
