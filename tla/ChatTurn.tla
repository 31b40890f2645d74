------------------------------ MODULE ChatTurn ------------------------------
(***************************************************************************)
(* One POST /v1/gateway/chat from the two-key middleware to the audit row: *)
(* internal/gateway (auth.go, chat.go, stream.go), the parts of internal/  *)
(* gatewaycore, conversation, apikey and vllm it calls, and usage.  Many   *)
(* requests run at once, an administrator edits and revokes keys under     *)
(* them, callers leave at any step, the database and the model fail, and   *)
(* the process dies.                                                       *)
(*                                                                         *)
(* A history is the set of the requests whose exchange it holds; module    *)
(* Conversation models its messages and their order.  A persona is the     *)
(* number of edits that led to it.                                         *)
(***************************************************************************)
EXTENDS Naturals, FiniteSets, Sequences

CONSTANTS
  Request,   \* the requests of a behaviour; a request names the session it issues
  Key,       \* api keys
  Call,      \* what the caller of each request may send
  MaxEdits,  \* bound on the edits of a key's persona
  Revocable, \* the keys that may be revoked in an instance
  MaxCrashes,
  Faults     \* which failures occur: "db" a statement fails, "lostAck" the
             \* connection breaks while COMMIT is in flight, "noFlush" the
             \* ResponseWriter cannot stream

NoKey == "no key"
NoConv == "no conversation"

(* A decoded request.  key: the key of the key-id header, NoKey when it is *)
(* missing or unknown; secret: the secret is that key's; body: the body is *)
(* well-formed JSON with a valid turn; session: the session_id sent.       *)
CallSet ==
  [key : Key \cup {NoKey}, secret : BOOLEAN, body : BOOLEAN, model : BOOLEAN, stream : BOOLEAN,
   session : Request \cup {"new", "malformed"}]

ASSUME ChatAssumption ==
  /\ IsFiniteSet(Request)
  /\ Call \in [Request -> SUBSET CallSet]
  /\ MaxEdits \in Nat /\ MaxCrashes \in Nat /\ Revocable \subseteq Key
  /\ Faults \subseteq {"db", "lostAck", "noFlush"}
ASSUME NamesAssumption ==
  /\ NoKey \notin Key
  /\ Request \cap {NoConv, "new", "malformed"} = {}

VARIABLES
  revoked, persona, \* api_keys: revoked_at is set; the edits of the persona
  owner,    \* conversations: the key a session belongs to, NoKey when there is no such row
  commit,   \* messages: the transaction that stores a request's exchange
  pc,       \* where the handler of a request is
  call,     \* what the caller sent
  gone,     \* the caller left: the request's context is cancelled
  cred,     \* the credential the middleware attached
  conv,     \* the session of the turn
  seen,     \* the history sent upstream
  resp,     \* the status written
  frames,   \* the SSE frames written, content deltas left out
  outcome,  \* the outcome passed to finish
  audit,    \* the gateway_usage row and the goroutine that writes it
  touch,    \* the last_used_at update and the goroutine that does it
  crashes,
  atArrival \* auxiliary: the world when the request arrived

keyVars == << revoked, persona >>
dbVars == << owner, commit >>
turnVars == << cred, conv, seen >>
replyVars == << resp, frames, outcome >>
bgVars == << audit, touch, crashes >>
vars == << keyVars, dbVars, pc, call, gone, turnVars, replyVars, bgVars, atArrival >>

Running == {"authenticate", "limit", "decode", "resolve", "assemble", "call", "complete",
            "open", "relay", "classify", "persist", "commit", "finish"}
Ended == {"ended", "crashed"}
Outcome == {"success", "upstream_error", "persist_error", "client_disconnect", "internal_error"}
Status == {"200", "400", "401", "404", "429", "500", "502", "503"}

TypeOK ==
  /\ revoked \in [Key -> BOOLEAN]
  /\ persona \in [Key -> Nat]
  /\ owner \in [Request -> Key \cup {NoKey}]
  /\ commit \in [Request -> {"none", "sent", "applied", "aborted"}]
  /\ pc \in [Request -> {"idle"} \cup Running \cup Ended]
  /\ call \in [Request -> CallSet]
  /\ gone \in [Request -> BOOLEAN]
  /\ cred \in [Request -> [key : Key \cup {NoKey}, persona : Nat]]
  /\ conv \in [Request -> Request \cup {NoConv}]
  /\ seen \in [Request -> SUBSET Request]
  /\ resp \in [Request -> Status \cup {"none"}]
  /\ frames \in [Request -> Seq({"session", "done", "error"})]
  /\ outcome \in [Request -> Outcome \cup {"none"}]
  /\ audit \in [Request -> {"none", "pending", "row", "lost"}]
  /\ touch \in [Request -> {"none", "pending", "done", "lost"}]
  /\ crashes \in Nat
  /\ atArrival \in [Request -> [revoked : BOOLEAN, persona : Nat, saved : SUBSET Request]]

NoCall == [key |-> NoKey, secret |-> FALSE, body |-> FALSE, model |-> FALSE, stream |-> FALSE,
           session |-> "new"]
NoCred == [key |-> NoKey, persona |-> 0]

Init ==
  /\ revoked = [k \in Key |-> FALSE]
  /\ persona = [k \in Key |-> 0]
  /\ owner = [r \in Request |-> NoKey]
  /\ commit = [r \in Request |-> "none"]
  /\ pc = [r \in Request |-> "idle"]
  /\ call = [r \in Request |-> NoCall]
  /\ gone = [r \in Request |-> FALSE]
  /\ cred = [r \in Request |-> NoCred]
  /\ conv = [r \in Request |-> NoConv]
  /\ seen = [r \in Request |-> {}]
  /\ resp = [r \in Request |-> "none"]
  /\ frames = [r \in Request |-> << >>]
  /\ outcome = [r \in Request |-> "none"]
  /\ audit = [r \in Request |-> "none"]
  /\ touch = [r \in Request |-> "none"]
  /\ crashes = 0
  /\ atArrival = [r \in Request |-> [revoked |-> FALSE, persona |-> 0, saved |-> {}]]

Goto(r, from, to) == pc[r] = from /\ pc' = [pc EXCEPT ![r] = to]

(* writeError in a middleware or in prepareTurn: the handler returns and   *)
(* the call is not audited.                                                *)
Reject(r, from, status) ==
  /\ Goto(r, from, "ended")
  /\ resp' = [resp EXCEPT ![r] = status]
  /\ UNCHANGED << frames, outcome >>

(* A statement on the request's context: it fails when the caller has left *)
(* before it starts, and may fail when the database does.                  *)
DbWorks(r) == ~ gone[r]
DbMayFail(r) == gone[r] \/ "db" \in Faults

-----------------------------------------------------------------------------
(***************************************************************************)
(* The caller and the administrator.                                       *)
(***************************************************************************)

(* The caller of u has been told that its exchange was saved. *)
ToldSaved(u) == outcome[u] = "success" /\ (call[u].stream => pc[u] = "ended")

Arrive(r) ==
  /\ Goto(r, "idle", "authenticate")
  /\ \E c \in Call[r] :
       LET turns == {u \in Request : conv[u] = c.session}
       IN  /\ call' = [call EXCEPT ![r] = c]
           /\ atArrival' = [atArrival EXCEPT ![r] =
                [revoked   |-> IF c.key \in Key THEN revoked[c.key] ELSE FALSE,
                 persona   |-> IF c.key \in Key THEN persona[c.key] ELSE 0,
                 saved     |-> {u \in turns : ToldSaved(u)}]]
  /\ UNCHANGED << keyVars, dbVars, gone, turnVars, replyVars, bgVars >>

(* net/http cancels the request's context when the connection is lost. *)
Disconnect(r) ==
  /\ pc[r] \in Running /\ ~ gone[r]
  /\ gone' = [gone EXCEPT ![r] = TRUE]
  /\ UNCHANGED << keyVars, dbVars, pc, call, turnVars, replyVars, bgVars, atArrival >>

Revoke(k) ==
  /\ k \in Revocable /\ ~ revoked[k]
  /\ revoked' = [revoked EXCEPT ![k] = TRUE]
  /\ UNCHANGED << persona, dbVars, pc, call, gone, turnVars, replyVars, bgVars, atArrival >>

EditPersona(k) ==
  /\ persona[k] < MaxEdits
  /\ persona' = [persona EXCEPT ![k] = @ + 1]
  /\ UNCHANGED << revoked, dbVars, pc, call, gone, turnVars, replyVars, bgVars, atArrival >>

-----------------------------------------------------------------------------
(* Mutant: GetActiveByKeyID without revoked_at IS NULL. *)
KnownKeyEver(r) ==
  call[r].key \in Key

(***************************************************************************)
(* RequireCredential: GetActiveByKeyID, VerifySecret, the detached touch.  *)
(***************************************************************************)
KnownKey(r) == call[r].key \in Key /\ ~ revoked[call[r].key]

(* The Credential put in the request's context: the row as it is now. *)
Snapshot(k) == [key |-> k, persona |-> persona[k]]

Authenticate(r) ==
  /\ DbWorks(r)
  /\ KnownKey(r) /\ call[r].secret
  /\ Goto(r, "authenticate", "limit")
  /\ cred' = [cred EXCEPT ![r] = Snapshot(call[r].key)]
  /\ touch' = [touch EXCEPT ![r] = "pending"]
  /\ UNCHANGED << keyVars, dbVars, call, gone, conv, seen, replyVars, audit, crashes, atArrival >>

(* A missing header is refused before the database is asked. *)
Unauthorized(r) ==
  /\ call[r].key = NoKey \/ (DbWorks(r) /\ ~ (KnownKey(r) /\ call[r].secret))
  /\ Reject(r, "authenticate", "401")
  /\ UNCHANGED << keyVars, dbVars, call, gone, turnVars, bgVars, atArrival >>

AuthUnavailable(r) ==
  /\ DbMayFail(r)
  /\ Reject(r, "authenticate", "503")
  /\ UNCHANGED << keyVars, dbVars, call, gone, turnVars, bgVars, atArrival >>

(* The limiter of the credential admits the request, or not (RateLimit). *)
Admit(r) ==
  /\ Goto(r, "limit", "decode")
  /\ UNCHANGED << keyVars, dbVars, call, gone, turnVars, replyVars, bgVars, atArrival >>

TooManyRequests(r) ==
  /\ Reject(r, "limit", "429")
  /\ UNCHANGED << keyVars, dbVars, call, gone, turnVars, bgVars, atArrival >>

-----------------------------------------------------------------------------
(***************************************************************************)
(* prepareTurn.                                                            *)
(***************************************************************************)
ValidCall(c) == c.body /\ (c.session = "new" => c.model)

Decode(r) ==
  /\ ValidCall(call[r])
  /\ Goto(r, "decode", "resolve")
  /\ UNCHANGED << keyVars, dbVars, call, gone, turnVars, replyVars, bgVars, atArrival >>

BadRequest(r) ==
  /\ ~ ValidCall(call[r])
  /\ Reject(r, "decode", "400")
  /\ UNCHANGED << keyVars, dbVars, call, gone, turnVars, bgVars, atArrival >>

(* Resolve without a session_id: CreateConversation, before the model is   *)
(* asked; a conversation always has a model, so the turn has one too.      *)
Issue(r) ==
  /\ DbWorks(r) /\ call[r].session = "new"
  /\ Goto(r, "resolve", "assemble")
  /\ owner' = [owner EXCEPT ![r] = cred[r].key]
  /\ conv' = [conv EXCEPT ![r] = r]
  /\ UNCHANGED << keyVars, commit, call, gone, cred, seen, replyVars, bgVars, atArrival >>

(* Mutant: GetConversation without AND api_key_id. *)
UnscopedSession(k, s) ==
  s \in Request /\ owner[s] # NoKey

(* GetConversation: scoped to the credential. *)
Scoped(k, s) == s \in Request /\ owner[s] = k

Lookup(r) ==
  /\ DbWorks(r) /\ Scoped(cred[r].key, call[r].session)
  /\ Goto(r, "resolve", "assemble")
  /\ conv' = [conv EXCEPT ![r] = call[r].session]
  /\ UNCHANGED << keyVars, dbVars, call, gone, cred, seen, replyVars, bgVars, atArrival >>

SessionNotFound(r) ==
  /\ DbWorks(r) /\ call[r].session \in Request /\ ~ Scoped(cred[r].key, call[r].session)
  /\ Reject(r, "resolve", "404")
  /\ UNCHANGED << keyVars, dbVars, call, gone, turnVars, bgVars, atArrival >>

(* The statement failed: an INSERT may have been done all the same.  A     *)
(* session_id that is not a uuid is a statement error too.                 *)
ResolveUnavailable(r) ==
  /\ DbMayFail(r) \/ call[r].session = "malformed"
  /\ Reject(r, "resolve", "503")
  /\ \/ UNCHANGED owner
     \/ call[r].session = "new" /\ owner' = [owner EXCEPT ![r] = cred[r].key]
  /\ UNCHANGED << keyVars, commit, call, gone, turnVars, bgVars, atArrival >>

(* Mutant: A context built without the stored history. *)
AssembleAlone(r) ==
  /\ DbWorks(r)
  /\ Goto(r, "assemble", "call")
  /\ UNCHANGED << keyVars, dbVars, call, gone, turnVars, replyVars, bgVars, atArrival >>

(* AssembleContext: LoadHistory of the session. *)
Assemble(r) ==
  /\ DbWorks(r)
  /\ Goto(r, "assemble", "call")
  /\ seen' = [seen EXCEPT ![r] = {u \in Request : conv[u] = conv[r] /\ commit[u] = "applied"}]
  /\ UNCHANGED << keyVars, dbVars, call, gone, cred, conv, replyVars, bgVars, atArrival >>

AssembleUnavailable(r) ==
  /\ DbMayFail(r)
  /\ Reject(r, "assemble", "503")
  /\ UNCHANGED << keyVars, dbVars, call, gone, turnVars, bgVars, atArrival >>

-----------------------------------------------------------------------------
(***************************************************************************)
(* The upstream call.  A reply is written, then finish is called with the  *)
(* outcome.                                                                *)
(***************************************************************************)
Conclude(r, from, status, fr, out) ==
  /\ Goto(r, from, "finish")
  /\ resp' = [resp EXCEPT ![r] = status]
  /\ frames' = [frames EXCEPT ![r] = @ \o fr]
  /\ outcome' = [outcome EXCEPT ![r] = out]
  /\ UNCHANGED << keyVars, dbVars, call, gone, turnVars, bgVars, atArrival >>

CallUpstream(r) ==
  /\ ~ gone[r]
  /\ Goto(r, "call", IF call[r].stream THEN "open" ELSE "complete")
  /\ UNCHANGED << keyVars, dbVars, call, gone, turnVars, replyVars, bgVars, atArrival >>

NoFlusher(r) ==
  /\ "noFlush" \in Faults /\ call[r].stream
  /\ Conclude(r, "call", "500", << >>, "internal_error")

(* The context ended before the request was sent. *)
CallCancelled(r) ==
  /\ gone[r]
  /\ Conclude(r, "call", "502", << >>, "upstream_error")

(* Transport error, non-2xx, undecodable body or no choices. *)
CompleteFails(r) == Conclude(r, "complete", "502", << >>, "upstream_error")
StreamRefused(r) == Conclude(r, "open", "502", << >>, "upstream_error")

Complete(r) ==
  /\ Goto(r, "complete", "persist")
  /\ UNCHANGED << keyVars, dbVars, call, gone, turnVars, replyVars, bgVars, atArrival >>

(* SSE headers and the session frame. *)
StreamOpens(r) ==
  /\ Goto(r, "open", "relay")
  /\ resp' = [resp EXCEPT ![r] = "200"]
  /\ frames' = [frames EXCEPT ![r] = << "session" >>]
  /\ UNCHANGED << keyVars, dbVars, call, gone, turnVars, outcome, bgVars, atArrival >>

(* relayStream: [DONE] is written to the caller, then it returns. *)
RelayDone(r) ==
  /\ Goto(r, "relay", "persist")
  /\ frames' = [frames EXCEPT ![r] = Append(@, "done")]
  /\ UNCHANGED << keyVars, dbVars, call, gone, turnVars, resp, outcome, bgVars, atArrival >>

(* Mutant: The upstream call made without the request's context. *)
RelayDetached(r) ==
  /\ ~ gone[r]
  /\ Goto(r, "relay", "classify")
  /\ frames' = [frames EXCEPT ![r] = Append(@, "error")]
  /\ UNCHANGED << keyVars, dbVars, call, gone, turnVars, resp, outcome, bgVars, atArrival >>

(* The body ended without [DONE]: an error frame, if the caller is there. *)
RelayCut(r) ==
  /\ Goto(r, "relay", "classify")
  /\ frames' = [frames EXCEPT ![r] = IF gone[r] THEN @ ELSE Append(@, "error")]
  /\ UNCHANGED << keyVars, dbVars, call, gone, turnVars, resp, outcome, bgVars, atArrival >>

(* Mutant: Every cut stream recorded as an upstream error. *)
ClassifyBlindly(r) ==
  Conclude(r, "classify", resp[r], << >>, "upstream_error")

(* streamChat looks at the context once more to name the outcome. *)
Classify(r) ==
  Conclude(r, "classify", resp[r], << >>, IF gone[r] THEN "client_disconnect" ELSE "upstream_error")

-----------------------------------------------------------------------------
(***************************************************************************)
(* PersistExchange: on the request's context for a JSON reply, on a        *)
(* detached one with a 10 s limit for a stream.  The database completes or *)
(* drops a transaction whether or not the handler waits for it.            *)
(***************************************************************************)
Interruptible(r) == call[r].stream \/ gone[r]

SendCommit(r) ==
  /\ call[r].stream \/ ~ gone[r]
  /\ Goto(r, "persist", "commit")
  /\ commit' = [commit EXCEPT ![r] = "sent"]
  /\ UNCHANGED << keyVars, owner, call, gone, turnVars, replyVars, bgVars, atArrival >>

DbCommit(r) ==
  /\ commit[r] = "sent"
  /\ commit' = [commit EXCEPT ![r] = "applied"]
  /\ UNCHANGED << keyVars, owner, pc, call, gone, turnVars, replyVars, bgVars, atArrival >>

(* COMMIT fails, or the connection is closed under the transaction. *)
DbAbort(r) ==
  /\ commit[r] = "sent"
  /\ "db" \in Faults \/ pc[r] # "commit"
  /\ commit' = [commit EXCEPT ![r] = "aborted"]
  /\ UNCHANGED << keyVars, owner, pc, call, gone, turnVars, replyVars, bgVars, atArrival >>

(* The reply to an exchange that PersistExchange reported as not saved. *)
NotSaved(r, from) ==
  IF call[r].stream
  THEN Conclude(r, from, "200", << "error" >>, "persist_error")
  ELSE Conclude(r, from, "500", << >>, "persist_error")

(* LoadHistory, BEGIN, INSERT or UPDATE fails. *)
PersistFails(r) ==
  /\ Interruptible(r) \/ "db" \in Faults
  /\ NotSaved(r, "persist")

(* Mutant: A failed commit retried from the start. *)
CommitRetried(r) ==
  /\ commit[r] = "aborted" \/ Interruptible(r) \/ "lostAck" \in Faults
  /\ Goto(r, "commit", "persist")
  /\ UNCHANGED << keyVars, dbVars, call, gone, turnVars, replyVars, bgVars, atArrival >>

(* Commit returns an error: the transaction was dropped, or the context    *)
(* ended or the connection broke before the answer came.                   *)
CommitFails(r) ==
  /\ commit[r] = "aborted" \/ Interruptible(r) \/ "lostAck" \in Faults
  /\ NotSaved(r, "commit")

CommitReturns(r) ==
  /\ commit[r] = "applied"
  /\ Conclude(r, "commit", "200", << >>, "success")

-----------------------------------------------------------------------------
(***************************************************************************)
(* finish hands the record to a goroutine of its own; the handler returns. *)
(***************************************************************************)
Finish(r) ==
  /\ Goto(r, "finish", "ended")
  /\ audit' = [audit EXCEPT ![r] = "pending"]
  /\ UNCHANGED << keyVars, dbVars, call, gone, turnVars, replyVars, touch, crashes, atArrival >>

AuditWrites(r) ==
  /\ audit[r] = "pending"
  /\ \/ audit' = [audit EXCEPT ![r] = "row"]
     \/ "db" \in Faults /\ audit' = [audit EXCEPT ![r] = "lost"]
  /\ UNCHANGED << keyVars, dbVars, pc, call, gone, turnVars, replyVars, touch, crashes, atArrival >>

TouchRuns(r) ==
  /\ touch[r] = "pending"
  /\ \/ touch' = [touch EXCEPT ![r] = "done"]
     \/ "db" \in Faults /\ touch' = [touch EXCEPT ![r] = "lost"]
  /\ UNCHANGED << keyVars, dbVars, pc, call, gone, turnVars, replyVars, audit, crashes, atArrival >>

(* The process dies with its handlers and goroutines and is started again. *)
Crash ==
  /\ crashes < MaxCrashes
  /\ \E r \in Request : pc[r] \in Running \/ audit[r] = "pending" \/ touch[r] = "pending"
  /\ crashes' = crashes + 1
  /\ pc' = [r \in Request |-> IF pc[r] \in Running THEN "crashed" ELSE pc[r]]
  /\ audit' = [r \in Request |-> IF audit[r] = "pending" THEN "lost" ELSE audit[r]]
  /\ touch' = [r \in Request |-> IF touch[r] = "pending" THEN "lost" ELSE touch[r]]
  /\ UNCHANGED << keyVars, dbVars, call, gone, turnVars, replyVars, atArrival >>

-----------------------------------------------------------------------------
Prepare(r) ==
  \/ Authenticate(r) \/ Unauthorized(r) \/ AuthUnavailable(r)
  \/ Admit(r) \/ TooManyRequests(r)
  \/ Decode(r) \/ BadRequest(r)
  \/ Issue(r) \/ Lookup(r) \/ SessionNotFound(r) \/ ResolveUnavailable(r)
  \/ Assemble(r) \/ AssembleUnavailable(r)
  \/ CallUpstream(r) \/ NoFlusher(r) \/ CallCancelled(r)

Upstream(r) ==
  \/ Complete(r) \/ CompleteFails(r)
  \/ StreamOpens(r) \/ StreamRefused(r)
  \/ RelayDone(r) \/ RelayCut(r)

Persist(r) ==
  \/ SendCommit(r) \/ PersistFails(r) \/ CommitFails(r) \/ CommitReturns(r)

Database(r) == DbCommit(r) \/ DbAbort(r)

Background(r) == AuditWrites(r) \/ TouchRuns(r)

Step(r) ==
  \/ Prepare(r) \/ Upstream(r) \/ Classify(r) \/ Persist(r) \/ Finish(r)
  \/ Database(r) \/ Background(r)

Quiet ==
  \A r \in Request : pc[r] \in Ended /\ commit[r] # "sent" /\ audit[r] # "pending" /\ touch[r] # "pending"
Idle == Quiet /\ UNCHANGED vars

Next ==
  \/ \E r \in Request : Arrive(r) \/ Disconnect(r) \/ Step(r)
  \/ \E k \in Key : Revoke(k) \/ EditPersona(k)
  \/ Crash
  \/ Idle

Spec == Init /\ [][Next]_vars

(***************************************************************************)
(* What the program itself guarantees: its own steps are taken, a wait on  *)
(* a context that ended returns, and a stream's save is cut off after 10 s.*)
(* Nothing is assumed of the model or of the database: both may hang.      *)
(***************************************************************************)
OwnStep(r) ==
  \/ Admit(r) \/ TooManyRequests(r) \/ Decode(r) \/ BadRequest(r)
  \/ CallUpstream(r) \/ NoFlusher(r) \/ Classify(r) \/ Finish(r)
ContextEnded(r) ==
  gone[r] /\ (Prepare(r) \/ CompleteFails(r) \/ StreamRefused(r) \/ RelayCut(r) \/ Persist(r))
SaveTimesOut(r) == call[r].stream /\ Interruptible(r) /\ (PersistFails(r) \/ CommitFails(r))

Fairness ==
  \A r \in Request : WF_vars(OwnStep(r)) /\ WF_vars(ContextEnded(r)) /\ WF_vars(SaveTimesOut(r))
FairSpec == Spec /\ Fairness

-----------------------------------------------------------------------------
Stored(r) == commit[r] = "applied"

(* Tenant isolation: what a turn sends upstream, and the session it stores *)
(* its exchange under, belong to the key that authenticated the request,   *)
(* whatever session ids callers present.                                   *)
TenantIsolation ==
  \A r \in Request :
    /\ conv[r] # NoConv => owner[conv[r]] = cred[r].key
    /\ \A u \in seen[r] : cred[u].key = cred[r].key /\ conv[u] = conv[r]

(* Revoke: "immediately stops authenticating": a request that arrives      *)
(* after the revocation issues no session, asks the model nothing and      *)
(* stores nothing, while those already past the check run on; and the      *)
(* persona a request goes on with is not older than the one the key had    *)
(* when it arrived, though it may be older than the current one.           *)
KeyNotStale ==
  \A r \in Request :
    /\ atArrival[r].revoked =>
         owner[r] = NoKey /\ seen[r] = {} /\ commit[r] = "none" /\ outcome[r] = "none"
    /\ cred[r].key # NoKey =>
         atArrival[r].persona <= cred[r].persona /\ cred[r].persona <= persona[cred[r].key]

(* A caller told that its exchange was saved finds it in the context of    *)
(* every turn of the session it sends afterwards.                          *)
FollowUpSeesExchange ==
  \A r \in Request : (pc[r] \notin Ended /\ conv[r] # NoConv /\ pc[r] # "assemble") =>
    atArrival[r].saved \subseteq seen[r]

(* The audited outcome, the reply and the store agree, also after the      *)
(* reply: an upstream failure or a disconnect is never stored, a success   *)
(* always is, and the caller that is still there was told of the failure.  *)
(* A turn that reached the model is audited when its handler returns; one  *)
(* that was refused is not, and has stored nothing.                        *)
OutcomeIsTrue ==
  \A r \in Request :
    /\ outcome[r] = "success" => Stored(r) /\ resp[r] = "200" /\ "error" \notin {frames[r][i] : i \in 1..Len(frames[r])}
    /\ outcome[r] \in {"upstream_error", "client_disconnect", "internal_error"} => commit[r] = "none"
    /\ outcome[r] = "upstream_error" => resp[r] = "502" \/ frames[r] = << "session", "error" >>
    /\ outcome[r] = "client_disconnect" => gone[r] /\ resp[r] = "200"
    /\ outcome[r] = "persist_error" => resp[r] = "500" \/ frames[r] = << "session", "done", "error" >>
    /\ outcome[r] = "internal_error" => resp[r] = "500" /\ frames[r] = << >>
    /\ pc[r] = "ended" =>
         IF resp[r] \in {"200", "500", "502"} THEN audit[r] # "none" /\ outcome[r] # "none"
         ELSE audit[r] = "none" /\ commit[r] = "none"

(* When the caller has left, the handler ends: neither a model that has    *)
(* gone silent nor a database that hangs holds it for ever.  And once      *)
(* [DONE] was relayed it ends although the caller stays: stream.go saves   *)
(* "the completed exchange" on a detached context with a limit.            *)
TurnEnds ==
  /\ \A r \in Request : gone[r] ~> pc[r] \in Ended
  /\ \A r \in Request : (call[r].stream /\ pc[r] \in {"persist", "commit"}) ~> pc[r] \in Ended

-----------------------------------------------------------------------------
(***************************************************************************)
(* The contract of a turn (TurnContract), read off this state.             *)
(***************************************************************************)
Refusal == {"400", "401", "404", "429", "503"}
VerdictOf(r) ==
  IF outcome[r] = "success" THEN "saved"
  ELSE IF outcome[r] = "persist_error" THEN "unsaved"
  ELSE IF outcome[r] # "none" \/ resp[r] \in Refusal THEN "failed"
  ELSE "none"

Contract == INSTANCE TurnContract WITH
  Turn <- Request,
  attempted <- [r \in Request |-> commit[r] # "none"],
  stored <- [r \in Request |-> Stored(r)],
  verdict <- [r \in Request |-> VerdictOf(r)]

(* Every step of the gateway, of the database and of the goroutines that   *)
(* outlive a handler is a step of the contract or none of its business.    *)
RefinesContract == Contract!Spec
=============================================================================
