--------------------------- MODULE ChatTurnProofs ---------------------------
(***************************************************************************)
(* A chat turn for every set of requests, keys and calls, any number of    *)
(* edits and crashes and every combination of failures: what a request     *)
(* sends and stores belongs to its key, a revoked key does nothing, the    *)
(* outcome that is audited agrees with the reply and with the store, a     *)
(* follow-up sees what was saved, and the contract of a turn is kept.      *)
(***************************************************************************)
EXTENDS ChatTurn, SequenceTheorems, TLAPS

(* Where a handler is when the middleware has let its request in, when the *)
(* turn has a session, and when its context has been assembled.            *)
Admitted == Running \ {"authenticate"}
InSession == Admitted \ {"limit", "decode", "resolve"}
InContext == InSession \ {"assemble"}

-----------------------------------------------------------------------------
(***************************************************************************)
(* The inductive invariants.                                               *)
(***************************************************************************)

(* A request has a credential when it was let in, and it is the key it     *)
(* presented; it owns a session, has one and has read history only then.   *)
Credited(r) ==
  /\ cred[r].key # NoKey => cred[r].key = call[r].key /\ pc[r] \notin {"idle", "authenticate"}
  /\ pc[r] \in Admitted => cred[r].key # NoKey
  /\ owner[r] # NoKey => owner[r] = cred[r].key /\ pc[r] \notin {"limit", "decode", "resolve"}

(* A session is had by the requests of the key that owns it, from the      *)
(* moment resolve returned it, and it is the session they asked for.       *)
InOwnSession(r) ==
  /\ pc[r] \in InSession => conv[r] # NoConv
  /\ conv[r] # NoConv =>
       /\ cred[r].key # NoKey /\ owner[conv[r]] = cred[r].key
       /\ pc[r] \in InSession \cup Ended
       /\ call[r].session \in Request => conv[r] = call[r].session

(* History is what the requests of the same session stored. *)
HistoryOfSession(r) ==
  \A u \in seen[r] : conv[r] # NoConv /\ conv[u] = conv[r]

TenantInv == \A r \in Request : Credited(r) /\ InOwnSession(r) /\ HistoryOfSession(r)

(* What the request met when it arrived: the key was revoked only if it    *)
(* still is, and its persona is not newer than the key's.                  *)
MetKey(r) ==
  /\ pc[r] = "idle" => call[r].key = NoKey
  /\ atArrival[r].revoked => call[r].key \in Key /\ revoked[call[r].key] /\ cred[r].key = NoKey
  /\ call[r].key \in Key => atArrival[r].persona <= persona[call[r].key]
  /\ cred[r].key # NoKey =>
       atArrival[r].persona <= cred[r].persona /\ cred[r].persona <= persona[cred[r].key]

KeyInv == \A r \in Request : MetKey(r)

(* What a request has answered and stored before it has an outcome. *)
Unanswered(r) == resp[r] = "none" /\ frames[r] = << >>
Relayed(r, fr) == IF call[r].stream THEN resp[r] = "200" /\ frames[r] = fr ELSE Unanswered(r)

ReplySoFar(r) ==
  /\ pc[r] \in {"idle"} \cup (Running \ {"relay", "classify", "persist", "commit", "finish"}) => Unanswered(r)
  /\ pc[r] \in {"relay", "classify", "open"} => call[r].stream
  /\ pc[r] = "complete" => ~ call[r].stream
  /\ pc[r] = "relay" => Relayed(r, << "session" >>)
  /\ pc[r] = "classify" => resp[r] = "200" /\ (frames[r] = << "session", "error" >> \/ gone[r])
  /\ pc[r] \in {"persist", "commit"} => Relayed(r, << "session", "done" >>)

(* An exchange is sent to the database at the end, and an outcome is given *)
(* after that.  A handler that gave none was refused, or crashed.          *)
StoreSoFar(r) ==
  /\ pc[r] \in {"idle"} \cup (Running \ {"commit", "finish"}) => commit[r] = "none"
  /\ pc[r] = "commit" => commit[r] # "none"
  /\ commit[r] # "none" => conv[r] # NoConv

OutcomeSoFar(r) ==
  /\ pc[r] \in {"idle"} \cup (Running \ {"finish"}) => outcome[r] = "none"
  /\ pc[r] = "finish" => outcome[r] # "none"
  /\ pc[r] \in {"idle"} \cup Running => audit[r] = "none"
  /\ outcome[r] = "none" /\ resp[r] \notin {"none", "200"} => commit[r] = "none" /\ pc[r] = "ended"
  /\ outcome[r] # "none" => resp[r] \in {"200", "500", "502"} /\ pc[r] \in {"finish"} \cup Ended /\ conv[r] # NoConv
  /\ pc[r] = "ended" /\ outcome[r] # "none" => audit[r] # "none"
  /\ pc[r] = "ended" /\ outcome[r] = "none" => audit[r] = "none" /\ resp[r] \in Refusal

(* The part of OutcomeIsTrue that is about the outcome. *)
OutcomeAgrees(r) ==
  /\ outcome[r] = "success" => Stored(r) /\ resp[r] = "200" /\ frames[r] \in {<< >>, << "session", "done" >>}
  /\ outcome[r] \in {"upstream_error", "client_disconnect", "internal_error"} => commit[r] = "none"
  /\ outcome[r] = "upstream_error" => resp[r] = "502" \/ frames[r] = << "session", "error" >>
  /\ outcome[r] = "client_disconnect" => gone[r] /\ resp[r] = "200"
  /\ outcome[r] = "persist_error" => resp[r] = "500" \/ frames[r] = << "session", "done", "error" >>
  /\ outcome[r] = "internal_error" => resp[r] = "500" /\ frames[r] = << >>

TurnSoFar(r) == ReplySoFar(r) /\ StoreSoFar(r) /\ OutcomeSoFar(r) /\ OutcomeAgrees(r)
ReplyInv == \A r \in Request : TurnSoFar(r)

(* What was saved when the request arrived is stored for good under the    *)
(* session it asked for, and is in the context it has assembled.           *)
SavedIsSeen(r) ==
  /\ atArrival[r].saved \subseteq Request
  /\ pc[r] = "idle" => atArrival[r].saved = {}
  /\ \A u \in atArrival[r].saved : Stored(u) /\ conv[u] = call[r].session
  /\ pc[r] \in InContext => atArrival[r].saved \subseteq seen[r]

SavedInv == \A r \in Request : SavedIsSeen(r)

-----------------------------------------------------------------------------
(* No request has been sent at first, and the types hold. *)
LEMMA InitType == Init => TypeOK
  BY DEF Init, TypeOK, NoCall, NoCred, CallSet

(* A handler that ends with a reply leaves a frame more, or none. *)
LEMMA ConcludeType ==
  ASSUME TypeOK, NEW r \in Request, NEW from, NEW status \in Status \cup {"none"},
         NEW fr \in Seq({"session", "done", "error"}), NEW out \in Outcome,
         Conclude(r, from, status, fr, out)
  PROVE  TypeOK'
<1> USE DEF TypeOK, Conclude, Goto, keyVars, dbVars, turnVars, bgVars
<1>1. frames[r] \o fr \in Seq({"session", "done", "error"})
  BY ConcatProperties
<1>2. frames' \in [Request -> Seq({"session", "done", "error"})]
  BY <1>1
<1>3. pc' \in [Request -> {"idle"} \cup Running \cup Ended]
  BY DEF Running
<1>4. QED
  BY <1>2, <1>3

(* Every step of a handler keeps the types; one case for each action. *)
LEMMA StepType == ASSUME TypeOK, NEW r \in Request, Step(r) PROVE TypeOK'
<1>1. ASSUME \/ NoFlusher(r) \/ CallCancelled(r) \/ CompleteFails(r) \/ StreamRefused(r) \/ Classify(r)
             \/ PersistFails(r) \/ CommitFails(r) \/ CommitReturns(r)
      PROVE  TypeOK'
  <2>1. << >> \in Seq({"session", "done", "error"}) /\ << "error" >> \in Seq({"session", "done", "error"})
    OBVIOUS
  <2>2. resp[r] \in Status \cup {"none"}
    BY DEF TypeOK
  <2>3. /\ {"200", "500", "502", "none"} \subseteq Status \cup {"none"}
        /\ {"success", "upstream_error", "persist_error", "client_disconnect", "internal_error"} \subseteq Outcome
    BY DEF Status, Outcome
  <2>4. CASE NoFlusher(r)
    BY <2>4, <2>1, <2>2, <2>3, ConcludeType DEF NoFlusher
  <2>5. CASE CallCancelled(r)
    BY <2>5, <2>1, <2>2, <2>3, ConcludeType DEF CallCancelled
  <2>6. CASE CompleteFails(r)
    BY <2>6, <2>1, <2>2, <2>3, ConcludeType DEF CompleteFails
  <2>7. CASE StreamRefused(r)
    BY <2>7, <2>1, <2>2, <2>3, ConcludeType DEF StreamRefused
  <2>8. CASE Classify(r)
    BY <2>8, <2>1, <2>2, <2>3, ConcludeType DEF Classify
  <2>9. CASE PersistFails(r)
    BY <2>9, <2>1, <2>2, <2>3, ConcludeType DEF PersistFails, NotSaved
  <2>10. CASE CommitFails(r)
    BY <2>10, <2>1, <2>2, <2>3, ConcludeType DEF CommitFails, NotSaved
  <2>11. CASE CommitReturns(r)
    BY <2>11, <2>1, <2>2, <2>3, ConcludeType DEF CommitReturns
  <2>12. QED
    BY <1>1, <2>4, <2>5, <2>6, <2>7, <2>8, <2>9, <2>10, <2>11
<1> USE DEF TypeOK, Goto, Reject, keyVars, dbVars, turnVars, replyVars, bgVars, Running, Ended, Status
<1>2. CASE Authenticate(r)
  BY <1>2 DEF Authenticate, KnownKey, Snapshot
<1>3. CASE Unauthorized(r)
  BY <1>3 DEF Unauthorized
<1>4. CASE AuthUnavailable(r)
  BY <1>4 DEF AuthUnavailable
<1>5. CASE Admit(r)
  BY <1>5 DEF Admit
<1>6. CASE TooManyRequests(r)
  BY <1>6 DEF TooManyRequests
<1>7. CASE Decode(r)
  BY <1>7 DEF Decode
<1>8. CASE BadRequest(r)
  BY <1>8 DEF BadRequest
<1>9. CASE Issue(r)
  BY <1>9 DEF Issue
<1>10. CASE Lookup(r)
  BY <1>10 DEF Lookup, Scoped
<1>11. CASE SessionNotFound(r)
  BY <1>11 DEF SessionNotFound
<1>12. CASE ResolveUnavailable(r)
  <2>1. CASE UNCHANGED owner
    BY <1>12, <2>1 DEF ResolveUnavailable
  <2>2. CASE owner' = [owner EXCEPT ![r] = cred[r].key]
    BY <1>12, <2>2 DEF ResolveUnavailable
  <2>3. QED
    BY <1>12, <2>1, <2>2 DEF ResolveUnavailable
<1>13. CASE Assemble(r)
  <2>1. {u \in Request : conv[u] = conv[r] /\ commit[u] = "applied"} \in SUBSET Request
    OBVIOUS
  <2> HIDE DEF TypeOK
  <2>2. seen' \in [Request -> SUBSET Request]
    BY <1>13, <2>1 DEF Assemble, TypeOK
  <2>3. QED
    BY <1>13, <2>2 DEF Assemble, TypeOK
<1>14. CASE AssembleUnavailable(r)
  BY <1>14 DEF AssembleUnavailable
<1>15. CASE CallUpstream(r)
  BY <1>15 DEF CallUpstream
<1>16. CASE Complete(r)
  BY <1>16 DEF Complete
<1>17. CASE StreamOpens(r)
  BY <1>17 DEF StreamOpens
<1>18. CASE RelayDone(r)
  <2>1. Append(frames[r], "done") \in Seq({"session", "done", "error"})
    BY AppendProperties
  <2>2. frames' \in [Request -> Seq({"session", "done", "error"})]
    BY <1>18, <2>1 DEF RelayDone
  <2>3. QED
    BY <1>18, <2>2 DEF RelayDone
<1>19. CASE RelayCut(r)
  <2>1. Append(frames[r], "error") \in Seq({"session", "done", "error"})
    BY AppendProperties
  <2>2. frames' \in [Request -> Seq({"session", "done", "error"})]
    BY <1>19, <2>1 DEF RelayCut
  <2>3. QED
    BY <1>19, <2>2 DEF RelayCut
<1>20. CASE SendCommit(r)
  BY <1>20 DEF SendCommit
<1>21. CASE Finish(r)
  BY <1>21 DEF Finish
<1>22. CASE DbCommit(r)
  BY <1>22 DEF DbCommit
<1>23. CASE DbAbort(r)
  BY <1>23 DEF DbAbort
<1>24. CASE AuditWrites(r)
  BY <1>24 DEF AuditWrites
<1>25. CASE TouchRuns(r)
  BY <1>25 DEF TouchRuns
<1>26. QED
  BY <1>1, <1>2, <1>3, <1>4, <1>5, <1>6, <1>7, <1>8, <1>9, <1>10, <1>11, <1>12, <1>13, <1>14, <1>15, <1>16, <1>17, <1>18, <1>19, <1>20, <1>21, <1>22, <1>23, <1>24, <1>25 DEF Step, Prepare, Upstream, Persist, Database, Background

(* So does a request that arrives, whoever it follows up. *)
LEMMA ArriveType == ASSUME TypeOK, NEW r \in Request, Arrive(r) PROVE TypeOK'
<1> USE DEF TypeOK, Goto, keyVars, dbVars, turnVars, replyVars, bgVars
<1>1. PICK c \in Call[r] :
        /\ call' = [call EXCEPT ![r] = c]
        /\ atArrival' = [atArrival EXCEPT ![r] =
             [revoked |-> IF c.key \in Key THEN revoked[c.key] ELSE FALSE,
              persona |-> IF c.key \in Key THEN persona[c.key] ELSE 0,
              saved |-> {u \in {v \in Request : conv[v] = c.session} : ToldSaved(u)}]]
  BY DEF Arrive
<1>2. c \in CallSet
  BY ChatAssumption
<1>3. call' \in [Request -> CallSet]
  BY <1>1, <1>2
<1>4. {u \in {v \in Request : conv[v] = c.session} : ToldSaved(u)} \in SUBSET Request
  OBVIOUS
<1>5. atArrival' \in [Request -> [revoked : BOOLEAN, persona : Nat, saved : SUBSET Request]]
  BY <1>1, <1>4
<1>6. QED
  BY <1>3, <1>5 DEF Arrive, Running

(* Every variable stays in its set, whatever the callers send.             *)
THEOREM TypeCorrect == Spec => []TypeOK
<1>1. TypeOK /\ [Next]_vars => TypeOK'
  <2> SUFFICES ASSUME TypeOK, [Next]_vars PROVE TypeOK'
    OBVIOUS
  <2> USE DEF TypeOK, keyVars, dbVars, turnVars, replyVars, bgVars
  <2>1. ASSUME NEW r \in Request, Disconnect(r) PROVE TypeOK'
    BY <2>1 DEF Disconnect
  <2>2. ASSUME NEW k \in Key, Revoke(k) PROVE TypeOK'
    BY <2>2 DEF Revoke
  <2>3. ASSUME NEW k \in Key, EditPersona(k) PROVE TypeOK'
    BY <2>3 DEF EditPersona
  <2>4. CASE Crash
    BY <2>4 DEF Crash, Ended
  <2>5. CASE UNCHANGED vars
    BY <2>5 DEF vars
  <2> HIDE DEF TypeOK
  <2>6. QED
    BY <2>1, <2>2, <2>3, <2>4, <2>5, ArriveType, StepType DEF Next, Idle
<1>2. QED
  BY <1>1, InitType, PTL DEF Spec
-----------------------------------------------------------------------------
(***************************************************************************)
(* What belongs to whom.                                                   *)
(***************************************************************************)

(* A step of r between two places on the same side of the middleware and   *)
(* of resolve, or to the end.                                              *)
Moves(r) ==
  \E to \in Running \cup Ended :
    /\ pc[r] \in Running /\ pc' = [pc EXCEPT ![r] = to]
    /\ to # "authenticate"
    /\ to \in Admitted => pc[r] \in Admitted
    /\ to \in InSession <=> pc[r] \in InSession /\ to \notin Ended
    /\ to \in InContext => pc[r] \in InContext

SameTenant == UNCHANGED << owner, conv, seen, cred, call >>

(* A step that moves one request from one place of the handler to another, *)
(* and leaves keys, sessions and what requests hold as they are.           *)
LEMMA MoveKeepsTenant ==
  ASSUME TypeOK, TenantInv, NEW r \in Request, Moves(r), SameTenant PROVE TenantInv'
<1> SUFFICES ASSUME NEW x \in Request PROVE (Credited(x) /\ InOwnSession(x) /\ HistoryOfSession(x))'
  BY DEF TenantInv
<1> USE DEF TypeOK, Moves, SameTenant, Running, Ended, Admitted, InSession
<1>1. Credited(x)'
  BY DEF TenantInv, Credited
<1>2. InOwnSession(x)'
  BY DEF TenantInv, InOwnSession
<1>3. HistoryOfSession(x)'
  BY DEF TenantInv, HistoryOfSession
<1>4. QED
  BY <1>1, <1>2, <1>3

(* Every step that neither lets a request in nor reads or writes its       *)
(* session is a move, or leaves the handler where it is.                   *)
LEMMA StepMoves ==
  ASSUME TypeOK, NEW r \in Request, Step(r)
  PROVE  \/ Authenticate(r) \/ Issue(r) \/ Lookup(r) \/ ResolveUnavailable(r) \/ Assemble(r)
         \/ SameTenant /\ (Moves(r) \/ UNCHANGED pc)
<1> USE DEF Moves, SameTenant, Goto, Reject, Conclude, Running, Ended, Admitted, InSession, InContext,
        keyVars, dbVars, turnVars
<1>1. CASE Unauthorized(r) \/ AuthUnavailable(r) \/ Admit(r) \/ TooManyRequests(r)
  BY <1>1 DEF Unauthorized, AuthUnavailable, Admit, TooManyRequests
<1>2. CASE Decode(r) \/ BadRequest(r) \/ SessionNotFound(r) \/ AssembleUnavailable(r)
  BY <1>2 DEF Decode, BadRequest, SessionNotFound, AssembleUnavailable
<1>3. CASE CallUpstream(r) \/ NoFlusher(r) \/ CallCancelled(r)
  BY <1>3 DEF CallUpstream, NoFlusher, CallCancelled
<1>4. CASE Upstream(r) \/ Classify(r)
  BY <1>4 DEF Upstream, Complete, CompleteFails, StreamOpens, StreamRefused, RelayDone, RelayCut, Classify
<1>5. CASE Persist(r) \/ Finish(r)
  BY <1>5 DEF Persist, SendCommit, PersistFails, CommitFails, CommitReturns, NotSaved, Finish
<1>6. CASE Database(r) \/ Background(r)
  BY <1>6 DEF Database, DbCommit, DbAbort, Background, AuditWrites, TouchRuns
<1>7. QED
  BY <1>1, <1>2, <1>3, <1>4, <1>5, <1>6 DEF Step, Prepare

(* A step that moves no request. *)
LEMMA StayKeepsTenant == TenantInv /\ SameTenant /\ UNCHANGED pc => TenantInv'
  BY DEF TenantInv, Credited, InOwnSession, HistoryOfSession, SameTenant

(* The key that is put in the context is the one the request presented.    *)
LEMMA AuthenticateKeepsTenant ==
  ASSUME TypeOK, TenantInv, NEW r \in Request, Authenticate(r) PROVE TenantInv'
<1> SUFFICES ASSUME NEW x \in Request PROVE (Credited(x) /\ InOwnSession(x) /\ HistoryOfSession(x))'
  BY DEF TenantInv
<1> USE DEF TypeOK, Authenticate, Goto, KnownKey, Snapshot, keyVars, dbVars, replyVars,
        Running, Ended, Admitted, InSession
<1>1. conv[r] = NoConv /\ owner[r] = NoKey
  BY DEF TenantInv, Credited, InOwnSession
<1>2. Credited(x)'
  BY <1>1, NamesAssumption DEF TenantInv, Credited
<1>3. InOwnSession(x)'
  BY <1>1 DEF TenantInv, InOwnSession
<1>4. HistoryOfSession(x)'
  BY DEF TenantInv, HistoryOfSession
<1>5. QED
  BY <1>2, <1>3, <1>4

(* A session that was not there has no requests yet. *)
LEMMA NotIssuedYet ==
  ASSUME TypeOK, TenantInv, NEW r \in Request, pc[r] = "resolve"
  PROVE  /\ owner[r] = NoKey /\ conv[r] = NoConv /\ seen[r] = {} /\ cred[r].key \in Key
         /\ \A x \in Request : conv[x] # r
<1> USE DEF TypeOK, Running, Ended, Admitted, InSession
<1>1. owner[r] = NoKey /\ cred[r].key \in Key
  BY DEF TenantInv, Credited
<1>2. conv[r] = NoConv
  BY DEF TenantInv, InOwnSession
<1>3. seen[r] = {}
  BY <1>2 DEF TenantInv, HistoryOfSession
<1>4. ASSUME NEW x \in Request PROVE conv[x] # r
  BY <1>1, NamesAssumption DEF TenantInv, InOwnSession
<1>5. QED
  BY <1>1, <1>2, <1>3, <1>4

(* A new session belongs to the key of the request it is made for. *)
LEMMA IssueKeepsTenant ==
  ASSUME TypeOK, TenantInv, NEW r \in Request, Issue(r) PROVE TenantInv'
<1> SUFFICES ASSUME NEW x \in Request PROVE (Credited(x) /\ InOwnSession(x) /\ HistoryOfSession(x))'
  BY DEF TenantInv
<1>1. /\ owner[r] = NoKey /\ conv[r] = NoConv /\ seen[r] = {} /\ cred[r].key \in Key
      /\ \A y \in Request : conv[y] # r
  BY NotIssuedYet DEF Issue, Goto
<1> USE DEF TypeOK, Issue, Goto, keyVars, replyVars, Running, Ended, Admitted, InSession
<1>2. Credited(x)'
  BY <1>1 DEF TenantInv, Credited
<1>3. InOwnSession(x)'
  <2>1. CASE x = r
    BY <1>1, <2>1, NamesAssumption DEF TenantInv, InOwnSession
  <2>2. CASE x # r
    BY <1>1, <2>2, NamesAssumption DEF TenantInv, InOwnSession
  <2>3. QED
    BY <2>1, <2>2
<1>4. HistoryOfSession(x)'
  <2>1. CASE x = r
    BY <1>1, <2>1 DEF TenantInv, HistoryOfSession
  <2>2. CASE x # r
    BY <1>1, <2>2 DEF TenantInv, HistoryOfSession
  <2>3. QED
    BY <2>1, <2>2
<1>5. QED
  BY <1>2, <1>3, <1>4

(* A session that is found belongs to the key that asks for it. *)
LEMMA LookupKeepsTenant ==
  ASSUME TypeOK, TenantInv, NEW r \in Request, Lookup(r) PROVE TenantInv'
<1> SUFFICES ASSUME NEW x \in Request PROVE (Credited(x) /\ InOwnSession(x) /\ HistoryOfSession(x))'
  BY DEF TenantInv
<1>1. conv[r] = NoConv /\ seen[r] = {} /\ cred[r].key \in Key
  BY NotIssuedYet DEF Lookup, Goto
<1> USE DEF TypeOK, Lookup, Scoped, Goto, keyVars, dbVars, replyVars, Running, Ended, Admitted, InSession
<1>2. Credited(x)'
  BY <1>1 DEF TenantInv, Credited
<1>3. InOwnSession(x)'
  <2>1. CASE x = r
    BY <1>1, <2>1, NamesAssumption DEF TenantInv, InOwnSession
  <2>2. CASE x # r
    BY <1>1, <2>2 DEF TenantInv, InOwnSession
  <2>3. QED
    BY <2>1, <2>2
<1>4. HistoryOfSession(x)'
  <2>1. CASE x = r
    BY <1>1, <2>1 DEF TenantInv, HistoryOfSession
  <2>2. CASE x # r
    BY <1>1, <2>2 DEF TenantInv, HistoryOfSession
  <2>3. QED
    BY <2>1, <2>2
<1>5. QED
  BY <1>2, <1>3, <1>4

(* An INSERT that was done although it was reported to have failed. *)
LEMMA ResolveUnavailableKeepsTenant ==
  ASSUME TypeOK, TenantInv, NEW r \in Request, ResolveUnavailable(r) PROVE TenantInv'
<1> SUFFICES ASSUME NEW x \in Request PROVE (Credited(x) /\ InOwnSession(x) /\ HistoryOfSession(x))'
  BY DEF TenantInv
<1>1. /\ owner[r] = NoKey /\ conv[r] = NoConv /\ seen[r] = {} /\ cred[r].key \in Key
      /\ \A y \in Request : conv[y] # r
  BY NotIssuedYet DEF ResolveUnavailable, Reject, Goto
<1>2. owner' = owner \/ owner' = [owner EXCEPT ![r] = cred[r].key]
  BY DEF ResolveUnavailable
<1>3. /\ pc' = [pc EXCEPT ![r] = "ended"] /\ pc[r] = "resolve"
      /\ UNCHANGED << call, cred, conv, seen >>
  BY DEF ResolveUnavailable, Reject, Goto, turnVars
<1> USE DEF TypeOK, Running, Ended, Admitted, InSession
<1>4. Credited(x)'
  BY <1>1, <1>2, <1>3 DEF TenantInv, Credited
<1>5. InOwnSession(x)'
  <2>1. CASE x = r
    BY <1>1, <1>2, <1>3, <2>1 DEF TenantInv, InOwnSession
  <2>2. CASE x # r
    BY <1>1, <1>2, <1>3, <2>2, NamesAssumption DEF TenantInv, InOwnSession
  <2>3. QED
    BY <2>1, <2>2
<1>6. HistoryOfSession(x)'
  BY <1>3 DEF TenantInv, HistoryOfSession
<1>7. QED
  BY <1>4, <1>5, <1>6

(* A history that is loaded was saved by requests of the session's key. *)
LEMMA AssembleKeepsTenant ==
  ASSUME TypeOK, TenantInv, NEW r \in Request, Assemble(r) PROVE TenantInv'
<1> SUFFICES ASSUME NEW x \in Request PROVE (Credited(x) /\ InOwnSession(x) /\ HistoryOfSession(x))'
  BY DEF TenantInv
<1> USE DEF TypeOK, Assemble, Goto, keyVars, dbVars, replyVars, Running, Ended, Admitted, InSession
<1>1. Credited(x)'
  BY DEF TenantInv, Credited
<1>2. InOwnSession(x)'
  BY DEF TenantInv, InOwnSession
<1>3. HistoryOfSession(x)'
  <2>1. CASE x = r
    BY <2>1 DEF TenantInv, InOwnSession, HistoryOfSession
  <2>2. CASE x # r
    BY <2>2 DEF TenantInv, HistoryOfSession
  <2>3. QED
    BY <2>1, <2>2
<1>4. QED
  BY <1>1, <1>2, <1>3

(* A request that arrives holds nothing yet. *)
LEMMA ArriveKeepsTenant ==
  ASSUME TypeOK, TenantInv, NEW r \in Request, Arrive(r) PROVE TenantInv'
<1> SUFFICES ASSUME NEW x \in Request PROVE (Credited(x) /\ InOwnSession(x) /\ HistoryOfSession(x))'
  BY DEF TenantInv
<1> USE DEF TypeOK, Arrive, Goto, keyVars, dbVars, turnVars, Running, Ended, Admitted, InSession
<1>1. Credited(x)'
  BY DEF TenantInv, Credited
<1>2. InOwnSession(x)'
  BY DEF TenantInv, InOwnSession
<1>3. HistoryOfSession(x)'
  BY DEF TenantInv, HistoryOfSession
<1>4. QED
  BY <1>1, <1>2, <1>3

(* A crash takes requests away and leaves the database as it is. *)
LEMMA CrashKeepsTenant == ASSUME TypeOK, TenantInv, Crash PROVE TenantInv'
<1> SUFFICES ASSUME NEW x \in Request PROVE (Credited(x) /\ InOwnSession(x) /\ HistoryOfSession(x))'
  BY DEF TenantInv
<1> USE DEF TypeOK, Crash, keyVars, dbVars, turnVars, Running, Ended, Admitted, InSession
<1>1. Credited(x)'
  BY DEF TenantInv, Credited
<1>2. InOwnSession(x)'
  BY DEF TenantInv, InOwnSession
<1>3. HistoryOfSession(x)'
  BY DEF TenantInv, HistoryOfSession
<1>4. QED
  BY <1>1, <1>2, <1>3

(* The sessions, the histories and the requests of different keys stay     *)
(* apart.                                                                  *)
LEMMA TenantInvHolds == Spec => []TenantInv
<1>1. Init => TenantInv
  BY NamesAssumption DEF Init, NoCred, NoCall, TenantInv, Credited, InOwnSession, HistoryOfSession,
     Running, Admitted, InSession
<1>2. TypeOK /\ TenantInv /\ [Next]_vars => TenantInv'
  <2> SUFFICES ASSUME TypeOK, TenantInv, [Next]_vars PROVE TenantInv'
    OBVIOUS
  <2>1. ASSUME NEW r \in Request, Step(r) PROVE TenantInv'
    BY <2>1, StepMoves, MoveKeepsTenant, StayKeepsTenant, AuthenticateKeepsTenant, IssueKeepsTenant,
       LookupKeepsTenant, ResolveUnavailableKeepsTenant, AssembleKeepsTenant
  <2>2. ASSUME NEW r \in Request, Disconnect(r) PROVE TenantInv'
    BY <2>2, StayKeepsTenant DEF Disconnect, SameTenant, dbVars, turnVars
  <2>3. ASSUME NEW k \in Key, Revoke(k) \/ EditPersona(k) PROVE TenantInv'
    BY <2>3, StayKeepsTenant DEF Revoke, EditPersona, SameTenant, dbVars, turnVars
  <2>4. CASE UNCHANGED vars
    BY <2>4, StayKeepsTenant DEF vars, SameTenant, dbVars, turnVars
  <2>5. QED
    BY <2>1, <2>2, <2>3, <2>4, ArriveKeepsTenant, CrashKeepsTenant DEF Next, Idle
<1>3. QED
  BY <1>1, <1>2, TypeCorrect, PTL DEF Spec

(* Tenant isolation: what a turn sends upstream and where it stores its    *)
(* exchange belong to the key that authenticated the request (Resolve and  *)
(* LoadHistory), whatever session ids callers present and whenever.        *)
THEOREM TenantsIsolated == Spec => []TenantIsolation
<1>1. TypeOK /\ TenantInv => TenantIsolation
  BY DEF TypeOK, TenantInv, Credited, InOwnSession, HistoryOfSession, TenantIsolation
<1>2. QED
  BY <1>1, TypeCorrect, TenantInvHolds, PTL

-----------------------------------------------------------------------------
(***************************************************************************)
(* What a request answers and stores.                                      *)
(***************************************************************************)

(* What TurnSoFar is about, left alone. *)
SameTurn(x) ==
  /\ pc'[x] = pc[x] /\ call'[x] = call[x] /\ conv'[x] = conv[x] /\ commit'[x] = commit[x]
  /\ resp'[x] = resp[x] /\ frames'[x] = frames[x] /\ outcome'[x] = outcome[x]
  /\ audit'[x] = audit[x] /\ gone'[x] = gone[x]

(* What is not touched of a turn stays true of it. *)
LEMMA SameTurnKeeps == ASSUME NEW x \in Request, TurnSoFar(x), SameTurn(x) PROVE TurnSoFar(x)'
<1> USE DEF TurnSoFar, SameTurn
<1>1. ReplySoFar(x)'
  BY DEF ReplySoFar, Unanswered, Relayed
<1>2. StoreSoFar(x)'
  BY DEF StoreSoFar
<1>3. OutcomeSoFar(x)'
  BY DEF OutcomeSoFar
<1>4. OutcomeAgrees(x)'
  BY DEF OutcomeAgrees, Stored
<1>5. QED
  BY <1>1, <1>2, <1>3, <1>4

(* A step of one handler leaves the turns of the others alone. *)
LEMMA StepIsLocal ==
  ASSUME TypeOK, NEW r \in Request, Step(r), NEW x \in Request, x # r PROVE SameTurn(x)
<1> USE DEF TypeOK, SameTurn, Goto, Reject, Conclude, dbVars, turnVars, replyVars, bgVars
<1>1. CASE Authenticate(r) \/ Unauthorized(r) \/ AuthUnavailable(r) \/ Admit(r) \/ TooManyRequests(r)
  BY <1>1 DEF Authenticate, Unauthorized, AuthUnavailable, Admit, TooManyRequests
<1>2. CASE Decode(r) \/ BadRequest(r) \/ Issue(r) \/ Lookup(r) \/ SessionNotFound(r)
  BY <1>2 DEF Decode, BadRequest, Issue, Lookup, SessionNotFound
<1>3. CASE ResolveUnavailable(r) \/ Assemble(r) \/ AssembleUnavailable(r)
  BY <1>3 DEF ResolveUnavailable, Assemble, AssembleUnavailable
<1>4. CASE CallUpstream(r) \/ NoFlusher(r) \/ CallCancelled(r)
  BY <1>4 DEF CallUpstream, NoFlusher, CallCancelled
<1>5. CASE Upstream(r) \/ Classify(r)
  BY <1>5 DEF Upstream, Complete, CompleteFails, StreamOpens, StreamRefused, RelayDone, RelayCut, Classify
<1>6. CASE Persist(r) \/ Finish(r)
  BY <1>6 DEF Persist, SendCommit, PersistFails, CommitFails, CommitReturns, NotSaved, Finish
<1>7. CASE Database(r) \/ Background(r)
  BY <1>7 DEF Database, DbCommit, DbAbort, Background, AuditWrites, TouchRuns
<1>8. QED
  BY <1>1, <1>2, <1>3, <1>4, <1>5, <1>6, <1>7 DEF Step, Prepare

(* The frames of a reply, put together. *)
LEMMA FramesAdded ==
  /\ << "session", "done" >> \o << "error" >> = << "session", "done", "error" >>
  /\ Append(<< "session" >>, "done") = << "session", "done" >>
  /\ Append(<< "session" >>, "error") = << "session", "error" >>
<1> DEFINE F == {"session", "done", "error"}
<1>1. ASSUME NEW b \in F PROVE Append(<< "session" >>, b) = << "session", b >>
  <2>1. /\ << "session" >> \in Seq(F) /\ << "session", b >> \in Seq(F)
        /\ Len(<< "session" >>) = 1 /\ Len(<< "session", b >>) = 2
    OBVIOUS
  <2>2. /\ Append(<< "session" >>, b) \in Seq(F) /\ Len(Append(<< "session" >>, b)) = 2
        /\ Append(<< "session" >>, b)[1] = "session" /\ Append(<< "session" >>, b)[2] = b
    BY <2>1, AppendProperties
  <2>3. \A i \in 1..2 : Append(<< "session" >>, b)[i] = << "session", b >>[i]
    BY <2>2
  <2>4. QED
    BY <2>1, <2>2, <2>3, SeqEqual
<1>2. << "session", "done" >> \o << "error" >> = << "session", "done", "error" >>
  <2> DEFINE s == << "session", "done" >>
             t == << "error" >>
             u == << "session", "done", "error" >>
  <2>1. s \in Seq(F) /\ t \in Seq(F) /\ u \in Seq(F) /\ Len(s) = 2 /\ Len(t) = 1 /\ Len(u) = 3
    OBVIOUS
  <2>2. s \o t \in Seq(F) /\ Len(s \o t) = 3 /\ \A i \in 1..3 : (s \o t)[i] = IF i <= 2 THEN s[i] ELSE t[i - 2]
    BY <2>1, ConcatProperties
  <2>3. \A i \in 1..3 : (s \o t)[i] = u[i]
    BY <2>2
  <2>4. QED
    BY <2>1, <2>2, <2>3, SeqEqual
<1>3. QED
  BY <1>1, <1>2

(* prepareTurn and the middleware: a refusal is the only reply, and        *)
(* nothing was stored.                                                     *)
LEMMA RejectKeepsTurn ==
  ASSUME TypeOK, NEW r \in Request, TurnSoFar(r), NEW from \in {"authenticate", "limit", "decode", "resolve", "assemble"},
         NEW status \in Refusal, Reject(r, from, status),
         UNCHANGED << commit, call, conv, gone, audit >>
  PROVE  TurnSoFar(r)'
<1> USE DEF TypeOK, Reject, Goto, TurnSoFar, Running, Ended, Refusal
<1>1. ReplySoFar(r)'
  BY DEF ReplySoFar, Unanswered, Relayed
<1>2. StoreSoFar(r)'
  BY DEF StoreSoFar
<1>3. OutcomeSoFar(r)'
  BY DEF ReplySoFar, Unanswered, StoreSoFar, OutcomeSoFar
<1>4. OutcomeAgrees(r)'
  BY DEF OutcomeSoFar, OutcomeAgrees
<1>5. QED
  BY <1>1, <1>2, <1>3, <1>4

(* The handler goes on without a reply. *)
LEMMA GoOnKeepsTurn ==
  ASSUME TypeOK, NEW r \in Request, TurnSoFar(r),
         pc[r] \in {"authenticate", "limit", "decode", "resolve", "assemble", "call"},
         pc'[r] \in {"limit", "decode", "resolve", "assemble", "call", "open", "complete"},
         pc'[r] = "open" => call[r].stream, pc'[r] = "complete" => ~ call[r].stream,
         conv'[r] = conv[r] \/ (commit[r] = "none" /\ outcome[r] = "none"),
         UNCHANGED << commit, call, gone, audit, resp, frames, outcome >>
  PROVE  TurnSoFar(r)'
<1> USE DEF TypeOK, TurnSoFar, Running, Ended
<1>1. ReplySoFar(r)'
  BY DEF ReplySoFar, Unanswered, Relayed
<1>2. StoreSoFar(r)'
  BY DEF StoreSoFar
<1>3. OutcomeSoFar(r)'
  BY DEF ReplySoFar, Unanswered, StoreSoFar, OutcomeSoFar
<1>4. OutcomeAgrees(r)'
  BY DEF OutcomeSoFar, OutcomeAgrees
<1>5. QED
  BY <1>1, <1>2, <1>3, <1>4

(* The steps before the call of the model. *)
LEMMA PrepareKeepsTurn ==
  ASSUME TypeOK, NEW r \in Request, TurnSoFar(r), Prepare(r), ~ NoFlusher(r), ~ CallCancelled(r)
  PROVE  TurnSoFar(r)'
<1> USE DEF dbVars, turnVars, replyVars, bgVars
<1>1. CASE Unauthorized(r) \/ AuthUnavailable(r) \/ TooManyRequests(r)
  BY <1>1, RejectKeepsTurn DEF Unauthorized, AuthUnavailable, TooManyRequests, Refusal
<1>2. CASE BadRequest(r) \/ SessionNotFound(r) \/ ResolveUnavailable(r) \/ AssembleUnavailable(r)
  BY <1>2, RejectKeepsTurn DEF BadRequest, SessionNotFound, ResolveUnavailable, AssembleUnavailable, Refusal
<1>3. CASE Authenticate(r) \/ Admit(r) \/ Decode(r) \/ Assemble(r) \/ CallUpstream(r)
  <2>1. /\ pc[r] \in {"authenticate", "limit", "decode", "resolve", "assemble", "call"}
        /\ pc'[r] \in {"limit", "decode", "resolve", "assemble", "call", "open", "complete"}
    BY <1>3 DEF Authenticate, Admit, Decode, Assemble, CallUpstream, Goto, TypeOK
  <2>2. (pc'[r] = "open" => call[r].stream) /\ (pc'[r] = "complete" => ~ call[r].stream)
    BY <1>3 DEF Authenticate, Admit, Decode, Assemble, CallUpstream, Goto, TypeOK
  <2>3. UNCHANGED << commit, conv, call, gone, audit, resp, frames, outcome >>
    BY <1>3 DEF Authenticate, Admit, Decode, Assemble, CallUpstream
  <2>4. QED
    BY <2>1, <2>2, <2>3, GoOnKeepsTurn
<1>4. CASE Issue(r) \/ Lookup(r)
  <2>1. commit[r] = "none" /\ outcome[r] = "none"
    BY <1>4 DEF Issue, Lookup, Goto, TurnSoFar, StoreSoFar, OutcomeSoFar, Running
  <2>2. QED
    BY <1>4, <2>1, GoOnKeepsTurn DEF Issue, Lookup, Goto, TypeOK
<1>5. QED
  BY <1>1, <1>2, <1>3, <1>4 DEF Prepare
(* finish is called with an outcome that is true when it is given. *)
LEMMA ConcludeKeepsTurn ==
  ASSUME TypeOK, NEW r \in Request, TurnSoFar(r), InOwnSession(r),
         NEW from \in {"call", "complete", "open", "classify", "persist", "commit"},
         NEW status \in {"200", "500", "502"}, NEW fr, NEW out \in Outcome,
         Conclude(r, from, status, fr, out), OutcomeAgrees(r)'
  PROVE  TurnSoFar(r)'
<1> USE DEF TypeOK, Conclude, Goto, TurnSoFar, dbVars, turnVars, bgVars, Running, Ended, Admitted, InSession, Outcome
<1>1. ReplySoFar(r)'
  BY DEF ReplySoFar
<1>2. StoreSoFar(r)'
  BY DEF StoreSoFar
<1>3. OutcomeSoFar(r)'
  BY DEF OutcomeSoFar, InOwnSession
<1>4. QED
  BY <1>1, <1>2, <1>3

(* A call of the model that fails before anything came of it. *)
LEMMA UpstreamFailureKeepsTurn ==
  ASSUME TypeOK, NEW r \in Request, TurnSoFar(r), InOwnSession(r),
         NoFlusher(r) \/ CallCancelled(r) \/ CompleteFails(r) \/ StreamRefused(r) \/ Classify(r)
  PROVE  TurnSoFar(r)'
<1> USE DEF TurnSoFar, TypeOK
<1>1. frames[r] \o << >> = frames[r]
  BY ConcatEmptySeq
<1>2. CASE NoFlusher(r)
  <2>1. OutcomeAgrees(r)'
    BY <1>1, <1>2 DEF NoFlusher, Conclude, Goto, ReplySoFar, Unanswered, StoreSoFar, OutcomeAgrees, Running, dbVars
  <2>2. QED
    BY <1>2, <2>1, ConcludeKeepsTurn DEF NoFlusher, Outcome
<1>3. CASE CallCancelled(r) \/ CompleteFails(r) \/ StreamRefused(r)
  <2>1. OutcomeAgrees(r)'
    BY <1>3 DEF CallCancelled, CompleteFails, StreamRefused, Conclude, Goto, StoreSoFar, OutcomeAgrees, Running, dbVars
  <2>2. QED
    BY <1>3, <2>1, ConcludeKeepsTurn DEF CallCancelled, CompleteFails, StreamRefused, Outcome
<1>4. CASE Classify(r)
  <2>1. resp[r] = "200" /\ commit[r] = "none"
    BY <1>4 DEF Classify, Conclude, Goto, ReplySoFar, StoreSoFar, Running
  <2>2. OutcomeAgrees(r)'
    BY <1>1, <1>4, <2>1 DEF Classify, Conclude, Goto, ReplySoFar, OutcomeAgrees, dbVars
  <2>3. QED
    BY <1>4, <2>1, <2>2, ConcludeKeepsTurn DEF Classify, Outcome
<1>5. QED
  BY <1>2, <1>3, <1>4

(* A save that is reported to have failed, whatever the database made of it. *)
LEMMA NotSavedKeepsTurn ==
  ASSUME TypeOK, NEW r \in Request, TurnSoFar(r), InOwnSession(r), PersistFails(r) \/ CommitFails(r)
  PROVE  TurnSoFar(r)'
<1> USE DEF TurnSoFar, TypeOK
<1>1. PICK from \in {"persist", "commit"} : NotSaved(r, from)
  BY DEF PersistFails, CommitFails
<1>2. pc[r] = from /\ Relayed(r, << "session", "done" >>)
  BY <1>1 DEF NotSaved, Conclude, Goto, ReplySoFar
<1>3. CASE call[r].stream
  <2>1. Conclude(r, from, "200", << "error" >>, "persist_error")
    BY <1>1, <1>3 DEF NotSaved
  <2>2. frames'[r] = << "session", "done", "error" >>
    BY <1>2, <1>3, <2>1, FramesAdded DEF Relayed, Conclude
  <2>3. OutcomeAgrees(r)'
    BY <2>1, <2>2 DEF Conclude, OutcomeAgrees
  <2>4. QED
    BY <2>1, <2>3, ConcludeKeepsTurn DEF Outcome
<1>4. CASE ~ call[r].stream
  <2>1. Conclude(r, from, "500", << >>, "persist_error")
    BY <1>1, <1>4 DEF NotSaved
  <2>2. OutcomeAgrees(r)'
    BY <2>1 DEF Conclude, OutcomeAgrees
  <2>3. QED
    BY <2>1, <2>2, ConcludeKeepsTurn DEF Outcome
<1>5. QED
  BY <1>3, <1>4

(* The answer to the COMMIT, or the loss of it, decides between the two    *)
(* ends of a turn that had a reply.                                        *)
LEMMA CommitReturnsKeepsTurn ==
  ASSUME TypeOK, NEW r \in Request, TurnSoFar(r), InOwnSession(r), CommitReturns(r)
  PROVE  TurnSoFar(r)'
<1> USE DEF TurnSoFar, TypeOK
<1>1. frames[r] \o << >> = frames[r]
  BY ConcatEmptySeq
<1>2. frames[r] \in {<< >>, << "session", "done" >>}
  BY DEF CommitReturns, Conclude, Goto, ReplySoFar, Relayed, Unanswered
<1>3. OutcomeAgrees(r)'
  BY <1>1, <1>2 DEF CommitReturns, Conclude, OutcomeAgrees, Stored, dbVars
<1>4. QED
  BY <1>3, ConcludeKeepsTurn DEF CommitReturns, Outcome

(* A stream is relayed frame by frame. *)
LEMMA RelayKeepsTurn ==
  ASSUME TypeOK, NEW r \in Request, TurnSoFar(r),
         Complete(r) \/ StreamOpens(r) \/ RelayDone(r) \/ RelayCut(r)
  PROVE  TurnSoFar(r)'
<1> USE DEF TypeOK, Goto, TurnSoFar, dbVars, turnVars, replyVars, bgVars, Running, Ended
<1>1. ReplySoFar(r)'
  <2>1. CASE Complete(r)
    BY <2>1 DEF Complete, ReplySoFar, Relayed, Unanswered
  <2>2. CASE StreamOpens(r)
    BY <2>2 DEF StreamOpens, ReplySoFar, Relayed, Unanswered
  <2>3. CASE RelayDone(r)
    BY <2>3, FramesAdded DEF RelayDone, ReplySoFar, Relayed, Unanswered
  <2>4. CASE RelayCut(r)
    BY <2>4, FramesAdded DEF RelayCut, ReplySoFar, Relayed, Unanswered
  <2>5. QED
    BY <2>1, <2>2, <2>3, <2>4
<1>2. /\ pc[r] \in {"complete", "open", "relay"} /\ pc'[r] \in {"persist", "relay", "classify"}
      /\ resp'[r] \in {resp[r], "200"}
      /\ UNCHANGED << commit, conv, outcome, audit >>
  BY DEF Complete, StreamOpens, RelayDone, RelayCut
<1>3. StoreSoFar(r)'
  BY <1>2 DEF StoreSoFar
<1>4. OutcomeSoFar(r)'
  BY <1>2 DEF OutcomeSoFar
<1>5. OutcomeAgrees(r)'
  BY <1>2 DEF OutcomeSoFar, OutcomeAgrees
<1>6. QED
  BY <1>1, <1>3, <1>4, <1>5

(* The transaction of an exchange: sent by the handler, ended by the       *)
(* database, which may do so when the handler is gone.                     *)
LEMMA StoreKeepsTurn ==
  ASSUME TypeOK, NEW r \in Request, TurnSoFar(r), InOwnSession(r), SendCommit(r) \/ Database(r)
  PROVE  TurnSoFar(r)'
<1> USE DEF TypeOK, Goto, TurnSoFar, turnVars, replyVars, bgVars, Running, Ended, Admitted, InSession
<1>1. CASE SendCommit(r)
  <2>1. ReplySoFar(r)'
    BY <1>1 DEF SendCommit, ReplySoFar, Relayed, Unanswered
  <2>2. StoreSoFar(r)'
    BY <1>1 DEF SendCommit, StoreSoFar, InOwnSession
  <2>3. OutcomeSoFar(r)'
    BY <1>1 DEF SendCommit, ReplySoFar, Relayed, Unanswered, OutcomeSoFar
  <2>4. OutcomeAgrees(r)'
    BY <1>1 DEF SendCommit, OutcomeSoFar, OutcomeAgrees
  <2>5. QED
    BY <2>1, <2>2, <2>3, <2>4
<1>2. CASE Database(r)
  <2>1. commit[r] = "sent" /\ commit'[r] \in {"applied", "aborted"}
        /\ UNCHANGED << pc, call, conv, resp, frames, outcome, audit, gone >>
    BY <1>2 DEF Database, DbCommit, DbAbort
  <2>2. ReplySoFar(r)'
    BY <2>1 DEF ReplySoFar, Relayed, Unanswered
  <2>3. StoreSoFar(r)'
    BY <2>1 DEF StoreSoFar
  <2>4. OutcomeSoFar(r)'
    BY <2>1 DEF OutcomeSoFar
  <2>5. OutcomeAgrees(r)'
    BY <2>1 DEF OutcomeAgrees, Stored
  <2>6. QED
    BY <2>2, <2>3, <2>4, <2>5
<1>3. QED
  BY <1>1, <1>2

(* The audit row follows the handler. *)
LEMMA AuditKeepsTurn ==
  ASSUME TypeOK, NEW r \in Request, TurnSoFar(r), Finish(r) \/ Background(r) PROVE TurnSoFar(r)'
<1> USE DEF TypeOK, Goto, TurnSoFar, dbVars, turnVars, replyVars, Running, Ended
<1>1. /\ UNCHANGED << commit, call, conv, resp, frames, outcome, gone >>
      /\ \/ pc[r] = "finish" /\ pc'[r] = "ended" /\ audit'[r] = "pending"
         \/ pc'[r] = pc[r] /\ audit'[r] = audit[r]
         \/ pc'[r] = pc[r] /\ audit[r] = "pending" /\ audit'[r] # "none"
  BY DEF Finish, Background, AuditWrites, TouchRuns
<1>2. ReplySoFar(r)'
  BY <1>1 DEF ReplySoFar, Relayed, Unanswered
<1>3. StoreSoFar(r)'
  BY <1>1 DEF StoreSoFar
<1>4. OutcomeSoFar(r)'
  BY <1>1 DEF OutcomeSoFar
<1>5. OutcomeAgrees(r)'
  BY <1>1 DEF OutcomeAgrees, Stored
<1>6. QED
  BY <1>2, <1>3, <1>4, <1>5

(***************************************************************************)
(* Everybody's turns.                                                      *)
(***************************************************************************)
LEMMA StepKeepsReply ==
  ASSUME TypeOK, TenantInv, ReplyInv, NEW r \in Request, Step(r) PROVE ReplyInv'
<1> SUFFICES ASSUME NEW x \in Request PROVE TurnSoFar(x)'
  BY DEF ReplyInv
<1>1. CASE x # r
  BY <1>1, StepIsLocal, SameTurnKeeps DEF ReplyInv
<1>2. CASE x = r
  <2>1. TurnSoFar(r) /\ InOwnSession(r)
    BY DEF ReplyInv, TenantInv
  <2>2. TurnSoFar(r)'
    <3>1. CASE Prepare(r)
      BY <2>1, <3>1, PrepareKeepsTurn, UpstreamFailureKeepsTurn
    <3>2. CASE Upstream(r) \/ Classify(r)
      BY <2>1, <3>2, RelayKeepsTurn, UpstreamFailureKeepsTurn DEF Upstream
    <3>3. CASE Persist(r) \/ Database(r)
      BY <2>1, <3>3, StoreKeepsTurn, NotSavedKeepsTurn, CommitReturnsKeepsTurn DEF Persist
    <3>4. CASE Finish(r) \/ Background(r)
      BY <2>1, <3>4, AuditKeepsTurn
    <3>5. QED
      BY <3>1, <3>2, <3>3, <3>4 DEF Step
  <2>3. QED
    BY <1>2, <2>2
<1>3. QED
  BY <1>1, <1>2

(* A request that arrives has no outcome, no reply and no row yet. *)
LEMMA ArriveKeepsReply == ASSUME TypeOK, ReplyInv, NEW r \in Request, Arrive(r) PROVE ReplyInv'
<1> SUFFICES ASSUME NEW x \in Request PROVE TurnSoFar(x)'
  BY DEF ReplyInv
<1> USE DEF TypeOK, Arrive, Goto, dbVars, turnVars, replyVars, bgVars
<1>1. TurnSoFar(x)
  BY DEF ReplyInv
<1>2. CASE x # r
  BY <1>1, <1>2, SameTurnKeeps DEF SameTurn
<1>3. CASE x = r
  <2>1. Unanswered(r) /\ commit[r] = "none" /\ outcome[r] = "none" /\ audit[r] = "none"
    BY <1>1, <1>3 DEF TurnSoFar, ReplySoFar, StoreSoFar, OutcomeSoFar
  <2>2. QED
    BY <1>3, <2>1 DEF TurnSoFar, ReplySoFar, StoreSoFar, OutcomeSoFar, OutcomeAgrees, Unanswered, Running
<1>4. QED
  BY <1>2, <1>3

(* A caller may leave at any time. *)
LEMMA DisconnectKeepsReply == ASSUME TypeOK, ReplyInv, NEW r \in Request, Disconnect(r) PROVE ReplyInv'
<1> SUFFICES ASSUME NEW x \in Request PROVE TurnSoFar(x)'
  BY DEF ReplyInv
<1>1. TurnSoFar(x)
  BY DEF ReplyInv
<1>2. UNCHANGED << pc, call, conv, commit, resp, frames, outcome, audit >> /\ (gone[x] => gone'[x])
  BY DEF TypeOK, Disconnect, dbVars, turnVars, replyVars, bgVars
<1>3. QED
  BY <1>1, <1>2 DEF TurnSoFar, ReplySoFar, Relayed, Unanswered, StoreSoFar, OutcomeSoFar, OutcomeAgrees, Stored

(* A crash ends every handler where it is and drops the rows that were not *)
(* written yet; a transaction that was sent may still be applied.          *)
LEMMA CrashKeepsReply == ASSUME TypeOK, ReplyInv, Crash PROVE ReplyInv'
<1> SUFFICES ASSUME NEW x \in Request PROVE TurnSoFar(x)'
  BY DEF ReplyInv
<1>1. TurnSoFar(x)
  BY DEF ReplyInv
<1>2. /\ pc'[x] = IF pc[x] \in Running THEN "crashed" ELSE pc[x]
      /\ audit'[x] = IF audit[x] = "pending" THEN "lost" ELSE audit[x]
      /\ UNCHANGED << call, conv, commit, resp, frames, outcome, gone >>
  BY DEF TypeOK, Crash, dbVars, turnVars, replyVars
<1> USE DEF TurnSoFar, TypeOK, Running, Ended
<1>3. ReplySoFar(x)'
  BY <1>1, <1>2 DEF ReplySoFar, Relayed, Unanswered
<1>4. StoreSoFar(x)'
  BY <1>1, <1>2 DEF StoreSoFar
<1>5. OutcomeSoFar(x)'
  BY <1>1, <1>2 DEF OutcomeSoFar, ReplySoFar, Relayed, Unanswered
<1>6. OutcomeAgrees(x)'
  BY <1>1, <1>2 DEF OutcomeAgrees, Stored
<1>7. QED
  BY <1>3, <1>4, <1>5, <1>6

(* A step of another part of the system, which does not touch the turn. *)
LEMMA OthersKeepReply ==
  ReplyInv /\ UNCHANGED << pc, call, gone, turnVars, dbVars, replyVars, bgVars >> => ReplyInv'
  BY SameTurnKeeps DEF ReplyInv, SameTurn, turnVars, dbVars, replyVars, bgVars

(* Each turn's outcome, reply, stream and row agree all along. *)
LEMMA ReplyInvHolds == Spec => []ReplyInv
<1>1. Init => ReplyInv
  BY DEF Init, ReplyInv, TurnSoFar, ReplySoFar, Unanswered, Relayed, StoreSoFar, OutcomeSoFar, OutcomeAgrees
<1>2. TypeOK /\ TenantInv /\ ReplyInv /\ [Next]_vars => ReplyInv'
  <2> SUFFICES ASSUME TypeOK, TenantInv, ReplyInv, [Next]_vars PROVE ReplyInv'
    OBVIOUS
  <2>1. ASSUME NEW k \in Key, Revoke(k) \/ EditPersona(k) PROVE ReplyInv'
    BY <2>1, OthersKeepReply DEF Revoke, EditPersona
  <2>2. CASE UNCHANGED vars
    BY <2>2, OthersKeepReply DEF vars
  <2>3. QED
    BY <2>1, <2>2, StepKeepsReply, ArriveKeepsReply, DisconnectKeepsReply, CrashKeepsReply DEF Next, Idle
<1>3. QED
  BY <1>1, <1>2, TypeCorrect, TenantInvHolds, PTL DEF Spec

(* The outcome finish is given, the reply, the audit row and the store     *)
(* agree, whatever fails, whoever leaves and whenever the process dies.    *)
THEOREM OutcomesAreTrue == Spec => []OutcomeIsTrue
<1>1. TypeOK /\ ReplyInv => OutcomeIsTrue
  <2> SUFFICES ASSUME TypeOK, ReplyInv, NEW r \in Request
               PROVE  /\ OutcomeAgrees(r)
                      /\ outcome[r] = "success" => "error" \notin {frames[r][i] : i \in 1..Len(frames[r])}
                      /\ pc[r] = "ended" => IF resp[r] \in {"200", "500", "502"}
                                            THEN audit[r] # "none" /\ outcome[r] # "none"
                                            ELSE audit[r] = "none" /\ commit[r] = "none"
    BY DEF OutcomeIsTrue, OutcomeAgrees
  <2>1. OutcomeAgrees(r) /\ OutcomeSoFar(r)
    BY DEF ReplyInv, TurnSoFar
  <2>2. ASSUME outcome[r] = "success" PROVE "error" \notin {frames[r][i] : i \in 1..Len(frames[r])}
    <3>1. frames[r] = << >> \/ frames[r] = << "session", "done" >>
      BY <2>1, <2>2 DEF OutcomeAgrees
    <3>2. QED
      BY <3>1
  <2>3. ASSUME pc[r] = "ended"
        PROVE  IF resp[r] \in {"200", "500", "502"} THEN audit[r] # "none" /\ outcome[r] # "none"
               ELSE audit[r] = "none" /\ commit[r] = "none"
    BY <2>1, <2>3 DEF OutcomeSoFar, Refusal
  <2>4. QED
    BY <2>1, <2>2, <2>3
<1>2. QED
  BY <1>1, TypeCorrect, ReplyInvHolds, PTL
-----------------------------------------------------------------------------
(***************************************************************************)
(* Keys that are edited and revoked under their requests.                  *)
(***************************************************************************)

(* No handler touches a key, a call or what a request met on arrival. *)
LEMMA StepLeavesKeys ==
  ASSUME NEW r \in Request, Step(r) PROVE UNCHANGED << revoked, persona, call, atArrival >>
<1> USE DEF keyVars, Reject, Conclude
<1>1. CASE Authenticate(r) \/ Unauthorized(r) \/ AuthUnavailable(r) \/ Admit(r) \/ TooManyRequests(r)
  BY <1>1 DEF Authenticate, Unauthorized, AuthUnavailable, Admit, TooManyRequests
<1>2. CASE Decode(r) \/ BadRequest(r) \/ Issue(r) \/ Lookup(r) \/ SessionNotFound(r)
  BY <1>2 DEF Decode, BadRequest, Issue, Lookup, SessionNotFound
<1>3. CASE ResolveUnavailable(r) \/ Assemble(r) \/ AssembleUnavailable(r)
  BY <1>3 DEF ResolveUnavailable, Assemble, AssembleUnavailable
<1>4. CASE CallUpstream(r) \/ NoFlusher(r) \/ CallCancelled(r)
  BY <1>4 DEF CallUpstream, NoFlusher, CallCancelled
<1>5. CASE Upstream(r) \/ Classify(r)
  BY <1>5 DEF Upstream, Complete, CompleteFails, StreamOpens, StreamRefused, RelayDone, RelayCut, Classify
<1>6. CASE Persist(r) \/ Finish(r)
  BY <1>6 DEF Persist, SendCommit, PersistFails, CommitFails, CommitReturns, NotSaved, Finish
<1>7. CASE Database(r) \/ Background(r)
  BY <1>7 DEF Database, DbCommit, DbAbort, Background, AuditWrites, TouchRuns
<1>8. QED
  BY <1>1, <1>2, <1>3, <1>4, <1>5, <1>6, <1>7 DEF Step, Prepare

(* No handler goes back to idle, and only Authenticate attaches a credential. *)
LEMMA OnlyAuthenticateAttaches ==
  ASSUME TypeOK, NEW r \in Request, Step(r), ~ Authenticate(r)
  PROVE  cred' = cred /\ \A x \in Request : pc'[x] = "idle" => pc[x] = "idle"
<1>1. CASE Issue(r) \/ Lookup(r) \/ ResolveUnavailable(r) \/ Assemble(r)
  BY <1>1 DEF TypeOK, Issue, Lookup, ResolveUnavailable, Assemble, Goto, Reject, turnVars
<1>2. CASE SameTenant /\ (Moves(r) \/ UNCHANGED pc)
  BY <1>2 DEF TypeOK, SameTenant, Moves, Running, Ended
<1>3. QED
  BY <1>1, <1>2, StepMoves

(* A handler touches what it knows of its key once: when it authenticates. *)
LEMMA StepKeepsKeys ==
  ASSUME TypeOK, TenantInv, KeyInv, NEW r \in Request, Step(r) PROVE KeyInv'
<1> SUFFICES ASSUME NEW x \in Request PROVE MetKey(x)'
  BY DEF KeyInv
<1>1. UNCHANGED << revoked, persona, call, atArrival >>
  BY StepLeavesKeys
<1>2. CASE ~ Authenticate(r)
  BY <1>1, <1>2, OnlyAuthenticateAttaches DEF KeyInv, MetKey
<1>3. CASE Authenticate(r)
  <2> USE DEF TypeOK, Authenticate, Goto, KnownKey, Snapshot
  <2>1. CASE x = r
    BY <1>1, <1>3, <2>1 DEF KeyInv, MetKey
  <2>2. CASE x # r
    BY <1>1, <1>3, <2>2 DEF KeyInv, MetKey
  <2>3. QED
    BY <2>1, <2>2
<1>4. QED
  BY <1>2, <1>3

(* A request notes what its key is when it arrives. *)
LEMMA ArriveKeepsKeys ==
  ASSUME TypeOK, TenantInv, KeyInv, NEW r \in Request, Arrive(r) PROVE KeyInv'
<1> SUFFICES ASSUME NEW x \in Request PROVE MetKey(x)'
  BY DEF KeyInv
<1> USE DEF TypeOK, Arrive, Goto, keyVars, turnVars
<1>1. CASE x # r
  BY <1>1 DEF KeyInv, MetKey
<1>2. CASE x = r
  <2>1. cred'[r].key = NoKey
    BY DEF TenantInv, Credited
  <2>2. PICK c \in Call[r] :
          /\ call' = [call EXCEPT ![r] = c]
          /\ atArrival' = [atArrival EXCEPT ![r] =
               [revoked |-> IF c.key \in Key THEN revoked[c.key] ELSE FALSE,
                persona |-> IF c.key \in Key THEN persona[c.key] ELSE 0,
                saved |-> {u \in {v \in Request : conv[v] = c.session} : ToldSaved(u)}]]
    OBVIOUS
  <2>3. call'[r] = c /\ (atArrival'[r].revoked <=> (c.key \in Key /\ revoked[c.key]))
    BY <2>2
  <2>4. c.key \in Key => atArrival'[r].persona = persona[c.key] /\ persona[c.key] \in Nat
    BY <2>2
  <2>5. pc'[r] # "idle" /\ revoked' = revoked /\ persona' = persona
    OBVIOUS
  <2>6. QED
    BY <1>2, <2>1, <2>3, <2>4, <2>5 DEF MetKey
<1>3. QED
  BY <1>1, <1>2

(* An edit or a revocation changes the key for the requests that come      *)
(* after it.                                                               *)
LEMMA AdminKeepsKeys ==
  ASSUME TypeOK, KeyInv, NEW k \in Key, Revoke(k) \/ EditPersona(k) PROVE KeyInv'
<1> SUFFICES ASSUME NEW x \in Request PROVE MetKey(x)'
  BY DEF KeyInv
<1>1. UNCHANGED << pc, call, cred, atArrival >>
  BY DEF Revoke, EditPersona, turnVars
<1>2. MetKey(x)
  BY DEF KeyInv
<1>3. CASE Revoke(k)
  <2>1. persona' = persona /\ \A j \in Key : revoked[j] => revoked'[j]
    BY <1>3 DEF TypeOK, Revoke
  <2>2. QED
    BY <1>1, <1>2, <2>1 DEF MetKey
<1>4. CASE EditPersona(k)
  <2>1. revoked' = revoked /\ \A j \in Key : persona[j] \in Nat /\ persona'[j] \in Nat /\ persona[j] <= persona'[j]
    BY <1>4 DEF TypeOK, EditPersona
  <2>2. cred[x].key \in Key \cup {NoKey} /\ cred[x].persona \in Nat /\ atArrival[x].persona \in Nat
    BY DEF TypeOK
  <2>3. QED
    BY <1>1, <1>2, <2>1, <2>2 DEF MetKey
<1>5. QED
  BY <1>3, <1>4

(* What a request knows of its key is not older than its arrival. *)
LEMMA KeyInvHolds == Spec => []KeyInv
<1>1. Init => KeyInv
  BY NamesAssumption DEF Init, NoCall, NoCred, KeyInv, MetKey
<1>2. TypeOK /\ TenantInv /\ KeyInv /\ [Next]_vars => KeyInv'
  <2> SUFFICES ASSUME TypeOK, TenantInv, KeyInv, [Next]_vars PROVE KeyInv'
    OBVIOUS
  <2>1. ASSUME UNCHANGED << keyVars, call, turnVars, atArrival >>,
               \A x \in Request : pc'[x] = "idle" => pc[x] = "idle"
        PROVE  KeyInv'
    BY <2>1 DEF KeyInv, MetKey, keyVars, turnVars
  <2>2. ASSUME NEW r \in Request, Disconnect(r) PROVE KeyInv'
    BY <2>1, <2>2 DEF Disconnect
  <2>3. CASE Crash
    BY <2>1, <2>3 DEF Crash
  <2>4. CASE UNCHANGED vars
    BY <2>1, <2>4 DEF vars
  <2>5. QED
    BY <2>2, <2>3, <2>4, StepKeepsKeys, ArriveKeepsKeys, AdminKeepsKeys DEF Next, Idle
<1>3. QED
  BY <1>1, <1>2, TypeCorrect, TenantInvHolds, PTL DEF Spec

(* A request that arrives after its key was revoked (GetActiveByKeyID has  *)
(* revoked_at IS NULL) does nothing at all, and the persona a request goes *)
(* on with is between the one it met on arrival and the current one.       *)
THEOREM KeysAreNotStale == Spec => []KeyNotStale
<1>1. TypeOK /\ TenantInv /\ KeyInv /\ ReplyInv => KeyNotStale
  <2> SUFFICES ASSUME TypeOK, TenantInv, KeyInv, ReplyInv, NEW r \in Request
               PROVE  /\ atArrival[r].revoked =>
                           owner[r] = NoKey /\ seen[r] = {} /\ commit[r] = "none" /\ outcome[r] = "none"
                      /\ cred[r].key # NoKey =>
                           atArrival[r].persona <= cred[r].persona /\ cred[r].persona <= persona[cred[r].key]
    BY DEF KeyNotStale
  <2>1. ASSUME atArrival[r].revoked
        PROVE  owner[r] = NoKey /\ seen[r] = {} /\ commit[r] = "none" /\ outcome[r] = "none"
    <3>1. cred[r].key = NoKey
      BY <2>1 DEF KeyInv, MetKey
    <3>2. owner[r] = NoKey /\ conv[r] = NoConv
      BY <3>1 DEF TenantInv, Credited, InOwnSession
    <3>3. seen[r] = {}
      BY <3>2 DEF TenantInv, HistoryOfSession
    <3>4. commit[r] = "none" /\ outcome[r] = "none"
      BY <3>2 DEF ReplyInv, TurnSoFar, StoreSoFar, OutcomeSoFar
    <3>5. QED
      BY <3>2, <3>3, <3>4
  <2>2. QED
    BY <2>1 DEF KeyInv, MetKey
<1>2. QED
  BY <1>1, TypeCorrect, TenantInvHolds, KeyInvHolds, ReplyInvHolds, PTL

-----------------------------------------------------------------------------
(***************************************************************************)
(* What was saved is seen.                                                 *)
(***************************************************************************)

(* An exchange that is stored stays stored, and a session that a request   *)
(* has stays its session.                                                  *)
LEMMA StoredForGood ==
  ASSUME TypeOK, TenantInv, ReplyInv, NEW r \in Request, Step(r)
  PROVE  \A u \in Request : /\ Stored(u) => Stored(u)'
                            /\ conv[u] # NoConv => conv'[u] = conv[u]
<1> SUFFICES ASSUME NEW u \in Request
             PROVE  (Stored(u) => Stored(u)') /\ (conv[u] # NoConv => conv'[u] = conv[u])
  OBVIOUS
<1>1. Stored(u) => Stored(u)'
  <2>1. CASE SendCommit(r)
    BY <2>1 DEF TypeOK, SendCommit, Goto, ReplyInv, TurnSoFar, StoreSoFar, Stored, Running
  <2>2. CASE Database(r)
    BY <2>2 DEF TypeOK, Database, DbCommit, DbAbort, Stored
  <2>3. CASE ~ SendCommit(r) /\ ~ Database(r)
    <3> USE DEF dbVars, Reject, Conclude
    <3>1. CASE Prepare(r)
      BY <3>1 DEF Prepare, Authenticate, Unauthorized, AuthUnavailable, Admit, TooManyRequests, Decode, BadRequest,
         Issue, Lookup, SessionNotFound, ResolveUnavailable, Assemble, AssembleUnavailable, CallUpstream,
         NoFlusher, CallCancelled, Stored
    <3>2. CASE Upstream(r) \/ Classify(r)
      BY <3>2 DEF Upstream, Complete, CompleteFails, StreamOpens, StreamRefused, RelayDone, RelayCut, Classify, Stored
    <3>3. CASE Persist(r) \/ Finish(r) \/ Background(r)
      BY <2>3, <3>3 DEF Persist, PersistFails, CommitFails, CommitReturns, NotSaved, Finish, Background,
         AuditWrites, TouchRuns, Stored
    <3>4. QED
      BY <2>3, <3>1, <3>2, <3>3 DEF Step
  <2>4. QED
    BY <2>1, <2>2, <2>3
<1>2. conv[u] # NoConv => conv'[u] = conv[u]
  <2>1. CASE Issue(r) \/ Lookup(r)
    BY <2>1, NotIssuedYet DEF TypeOK, Issue, Lookup, Goto
  <2>2. CASE Authenticate(r) \/ ResolveUnavailable(r) \/ Assemble(r)
    BY <2>2 DEF Authenticate, ResolveUnavailable, Assemble, turnVars
  <2>3. CASE SameTenant
    BY <2>3 DEF SameTenant
  <2>4. QED
    BY <2>1, <2>2, <2>3, StepMoves
<1>3. QED
  BY <1>1, <1>2

(* The session of a request that was saved before another asked for it. *)
LEMMA SavedHasSession ==
  ASSUME TypeOK, SavedInv, NEW x \in Request, NEW u \in atArrival[x].saved
  PROVE  u \in Request /\ Stored(u) /\ conv[u] # NoConv /\ conv[u] = call[x].session /\ call[x].session \in Request
<1>1. u \in Request /\ Stored(u) /\ conv[u] = call[x].session
  BY DEF SavedInv, SavedIsSeen
<1>2. conv[u] \in Request \cup {NoConv} /\ call[x].session \in Request \cup {"new", "malformed"}
  BY <1>1 DEF TypeOK, CallSet
<1>3. QED
  BY <1>1, <1>2, NamesAssumption DEF NoConv

(* Every step of a handler; saving is the one that adds an exchange. *)
LEMMA StepKeepsSaved ==
  ASSUME TypeOK, TenantInv, ReplyInv, SavedInv, NEW r \in Request, Step(r) PROVE SavedInv'
<1> SUFFICES ASSUME NEW x \in Request PROVE SavedIsSeen(x)'
  BY DEF SavedInv
<1>1. SavedIsSeen(x) /\ UNCHANGED << call, atArrival >>
  BY StepLeavesKeys DEF SavedInv
<1>2. \A u \in atArrival[x].saved : u \in Request /\ Stored(u)' /\ conv'[u] = call[x].session
  BY StoredForGood, SavedHasSession
<1>3. ASSUME pc'[x] \in InContext, NEW u \in atArrival[x].saved PROVE u \in seen'[x]
  <2>1. CASE Assemble(r) /\ x = r
    <3>1. conv[r] # NoConv /\ pc[r] = "assemble"
      BY <2>1 DEF Assemble, Goto, TenantInv, InOwnSession, InSession, Admitted, Running
    <3>2. conv[u] = conv[r] /\ u \in Request /\ commit[u] = "applied"
      BY <2>1, <3>1, <1>3, SavedHasSession DEF TenantInv, InOwnSession, Stored
    <3>3. QED
      BY <2>1, <3>2 DEF Assemble, TypeOK
  <2>2. CASE x # r
    <3>1. pc'[x] = pc[x]
      BY <2>2, StepIsLocal DEF SameTurn
    <3>2. seen'[x] = seen[x]
      <4>1. CASE Assemble(r)
        BY <2>2, <4>1 DEF Assemble, TypeOK
      <4>2. CASE Authenticate(r) \/ Issue(r) \/ Lookup(r) \/ ResolveUnavailable(r)
        BY <4>2 DEF Authenticate, Issue, Lookup, ResolveUnavailable, turnVars
      <4>3. CASE SameTenant
        BY <4>3 DEF SameTenant
      <4>4. QED
        BY <4>1, <4>2, <4>3, StepMoves
    <3>3. QED
      BY <1>1, <1>3, <3>1, <3>2 DEF SavedIsSeen
  <2>3. CASE x = r /\ ~ Assemble(r)
    <3>1. CASE Authenticate(r) \/ Issue(r) \/ Lookup(r) \/ ResolveUnavailable(r)
      BY <3>1, <2>3, <1>3 DEF Authenticate, Issue, Lookup, ResolveUnavailable, Reject, Goto, TypeOK,
         InContext, InSession, Admitted, Running
    <3>2. CASE SameTenant /\ (Moves(r) \/ UNCHANGED pc)
      <4>1. pc[x] \in InContext /\ seen' = seen
        BY <3>2, <2>3, <1>3 DEF Moves, SameTenant, TypeOK
      <4>2. QED
        BY <4>1, <1>1, <1>3 DEF SavedIsSeen
    <3>3. QED
      BY <2>3, <3>1, <3>2, StepMoves
  <2>4. QED
    BY <2>1, <2>2, <2>3
<1>4. pc'[x] = "idle" => pc[x] = "idle"
  BY OnlyAuthenticateAttaches DEF Authenticate, Goto, TypeOK
<1>5. QED
  BY <1>1, <1>2, <1>3, <1>4 DEF SavedIsSeen

(* A request that arrives after the end of another comes after its         *)
(* exchange.                                                               *)
LEMMA ArriveKeepsSaved ==
  ASSUME TypeOK, ReplyInv, SavedInv, NEW r \in Request, Arrive(r) PROVE SavedInv'
<1> SUFFICES ASSUME NEW x \in Request PROVE SavedIsSeen(x)'
  BY DEF SavedInv
<1> USE DEF Arrive, Goto, dbVars, turnVars
<1>1. \A u \in Request : Stored(u) => Stored(u)'
  BY DEF Stored
<1>2. CASE x # r
  BY <1>1, <1>2 DEF TypeOK, SavedInv, SavedIsSeen
<1>3. CASE x = r
  <2>1. PICK c \in Call[r] :
          /\ call' = [call EXCEPT ![r] = c]
          /\ atArrival' = [atArrival EXCEPT ![r] =
               [revoked |-> IF c.key \in Key THEN revoked[c.key] ELSE FALSE,
                persona |-> IF c.key \in Key THEN persona[c.key] ELSE 0,
                saved |-> {u \in {v \in Request : conv[v] = c.session} : ToldSaved(u)}]]
    OBVIOUS
  <2>2. call'[r] = c /\ atArrival'[r].saved = {u \in {v \in Request : conv[v] = c.session} : ToldSaved(u)}
    BY <2>1 DEF TypeOK
  <2>3. ASSUME NEW u \in atArrival'[r].saved PROVE u \in Request /\ Stored(u)' /\ conv'[u] = c.session
    <3>1. u \in Request /\ conv[u] = c.session /\ outcome[u] = "success"
      BY <2>2, <2>3 DEF ToldSaved
    <3>2. Stored(u)
      BY <3>1 DEF ReplyInv, TurnSoFar, OutcomeAgrees
    <3>3. QED
      BY <1>1, <3>1, <3>2
  <2>4. pc'[r] = "authenticate"
    BY DEF TypeOK
  <2>5. QED
    BY <1>3, <2>2, <2>3, <2>4 DEF SavedIsSeen, InContext, InSession, Admitted
<1>4. QED
  BY <1>2, <1>3

(* A turn that was told to be saved is in its session's history. *)
LEMMA SavedInvHolds == Spec => []SavedInv
<1>1. Init => SavedInv
  BY DEF Init, SavedInv, SavedIsSeen, InContext, InSession, Admitted, Running
<1>2. TypeOK /\ TenantInv /\ ReplyInv /\ SavedInv /\ [Next]_vars => SavedInv'
  <2> SUFFICES ASSUME TypeOK, TenantInv, ReplyInv, SavedInv, [Next]_vars PROVE SavedInv'
    OBVIOUS
  <2>1. ASSUME UNCHANGED << dbVars, call, turnVars, atArrival >>,
               \A x \in Request : /\ pc'[x] = "idle" => pc[x] = "idle"
                                  /\ pc'[x] \in InContext => pc[x] \in InContext
        PROVE  SavedInv'
    BY <2>1 DEF SavedInv, SavedIsSeen, Stored, dbVars, turnVars
  <2>2. ASSUME NEW r \in Request, Disconnect(r) PROVE SavedInv'
    BY <2>1, <2>2 DEF Disconnect
  <2>3. ASSUME NEW k \in Key, Revoke(k) \/ EditPersona(k) PROVE SavedInv'
    BY <2>1, <2>3 DEF Revoke, EditPersona
  <2>4. CASE Crash
    BY <2>1, <2>4 DEF Crash, InContext, InSession, Admitted, Running
  <2>5. CASE UNCHANGED vars
    BY <2>1, <2>5 DEF vars
  <2>6. QED
    BY <2>2, <2>3, <2>4, <2>5, StepKeepsSaved, ArriveKeepsSaved DEF Next, Idle
<1>3. QED
  BY <1>1, <1>2, TypeCorrect, TenantInvHolds, ReplyInvHolds, PTL DEF Spec

(* A caller that was told its exchange was saved, by the 200 of a JSON     *)
(* reply or by the end of a stream without an error frame, finds it in the *)
(* context of every later turn of the session (PersistExchange before the  *)
(* reply, LoadHistory in AssembleContext).                                 *)
THEOREM FollowUpsSeeExchanges == Spec => []FollowUpSeesExchange
<1>1. TypeOK /\ TenantInv /\ SavedInv => FollowUpSeesExchange
  BY DEF TypeOK, TenantInv, InOwnSession, SavedInv, SavedIsSeen, FollowUpSeesExchange,
     InContext, InSession, Admitted, Running, Ended
<1>2. QED
  BY <1>1, TypeCorrect, TenantInvHolds, SavedInvHolds, PTL
-----------------------------------------------------------------------------
(***************************************************************************)
(* The contract of a turn.                                                 *)
(***************************************************************************)
Attempted(r) == commit[r] # "none"

(* What the step of one handler does to its own turn, in the contract's    *)
(* terms; the turns of the others are left alone (StepIsLocal).            *)
Attempts(r) == ~ Attempted(r) /\ VerdictOf(r) = "none" /\ Attempted(r)' /\ ~ Stored(r)' /\ VerdictOf(r)' = "none"
Stores(r) ==
  /\ Attempted(r) /\ ~ Stored(r) /\ VerdictOf(r) \in {"none", "unsaved"}
  /\ Attempted(r)' /\ Stored(r)' /\ VerdictOf(r)' = VerdictOf(r)
Answers(r) ==
  /\ VerdictOf(r) = "none" /\ commit'[r] = commit[r]
  /\ \/ VerdictOf(r)' = "saved" /\ Stored(r)
     \/ VerdictOf(r)' = "failed" /\ ~ Attempted(r)
     \/ VerdictOf(r)' = "unsaved"
Quietly(r) == (Attempted(r)' <=> Attempted(r)) /\ (Stored(r)' <=> Stored(r)) /\ VerdictOf(r)' = VerdictOf(r)

(* A handler has given no verdict before it concludes. *)
LEMMA NoVerdictYet ==
  ASSUME ReplyInv, NEW r \in Request, pc[r] \in Running \ {"finish"} PROVE VerdictOf(r) = "none"
<1>1. outcome[r] = "none" /\ resp[r] \in {"none", "200"}
  BY DEF ReplyInv, TurnSoFar, OutcomeSoFar, Running
<1>2. QED
  BY <1>1 DEF VerdictOf, Refusal

(* Every step of a handler is a step of the contract for its request, or   *)
(* none.                                                                   *)
LEMMA StepIsContractual ==
  ASSUME TypeOK, ReplyInv, NEW r \in Request, Step(r)
  PROVE  Attempts(r) \/ Stores(r) \/ Answers(r) \/ Quietly(r)
<1> USE DEF TypeOK
<1>1. ASSUME UNCHANGED << commit, resp, outcome >> PROVE Quietly(r)
  BY <1>1 DEF Quietly, Attempted, Stored, VerdictOf
<1>2. ASSUME NEW from \in {"authenticate", "limit", "decode", "resolve", "assemble"}, NEW status \in Refusal,
             Reject(r, from, status), commit' = commit
      PROVE  Answers(r)
  <2>1. pc[r] = from /\ resp'[r] = status /\ outcome' = outcome
    BY <1>2 DEF Reject, Goto
  <2>2. outcome[r] = "none" /\ ~ Attempted(r)
    BY <2>1 DEF ReplyInv, TurnSoFar, OutcomeSoFar, StoreSoFar, Attempted, Running
  <2>3. VerdictOf(r)' = "failed"
    BY <2>1, <2>2 DEF VerdictOf
  <2>4. VerdictOf(r) = "none"
    BY <2>1, NoVerdictYet DEF Running
  <2>5. QED
    BY <1>2, <2>2, <2>3, <2>4 DEF Answers
<1>3. ASSUME NEW from \in Running \ {"finish"}, NEW status, NEW fr, NEW out \in Outcome, Conclude(r, from, status, fr, out),
             out = "success" => Stored(r),
             out \notin {"success", "persist_error"} => ~ Attempted(r)
      PROVE  Answers(r)
  <2>1. pc[r] = from /\ outcome'[r] = out /\ commit' = commit
    BY <1>3 DEF Conclude, Goto, dbVars
  <2>2. VerdictOf(r) = "none"
    BY <2>1, NoVerdictYet
  <2>3. VerdictOf(r)' = IF out = "success" THEN "saved" ELSE IF out = "persist_error" THEN "unsaved" ELSE "failed"
    BY <2>1 DEF VerdictOf, Outcome
  <2>4. QED
    BY <1>3, <2>1, <2>2, <2>3 DEF Answers
<1> HIDE DEF TypeOK
<1>4. CASE Prepare(r)
  <2>1. CASE NoFlusher(r) \/ CallCancelled(r)
    <3>1. ~ Attempted(r)
      BY <2>1 DEF NoFlusher, CallCancelled, Conclude, Goto, ReplyInv, TurnSoFar, StoreSoFar, Attempted, Running
    <3>2. QED
      BY <1>3, <2>1, <3>1 DEF NoFlusher, CallCancelled, Outcome, Running
  <2>2. CASE Unauthorized(r) \/ AuthUnavailable(r) \/ TooManyRequests(r) \/ BadRequest(r)
    BY <1>2, <2>2 DEF Unauthorized, AuthUnavailable, TooManyRequests, BadRequest, Refusal, dbVars
  <2>3. CASE SessionNotFound(r) \/ ResolveUnavailable(r) \/ AssembleUnavailable(r)
    BY <1>2, <2>3 DEF SessionNotFound, ResolveUnavailable, AssembleUnavailable, Refusal, dbVars
  <2>4. CASE Authenticate(r) \/ Admit(r) \/ Decode(r) \/ Issue(r) \/ Lookup(r) \/ Assemble(r) \/ CallUpstream(r)
    BY <1>1, <2>4 DEF Authenticate, Admit, Decode, Issue, Lookup, Assemble, CallUpstream, dbVars, replyVars
  <2>5. QED
    BY <1>4, <2>1, <2>2, <2>3, <2>4 DEF Prepare
<1>5. CASE Upstream(r) \/ Classify(r)
  <2>1. CASE CompleteFails(r) \/ StreamRefused(r) \/ Classify(r)
    <3>1. ~ Attempted(r)
      BY <2>1 DEF CompleteFails, StreamRefused, Classify, Conclude, Goto, ReplyInv, TurnSoFar, StoreSoFar, Attempted, Running
    <3>2. QED
      BY <1>3, <2>1, <3>1 DEF CompleteFails, StreamRefused, Classify, Outcome, Running
  <2>2. CASE StreamOpens(r)
    <3>1. VerdictOf(r) = "none" /\ commit' = commit
      BY <2>2, NoVerdictYet DEF StreamOpens, Goto, Running, dbVars
    <3>2. VerdictOf(r)' = "none"
      BY <2>2 DEF TypeOK, StreamOpens, Goto, ReplyInv, TurnSoFar, OutcomeSoFar, Running, VerdictOf, Refusal
    <3>3. QED
      BY <3>1, <3>2 DEF Quietly, Attempted, Stored
  <2>3. CASE Complete(r) \/ RelayDone(r) \/ RelayCut(r)
    BY <1>1, <2>3 DEF Complete, RelayDone, RelayCut, dbVars, replyVars
  <2>4. QED
    BY <1>5, <2>1, <2>2, <2>3 DEF Upstream
<1>6. CASE SendCommit(r)
  <2>1. pc[r] = "persist" /\ commit'[r] = "sent" /\ UNCHANGED << resp, outcome >>
    BY <1>6 DEF TypeOK, SendCommit, Goto, replyVars
  <2>2. commit[r] = "none" /\ VerdictOf(r) = "none"
    BY <2>1, NoVerdictYet DEF ReplyInv, TurnSoFar, StoreSoFar, Running
  <2>3. VerdictOf(r)' = VerdictOf(r)
    BY <2>1 DEF VerdictOf
  <2>4. QED
    BY <2>1, <2>2, <2>3 DEF Attempts, Attempted, Stored
<1>7. CASE PersistFails(r) \/ CommitFails(r) \/ CommitReturns(r)
  <2>1. CASE PersistFails(r) \/ CommitFails(r)
    BY <1>3, <2>1 DEF PersistFails, CommitFails, NotSaved, Outcome, Running
  <2>2. CASE CommitReturns(r)
    BY <1>3, <2>2 DEF CommitReturns, Stored, Outcome, Running
  <2>3. QED
    BY <1>7, <2>1, <2>2
<1>8. CASE Database(r)
  <2>1. commit[r] = "sent" /\ commit'[r] \in {"applied", "aborted"} /\ UNCHANGED << resp, outcome >>
    BY <1>8 DEF TypeOK, Database, DbCommit, DbAbort, replyVars
  <2>2. VerdictOf(r)' = VerdictOf(r)
    BY <2>1 DEF VerdictOf
  <2>3. VerdictOf(r) \in {"none", "unsaved"}
    BY <2>1 DEF TypeOK, ReplyInv, TurnSoFar, OutcomeSoFar, OutcomeAgrees, VerdictOf, Refusal, Stored, Outcome
  <2>4. QED
    BY <2>1, <2>2, <2>3 DEF Stores, Quietly, Attempted, Stored
<1>9. CASE Finish(r) \/ Background(r)
  BY <1>1, <1>9 DEF Finish, Background, AuditWrites, TouchRuns, dbVars, replyVars
<1>10. QED
  BY <1>4, <1>5, <1>6, <1>7, <1>8, <1>9 DEF Step, Persist

(* The contract's state, changed at one turn. *)
LEMMA StepImplementsContract ==
  ASSUME TypeOK, ReplyInv, NEW r \in Request, Step(r) PROVE [Contract!Next]_(Contract!vars)
<1> DEFINE A == [u \in Request |-> commit[u] # "none"]
           S == [u \in Request |-> Stored(u)]
           V == [u \in Request |-> VerdictOf(u)]
<1>1. \A x \in Request \ {r} : (Attempted(x)' <=> Attempted(x)) /\ (Stored(x)' <=> Stored(x)) /\ VerdictOf(x)' = VerdictOf(x)
  BY StepIsLocal DEF SameTurn, Attempted, Stored, VerdictOf
<1>2. CASE Attempts(r)
  <2>1. A' = [A EXCEPT ![r] = TRUE] /\ S' = S /\ V' = V /\ ~ A[r] /\ V[r] = "none"
    BY <1>1, <1>2 DEF Attempts, Attempted, Stored
  <2>2. QED
    BY <2>1 DEF Contract!Next, Contract!Attempt
<1>3. CASE Stores(r)
  <2>1. A' = A /\ S' = [S EXCEPT ![r] = TRUE] /\ V' = V /\ A[r] /\ ~ S[r] /\ V[r] \in {"none", "unsaved"}
    BY <1>1, <1>3 DEF Stores, Attempted, Stored
  <2>2. QED
    BY <2>1 DEF Contract!Next, Contract!Store
<1>4. CASE Answers(r)
  <2>1. A' = A /\ S' = S /\ V[r] = "none"
    BY <1>1, <1>4 DEF Answers, Attempted, Stored
  <2>2. \/ S[r] /\ V' = [V EXCEPT ![r] = "saved"]
        \/ ~ A[r] /\ V' = [V EXCEPT ![r] = "failed"]
        \/ V' = [V EXCEPT ![r] = "unsaved"]
    BY <1>1, <1>4 DEF Answers, Attempted
  <2>3. QED
    BY <2>1, <2>2 DEF Contract!Next, Contract!Saved, Contract!Failed, Contract!Unsaved, Contract!Give
<1>5. CASE Quietly(r)
  <2>1. A' = A /\ S' = S /\ V' = V
    BY <1>1, <1>5 DEF Quietly, Attempted, Stored
  <2>2. QED
    BY <2>1 DEF Contract!vars
<1>6. QED
  BY <1>2, <1>3, <1>4, <1>5, StepIsContractual

(* The gateway keeps the contract of a turn: whatever callers, model,      *)
(* database and crashes do, an exchange is attempted and stored at most    *)
(* once, and the verdict a caller is given is true when it is given and    *)
(* stays true, except that an unsaved exchange may be stored later.        *)
THEOREM TurnsKeepContract == Spec => RefinesContract
<1>1. Init => Contract!Init
  <2> SUFFICES ASSUME Init PROVE Contract!Init
    OBVIOUS
  <2>1. \A r \in Request : commit[r] = "none" /\ VerdictOf(r) = "none"
    BY DEF Init, VerdictOf, Refusal
  <2>2. QED
    BY <2>1 DEF Contract!Init, Stored
<1>2. TypeOK /\ ReplyInv /\ [Next]_vars => [Contract!Next]_(Contract!vars)
  <2> SUFFICES ASSUME TypeOK, ReplyInv, [Next]_vars PROVE [Contract!Next]_(Contract!vars)
    OBVIOUS
  <2>1. ASSUME UNCHANGED << commit, resp, outcome >> PROVE UNCHANGED Contract!vars
    BY <2>1 DEF Contract!vars, Stored, VerdictOf
  <2>2. ASSUME NEW r \in Request, Arrive(r) \/ Disconnect(r) PROVE UNCHANGED << commit, resp, outcome >>
    BY <2>2 DEF Arrive, Disconnect, dbVars, replyVars
  <2>3. ASSUME NEW k \in Key, Revoke(k) \/ EditPersona(k) PROVE UNCHANGED << commit, resp, outcome >>
    BY <2>3 DEF Revoke, EditPersona, dbVars, replyVars
  <2>4. CASE Crash \/ UNCHANGED vars
    BY <2>1, <2>4 DEF Crash, vars, dbVars, replyVars
  <2>5. QED
    BY <2>1, <2>2, <2>3, <2>4, StepImplementsContract DEF Next, Idle
<1>3. QED
  BY <1>1, <1>2, TypeCorrect, ReplyInvHolds, PTL DEF Spec, RefinesContract, Contract!Spec
=============================================================================
