---------------------------- MODULE Conversation ----------------------------
(***************************************************************************)
(* The stored conversation (internal/conversation over the messages table) *)
(* and the chat turns that read and extend it through internal/            *)
(* gatewaycore.  A turn loads the history to build the upstream context,   *)
(* waits for the model, loads the history AGAIN to decide what is new, and *)
(* appends the exchange in a transaction of its own.  No lock is held from *)
(* the first load to the commit, so turns of one conversation interleave   *)
(* at every one of these steps.                                            *)
(*                                                                         *)
(* The database is PostgreSQL at READ COMMITTED: a load sees the rows of   *)
(* the transactions committed so far; UPDATE conversations holds the row's *)
(* lock until the transaction ends.                                        *)
(***************************************************************************)
EXTENDS Messages, FiniteSets

CONSTANTS
  Turn,        \* the chat turns of a behaviour
  Conv,        \* the conversations they belong to
  ConvOf,      \* the conversation of each turn
  Content,     \* message texts
  Input,       \* what a caller may send: non-empty sequences of messages
  Id,          \* row ids: random, they only order rows with equal timestamps
  MaxHistory,  \* the cap of gatewaycore.Service
  OneAtATime,  \* TRUE: a caller awaits the answer before its session's next turn
  Faults       \* which failures occur: "error" a statement fails,
               \* "lostAck" the answer to COMMIT does not arrive

Message == [role : {"user", "assistant"}, content : Content]

ASSUME ConvAssumption ==
  /\ IsFiniteSet(Turn)
  /\ ConvOf \in [Turn -> Conv]
  /\ Input \subseteq Seq(Message) \ {<< >>}
  /\ Id \subseteq Nat
  /\ MaxHistory \in Nat \ {0}
  /\ OneAtATime \in BOOLEAN
  /\ Faults \subseteq {"error", "lostAck"}

NoTurn == "none"
ASSUME NoTurnAssumption == NoTurn \notin Turn

VARIABLES
  rows,     \* the committed rows of the messages table
  clock,    \* time.Now() of the server, in microseconds
  lock,     \* the turn whose transaction holds the conversation's row
  pc,       \* where each turn is
  incoming, \* the caller's messages
  fresh,    \* those of them that went upstream as new
  sent,     \* the whole upstream context, persona aside
  batch,    \* the messages PersistExchange appends
  base,     \* the timestamp AppendMessages took after Begin
  commitNo  \* auxiliary: the order in which transactions committed, 0 for none

vars == << rows, clock, lock, pc, incoming, fresh, sent, batch, base, commitNo >>

Row == [turn : Turn, pos : Nat, ts : Nat, id : Id, msg : Message]

TypeOK ==
  /\ rows \subseteq Row
  /\ clock \in Nat
  /\ lock \in [Conv -> Turn \cup {NoTurn}]
  /\ pc \in [Turn -> {"idle", "calling", "loaded", "inserting", "bumped", "limbo", "done", "failed"}]
  /\ incoming \in [Turn -> Seq(Message)]
  /\ fresh \in [Turn -> Seq(Message)]
  /\ sent \in [Turn -> Seq(Message)]
  /\ batch \in [Turn -> Seq(Message)]
  /\ base \in [Turn -> Nat]
  /\ commitNo \in [Turn -> Nat]

(* Mutant: LoadHistory without WHERE conversation_id. *)
RowsOfAll(c) ==
  rows

(***************************************************************************)
(* LoadHistory: SELECT ... WHERE conversation_id = c ORDER BY created_at,  *)
(* id.  The i-th message is the one whose row has i-1 rows before it.      *)
(***************************************************************************)
RowsOf(c) == {r \in rows : ConvOf[r.turn] = c}
(* Mutant: ORDER BY created_at DESC. *)
BeforeNewest(r, s) ==
  r.ts > s.ts \/ (r.ts = s.ts /\ r.id < s.id)

Before(r, s) == r.ts < s.ts \/ (r.ts = s.ts /\ r.id < s.id)
Earlier(r, R) == {s \in R : Before(s, r)}
LoadHistory(c) ==
  LET R == RowsOf(c)
  IN  [i \in 1..Cardinality(R) |-> (CHOOSE r \in R : Cardinality(Earlier(r, R)) = i - 1).msg]

Goto(t, from, to) == pc[t] = from /\ pc' = [pc EXCEPT ![t] = to]

(* The handler of turn t is running. *)
Active(t) == pc[t] \in {"calling", "loaded", "inserting", "bumped"}

Init ==
  /\ rows = {}
  /\ clock = 0
  /\ lock = [c \in Conv |-> NoTurn]
  /\ pc = [t \in Turn |-> "idle"]
  /\ incoming = [t \in Turn |-> << >>]
  /\ fresh = [t \in Turn |-> << >>]
  /\ sent = [t \in Turn |-> << >>]
  /\ batch = [t \in Turn |-> << >>]
  /\ base = [t \in Turn |-> 0]
  /\ commitNo = [t \in Turn |-> 0]

(***************************************************************************)
(* AssembleContext: the first load, and what is sent to the model.         *)
(***************************************************************************)
Assemble(t) ==
  /\ Goto(t, "idle", "calling")
  /\ OneAtATime => \A u \in Turn : Active(u) => ConvOf[u] # ConvOf[t]
  /\ \E in \in Input :
       LET history == LoadHistory(ConvOf[t])
       IN  /\ incoming' = [incoming EXCEPT ![t] = in]
           /\ fresh' = [fresh EXCEPT ![t] = DropOverlap(history, in)]
           /\ sent' = [sent EXCEPT ![t] = AssembleContext(<< >>, history, in, MaxHistory)]
  /\ UNCHANGED << rows, clock, lock, batch, base, commitNo >>

(* The model failed or the caller left: PersistExchange is not called. *)
Abandon(t) ==
  /\ Goto(t, "calling", "failed")
  /\ UNCHANGED << rows, clock, lock, incoming, fresh, sent, batch, base, commitNo >>

(***************************************************************************)
(* PersistExchange: the model answered; the second load decides which of   *)
(* the caller's messages are new.                                          *)
(***************************************************************************)
PersistLoad(t) ==
  /\ Goto(t, "calling", "loaded")
  /\ \E reply \in Content :
       batch' = [batch EXCEPT ![t] = Exchange(LoadHistory(ConvOf[t]), incoming[t], Assistant(reply))]
  /\ UNCHANGED << rows, clock, lock, incoming, fresh, sent, base, commitNo >>

(* AppendMessages: BEGIN, then the time from which the rows are stamped. *)
BeginTx(t) ==
  /\ Goto(t, "loaded", "inserting")
  /\ base' = [base EXCEPT ![t] = clock]
  /\ UNCHANGED << rows, clock, lock, incoming, fresh, sent, batch, commitNo >>

(***************************************************************************)
(* Every INSERT is a round trip to the database, which takes longer than   *)
(* the microsecond between two rows' timestamps: when the last one has     *)
(* returned the clock is past all of them.  Time that passes while nothing *)
(* is being inserted changes no comparison and is left out.                *)
(***************************************************************************)
Tick ==
  /\ \E t \in Turn : pc[t] = "inserting" /\ clock < base[t] + Len(batch[t])
  /\ clock' = clock + 1
  /\ UNCHANGED << rows, lock, pc, incoming, fresh, sent, batch, base, commitNo >>

(* Mutant: The UPDATE of conversations dropped: no row lock is taken. *)
BumpUnlocked(t) ==
  /\ Goto(t, "inserting", "bumped")
  /\ clock >= base[t] + Len(batch[t])
  /\ UNCHANGED << rows, clock, lock, incoming, fresh, sent, batch, base, commitNo >>

(* UPDATE conversations: waits for the row's lock. *)
Bump(t) ==
  /\ Goto(t, "inserting", "bumped")
  /\ clock >= base[t] + Len(batch[t])
  /\ lock[ConvOf[t]] = NoTurn
  /\ lock' = [lock EXCEPT ![ConvOf[t]] = t]
  /\ UNCHANGED << rows, clock, incoming, fresh, sent, batch, base, commitNo >>

(* Mutant: Timestamps that count down. *)
NewRowReversed(t, i, id) ==
  [turn |-> t, pos |-> i, ts |-> base[t] + (Len(batch[t]) - i), id |-> id, msg |-> batch[t][i]]

(* Row i of the batch, stamped base + i microseconds (i from 0 in the code). *)
NewRow(t, i, id) ==
  [turn |-> t, pos |-> i, ts |-> base[t] + (i - 1), id |-> id, msg |-> batch[t][i]]

(* The transaction's rows become visible together; ids are unique. *)
Apply(t) ==
  /\ \E ids \in [1..Len(batch[t]) -> Id] :
       /\ \A i \in 1..Len(batch[t]), r \in RowsOf(ConvOf[t]) :
            r.ts = base[t] + (i - 1) => r.id # ids[i]
       /\ rows' = rows \cup {NewRow(t, i, ids[i]) : i \in 1..Len(batch[t])}
  /\ commitNo' = [commitNo EXCEPT ![t] = 1 + Cardinality({u \in Turn : commitNo[u] > 0})]

(* Mutant: A transaction whose rollback is never sent. *)
KeepLock(t) ==
  lock' = IF pc[t] = "limbo" THEN lock ELSE [lock EXCEPT ![ConvOf[t]] = IF @ = t THEN NoTurn ELSE @]

Release(t) ==
  lock' = [lock EXCEPT ![ConvOf[t]] = IF @ = t THEN NoTurn ELSE @]

Commit(t) ==
  /\ Goto(t, "bumped", "done")
  /\ Apply(t)
  /\ Release(t)
  /\ UNCHANGED << clock, incoming, fresh, sent, batch, base >>

(***************************************************************************)
(* A statement fails, or the context ends: AppendMessages returns the      *)
(* error and the deferred Rollback undoes the transaction.                 *)
(***************************************************************************)
Fail(t) ==
  /\ "error" \in Faults
  /\ pc[t] \in {"loaded", "inserting", "bumped"}
  /\ pc' = [pc EXCEPT ![t] = "failed"]
  /\ Release(t)
  /\ UNCHANGED << rows, clock, incoming, fresh, sent, batch, base, commitNo >>

(***************************************************************************)
(* COMMIT was sent but its answer is lost (the context ended, the          *)
(* connection broke): Commit returns an error and the handler answers,     *)
(* while the database still completes the transaction or drops it.         *)
(***************************************************************************)
LoseAck(t) ==
  /\ "lostAck" \in Faults
  /\ Goto(t, "bumped", "limbo")
  /\ UNCHANGED << rows, clock, lock, incoming, fresh, sent, batch, base, commitNo >>

LimboCommits(t) ==
  /\ Goto(t, "limbo", "failed")
  /\ Apply(t)
  /\ Release(t)
  /\ UNCHANGED << clock, incoming, fresh, sent, batch, base >>

LimboAborts(t) ==
  /\ Goto(t, "limbo", "failed")
  /\ Release(t)
  /\ UNCHANGED << rows, clock, incoming, fresh, sent, batch, base, commitNo >>

Step(t) ==
  \/ Assemble(t) \/ Abandon(t) \/ PersistLoad(t) \/ BeginTx(t) \/ Bump(t) \/ Commit(t)
  \/ Fail(t) \/ LoseAck(t) \/ LimboCommits(t) \/ LimboAborts(t)

(* Every turn has ended and every transaction is resolved. *)
Ended == \A t \in Turn : pc[t] \in {"done", "failed"}
Finished == Ended /\ UNCHANGED vars

Next == Tick \/ (\E t \in Turn : Step(t)) \/ Finished

Spec == Init /\ [][Next]_vars

(***************************************************************************)
(* AppendMessages keeps running: its statements return, the database       *)
(* resolves the transactions it was asked to commit, and time passes.      *)
(* Nothing is assumed of the model, and no failure is counted on.          *)
(***************************************************************************)
Progress(t) == BeginTx(t) \/ Bump(t) \/ Commit(t) \/ LimboCommits(t) \/ LimboAborts(t)
Fairness == WF_vars(Tick) /\ \A t \in Turn : WF_vars(Progress(t))
FairSpec == Spec /\ Fairness

-----------------------------------------------------------------------------
Saved(t) == commitNo[t] > 0
RowsOfTurn(t) == {r \in rows : r.turn = t}

(* What a caller may send again: the latest messages of a history. *)
Resent(h) == {SubSeq(h, k, Len(h)) : k \in 1..Len(h)}

(* On every history the store can reach, and every re-sending of its       *)
(* latest messages before the caller's own, DropOverlap returns what the   *)
(* loop of dropOverlap (gatewaycore.go) returns.                           *)
OverlapIsTheLoop ==
  \A c \in Conv : LET h == LoadHistory(c) IN
    \A echo \in Resent(h) \cup {<< >>}, in \in Input \cup {<< >>} :
      DropOverlap(h, echo \o in) = OverlapLoop(h, echo \o in)

(* Atomicity of AppendMessages: a turn has all the rows of its exchange or *)
(* none; a row's timestamp grows with its place in the exchange, so ORDER  *)
(* BY created_at returns an exchange in append order however transactions  *)
(* interleave.                                                             *)
ExchangeIntact ==
  \A t \in Turn :
    /\ {r.pos : r \in RowsOfTurn(t)} = IF Saved(t) THEN 1..Len(batch[t]) ELSE {}
    /\ \A r \in RowsOfTurn(t) : r.ts = base[t] + (r.pos - 1) /\ r.msg = batch[t][r.pos]

(* Whatever turns are interleaved, a history ends with a model's reply.    *)
(* dropOverlap relies on it: it is why a new user message never looks like *)
(* an echo.                                                                *)
HistoryEndsWithReply == \A c \in Conv : EndsWithReply(LoadHistory(c))

(* A caller's new user message is the last the model sees and is stored    *)
(* right before the reply, whatever other turns did between the two loads. *)
UserTurnStored ==
  \A t \in Turn : (batch[t] # << >> /\ LastOf(incoming[t]).role = "user") =>
    /\ LastOf(sent[t]) = LastOf(incoming[t])
    /\ Len(batch[t]) > 1
    /\ batch[t][Len(batch[t]) - 1] = LastOf(incoming[t])

(* gatewaycore: "persistence can never diverge from what was sent          *)
(* upstream": an exchange stores the messages that went upstream as new.   *)
StoredIsSent ==
  \A t \in Turn : Saved(t) => batch[t] = Append(fresh[t], LastOf(batch[t]))

(* gatewaycore: "a caller that re-sends the last stored turn(s) does not   *)
(* double-store them": messages recognised as an echo when the context was *)
(* built are not stored with the exchange.                                 *)
EchoNotStored ==
  \A t \in Turn : Saved(t) => Len(batch[t]) <= Len(fresh[t]) + 1

(* What holds of it whatever the overlap: an exchange is the caller's own  *)
(* latest messages and the reply, with nothing of another turn between.    *)
Tails(s) == {SubSeq(s, k + 1, Len(s)) : k \in 0..Len(s)}
StoredIsOwn ==
  \A t \in Turn : batch[t] # << >> =>
    \E own \in Tails(incoming[t]) : batch[t] = Append(own, LastOf(batch[t]))

(* capHistory, on the histories that the store has: the model is sent the  *)
(* caller's latest messages behind as much of the history as the cap       *)
(* allows, and more than the cap only when they exceed it themselves.      *)
ContextIsCapped ==
  \A t \in Turn :
    /\ fresh[t] \in Tails(incoming[t])
    /\ fresh[t] \in Tails(sent[t])
    /\ Len(sent[t]) <= MaxHistory \/ sent[t] = fresh[t]

(* LoadHistory is oldest-first: an exchange committed later is read later. *)
CommitOrder ==
  \A r, s \in rows :
    (ConvOf[r.turn] = ConvOf[s.turn] /\ commitNo[r.turn] < commitNo[s.turn]) => Before(r, s)

(* What is left of it when turns overlap: an append that begins after      *)
(* others were committed is stamped later than all of their rows, so it is *)
(* read after them.  Only appends under way at the same time may be read   *)
(* in another order than that of their commits.                            *)
AppendsFollow ==
  [][\A t \in Turn : BeginTx(t) => \A r \in RowsOf(ConvOf[t]) : r.ts < base'[t]]_vars

(* An append that was started ends: however turns overlap, and whatever is *)
(* rolled back or left in doubt, no transaction waits for ever for the     *)
(* conversation's row.                                                     *)
AppendsEnd ==
  \A t \in Turn : pc[t] \in {"loaded", "inserting", "bumped", "limbo"} ~> pc[t] \in {"done", "failed"}

Log == INSTANCE ConversationLog WITH log <- [c \in Conv |-> LoadHistory(c)]

(* The store implements the append-only log: nothing stored is ever        *)
(* changed, removed or reordered, and a turn adds to its own conversation. *)
RefinesLog == Log!Spec

-----------------------------------------------------------------------------
(***************************************************************************)
(* The inductive invariants behind the properties above.                   *)
(***************************************************************************)

(* A row belongs to a saved turn and carries its part of the exchange. *)
RowsMatchBatch ==
  \A r \in rows :
    /\ Saved(r.turn)
    /\ r.pos \in 1..Len(batch[r.turn])
    /\ r.ts = base[r.turn] + (r.pos - 1)
    /\ r.msg = batch[r.turn][r.pos]

(* A saved turn has left AppendMessages and has every row. *)
SavedIsWhole ==
  \A t \in Turn : Saved(t) =>
    /\ pc[t] \in {"done", "failed"}
    /\ batch[t] # << >>
    /\ \A i \in 1..Len(batch[t]) : \E r \in rows : r.turn = t /\ r.pos = i

(* ORDER BY created_at, id is a total order on a conversation's rows. *)
RowsOrdered ==
  \A r, s \in rows : (ConvOf[r.turn] = ConvOf[s.turn] /\ r # s) => Before(r, s) \/ Before(s, r)

BatchEndsWithReply ==
  /\ \A t \in Turn : pc[t] \in {"idle", "calling"} => batch[t] = << >>
  /\ \A t \in Turn : pc[t] \in {"loaded", "inserting", "bumped", "limbo", "done"} => batch[t] # << >>
  /\ \A t \in Turn : EndsWithReply(batch[t])

InputPresent == \A t \in Turn : pc[t] # "idle" => incoming[t] # << >>

ContextEndsWithTurn ==
  \A t \in Turn :
    (pc[t] # "idle" /\ LastOf(incoming[t]).role = "user") => LastOf(sent[t]) = LastOf(incoming[t])

StoreInv ==
  /\ TypeOK
  /\ IsFiniteSet(rows)
  /\ RowsMatchBatch
  /\ SavedIsWhole
  /\ RowsOrdered
  /\ BatchEndsWithReply
  /\ InputPresent

(* With one turn at a time, a transaction's timestamps follow those of     *)
(* every row already visible, and of a transaction still in limbo.         *)
Stamped(t) == pc[t] \in {"inserting", "bumped", "limbo"}

LockHeld == \A t \in Turn : pc[t] \in {"bumped", "limbo"} <=> lock[ConvOf[t]] = t
LockHasHolder ==
  \A c \in Conv : lock[c] # NoTurn => pc[lock[c]] \in {"bumped", "limbo"} /\ ConvOf[lock[c]] = c
OneActive == \A t, u \in Turn : (t # u /\ Active(t) /\ Active(u)) => ConvOf[t] # ConvOf[u]
RowsInPast == \A r \in rows : r.ts < clock
StampsInPast == \A t \in Turn : pc[t] \in {"bumped", "limbo"} => base[t] + Len(batch[t]) <= clock
StampsFollowRows ==
  \A t \in Turn, r \in rows : (Stamped(t) /\ ConvOf[r.turn] = ConvOf[t]) => r.ts < base[t]
StampsFollowLimbo ==
  \A t, u \in Turn : (pc[t] = "limbo" /\ pc[u] = "inserting" /\ ConvOf[t] = ConvOf[u])
                        => base[t] + Len(batch[t]) <= base[u]
CommitNumbers == \A t \in Turn : commitNo[t] <= Cardinality({u \in Turn : commitNo[u] > 0})
CommitStamps ==
  \A r, s \in rows :
    (ConvOf[r.turn] = ConvOf[s.turn] /\ commitNo[r.turn] < commitNo[s.turn]) => r.ts < s.ts

SerialInv ==
  /\ LockHeld /\ OneActive
  /\ RowsInPast /\ StampsInPast /\ StampsFollowRows /\ StampsFollowLimbo
  /\ CommitNumbers /\ CommitStamps

(* While one turn runs and commits are acknowledged, nothing changes the   *)
(* history between its two loads.                                          *)
LoadStable ==
  /\ \A t \in Turn : pc[t] # "limbo"
  /\ \A t \in Turn : pc[t] = "calling" => fresh[t] = DropOverlap(LoadHistory(ConvOf[t]), incoming[t])
  /\ \A t \in Turn : batch[t] # << >> => batch[t] = Append(fresh[t], LastOf(batch[t]))
=============================================================================
