------------------------------ MODULE Messages ------------------------------
(***************************************************************************)
(* The pure part of internal/gatewaycore: which of the messages a caller   *)
(* sends are new, how much of the stored history accompanies them to the   *)
(* model, and which messages an exchange adds to the conversation.         *)
(*                                                                         *)
(* A message is a record [role, content]; two messages are equal when both *)
(* fields are, which is what equalMessages compares.                       *)
(***************************************************************************)
EXTENDS Integers, Sequences

User(content) == [role |-> "user", content |-> content]
Assistant(content) == [role |-> "assistant", content |-> content]
System(content) == [role |-> "system", content |-> content]

(* Mutant: dropOverlap never dropping all of the incoming messages. *)
OverlapsProper(history, incoming) ==
  {k \in 0..Len(history) :
     /\ k < Len(incoming) \/ k = 0
     /\ SubSeq(history, Len(history) - k + 1, Len(history)) = SubSeq(incoming, 1, k)}

(***************************************************************************)
(* How many messages at the end of history may be repeated at the start of *)
(* incoming: every k the loop of dropOverlap would accept, and 0 for the   *)
(* case in which it accepts none.                                          *)
(***************************************************************************)
Overlaps(history, incoming) ==
  {k \in 0..Len(history) :
     /\ k <= Len(incoming)
     /\ SubSeq(history, Len(history) - k + 1, Len(history)) = SubSeq(incoming, 1, k)}

(* The loop runs from the largest k downwards and stops at the first match. *)
LongestOverlap(history, incoming) ==
  CHOOSE k \in Overlaps(history, incoming) : \A j \in Overlaps(history, incoming) : j <= k

DropOverlap(history, incoming) ==
  SubSeq(incoming, LongestOverlap(history, incoming) + 1, Len(incoming))

(* dropOverlap as it is written: k counts down from the shorter of the two *)
(* lengths until the last k messages of history are the first k incoming.  *)
OverlapLoop(history, incoming) ==
  LET maxK == IF Len(incoming) < Len(history) THEN Len(incoming) ELSE Len(history)
      drop[k \in 0..maxK] ==
        IF k = 0 THEN incoming
        ELSE IF \A i \in 1..k : history[Len(history) - k + i] = incoming[i]
             THEN SubSeq(incoming, k + 1, Len(incoming))
             ELSE drop[k - 1]
  IN  drop[maxK]

(***************************************************************************)
(* capHistory: the oldest messages of history go first, incoming stays.    *)
(***************************************************************************)
CapHistory(history, incoming, maxHistory) ==
  LET over    == Len(history) + Len(incoming) - maxHistory
      dropped == IF over > Len(history) THEN Len(history) ELSE over
  IN  IF over <= 0 THEN history ELSE SubSeq(history, dropped + 1, Len(history))

(***************************************************************************)
(* The upstream message list: the persona if there is one (NoPersona is    *)
(* the empty string of the code), the capped history, the new messages.    *)
(***************************************************************************)
Lead(persona, noPersona) == IF persona = noPersona THEN << >> ELSE << System(persona) >>

AssembleContext(lead, history, incoming, maxHistory) ==
  LET fresh == DropOverlap(history, incoming)
  IN  lead \o CapHistory(history, fresh, maxHistory) \o fresh

(* Mutant: PersistExchange slicing the incoming messages one too far. *)
ExchangeOneTooMany(history, incoming, reply) ==
  Append(SubSeq(incoming, LongestOverlap(history, incoming) + 2, Len(incoming)), reply)

(***************************************************************************)
(* What PersistExchange hands to AppendMessages: never empty, and always   *)
(* ending with the reply.                                                  *)
(***************************************************************************)
Exchange(history, incoming, reply) == Append(DropOverlap(history, incoming), reply)

-----------------------------------------------------------------------------
(* What the operators are for. *)

LastOf(s) == s[Len(s)]
LastMessages(s, k) == SubSeq(s, Len(s) - k + 1, Len(s))

(* Every exchange ends with the model's reply, so a stored history does too. *)
EndsWithReply(history) == history # << >> => LastOf(history).role = "assistant"

(* The new user message is never mistaken for an echo of the history: it   *)
(* is still the last message after dropOverlap.                            *)
KeepsUserTurn(history, incoming) ==
  (incoming # << >> /\ LastOf(incoming).role = "user") =>
     LET fresh == DropOverlap(history, incoming)
     IN  fresh # << >> /\ LastOf(fresh) = LastOf(incoming)

(* A caller that re-sends any number of the latest stored messages before  *)
(* its new turn, the whole history included, adds exactly the new turn.    *)
ResendAddsOnlyTurn(history, turn) ==
  \A k \in 0..Len(history) : DropOverlap(history, LastMessages(history, k) \o << turn >>) = << turn >>

(* What is sent after the persona is a tail of the history followed by the *)
(* new messages, within the cap unless the new messages alone exceed it.   *)
ContextFits(history, incoming, maxHistory) ==
  LET fresh == DropOverlap(history, incoming)
      kept  == CapHistory(history, fresh, maxHistory)
  IN  /\ kept = LastMessages(history, Len(kept))
      /\ (Len(kept) + Len(fresh) <= maxHistory) \/ kept = << >>
      /\ Len(kept) < Len(history) => Len(kept) + Len(fresh) >= maxHistory
=============================================================================
