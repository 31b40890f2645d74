--------------------------- MODULE ConversationLog ---------------------------
(***************************************************************************)
(* What a stored conversation promises: it is a log of exchanges.  Each    *)
(* exchange is added at the end, whole, once; nothing that has been read   *)
(* from the log ever moves or disappears.                                  *)
(***************************************************************************)
EXTENDS Integers, Sequences

CONSTANTS Conv, Message
VARIABLE log

Init == log = [c \in Conv |-> << >>]

(* An exchange: at least the reply, and the reply comes last. *)
Append1(c, exchange) ==
  /\ exchange # << >>
  /\ exchange[Len(exchange)].role = "assistant"
  /\ log' = [log EXCEPT ![c] = @ \o exchange]

IsExtension(old, new) == Len(new) >= Len(old) /\ SubSeq(new, 1, Len(old)) = old

Next ==
  \E c \in Conv :
    /\ IsExtension(log[c], log'[c])
    /\ Append1(c, SubSeq(log'[c], Len(log[c]) + 1, Len(log'[c])))

Spec == Init /\ [][Next]_log
=============================================================================
