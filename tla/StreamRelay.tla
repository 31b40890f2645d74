---------------------------- MODULE StreamRelay ----------------------------
(***************************************************************************)
(* relayStream and the end of streamChat (internal/gateway/stream.go):     *)
(* the upstream's event stream is copied line by line to the caller while  *)
(* the reply is rebuilt in memory, and the rebuilt reply is saved when     *)
(* [DONE] has passed.  A line is what the code tells apart: the text of a  *)
(* content delta, "meta" for a data line without content (the role chunk,  *)
(* JSON that does not parse), "fault" for an error object of the model,    *)
(* "done", "note" for a line that is not data, and "blank" for the empty   *)
(* line that ends an event.                                                *)
(*                                                                         *)
(* The caller reads the stream as server-sent events: an event is the      *)
(* lines up to an empty line, and one that is not ended is dropped.  It    *)
(* rebuilds the reply, as CONNECTING.md tells it to, from the content of   *)
(* the events in order.                                                    *)
(***************************************************************************)
EXTENDS Sequences, Naturals

CONSTANTS Text, MaxLines

Data == Text \cup {"meta", "fault", "done"}
Line == Data \cup {"note", "blank"}
Frame == {"event_session", "session", "event_error", "error"}

ASSUME RelayAssumption ==
  MaxLines \in Nat /\ Text \cap ({"meta", "fault", "done", "note", "blank"} \cup Frame) = {}

VARIABLES
  out,     \* the lines written to the caller
  caller,  \* what its parser has made of them: "reply" and "reports" of the model's
           \* errors from whole events, "text" and "fault" of the event under way
  content, \* the reply rebuilt so far
  gone,    \* the request's context has ended
  phase,   \* "reading", "saving" or "ended"
  faults,  \* auxiliary: the error objects read
  stored   \* the replies saved: none, or one

relayVars == << out, caller, content, gone, phase, faults, stored >>

SessionFrame == << "event_session", "session", "blank" >>
ErrorFrame == << "event_error", "error", "blank" >>

RelayTypeOK ==
  /\ out \in Seq(Line \cup Frame)
  /\ caller \in [reply : Seq(Text), reports : Nat, text : Seq(Text), fault : Nat]
  /\ content \in Seq(Text)
  /\ gone \in BOOLEAN
  /\ faults \in Nat
  /\ phase \in {"reading", "saving", "ended"}
  /\ stored \in SUBSET Seq(Text)

(* writeSSESession, before the first line of the body. *)
RelayInit ==
  /\ out = SessionFrame
  /\ caller = [reply |-> << >>, reports |-> 0, text |-> << >>, fault |-> 0]
  /\ content = << >>
  /\ gone = FALSE /\ faults = 0
  /\ phase = "reading"
  /\ stored = {}

(* The caller's parser: what it makes of a line; an empty one dispatches   *)
(* the event under way.                                                    *)
Hear(c, l) ==
  [reply   |-> IF l = "blank" THEN c.reply \o c.text ELSE c.reply,
   reports |-> IF l = "blank" THEN c.reports + c.fault ELSE c.reports,
   text    |-> IF l = "blank" THEN << >> ELSE IF l \in Text THEN Append(c.text, l) ELSE c.text,
   fault   |-> IF l = "blank" THEN 0 ELSE IF l = "fault" THEN c.fault + 1 ELSE c.fault]

(* A frame of the gateway, if there is one, is three lines. *)
HearFrame(c, f) == IF f = << >> THEN c ELSE Hear(Hear(Hear(c, f[1]), f[2]), f[3])

Last == out[Len(out)]

(* The upstream is well framed: one line to an event, then an empty line. *)
Framed(l) == (l = "blank") <=> (Last # "blank")

(* sseData and deltaContent of a line that was written. *)
Collect(l) ==
  content' = IF l \in Text THEN Append(content, l) ELSE content

Relay(l) ==
  /\ phase = "reading" /\ Len(out) < MaxLines /\ Framed(l)
  /\ out' = Append(out, l) /\ caller' = Hear(caller, l)
  /\ Collect(l)
  /\ phase' = IF l = "done" THEN "saving" ELSE "reading"
  /\ faults' = IF l = "fault" THEN faults + 1 ELSE faults
  /\ UNCHANGED << gone, stored >>

(* Mutant: No error frame for a cut stream. *)
CutSilently ==
  << >>

(* The error frame is written only while the caller is there. *)
CutFrame == IF gone THEN << >> ELSE ErrorFrame

(* The body ends inside a line: the frame is closed with two newlines.  A  *)
(* data line cut short is no longer JSON.                                  *)
RelayPartial(l) ==
  /\ phase = "reading" /\ Len(out) < MaxLines /\ Framed(l) /\ l # "blank"
  /\ Collect(l)
  /\ LET frame == IF l = "done" THEN << >> ELSE CutFrame
     IN  /\ out' = out \o << l, "blank" >> \o frame
         /\ caller' = HearFrame(Hear(Hear(caller, l), "blank"), frame)
  /\ phase' = IF l = "done" THEN "saving" ELSE "ended"
  /\ UNCHANGED << gone, faults, stored >>

(* Mutant: The end of the body taken for [DONE]. *)
RelayEndSaves ==
  /\ phase = "reading"
  /\ phase' = "saving"
  /\ UNCHANGED << out, caller, content, gone, faults, stored >>

(* The body ends, or reading it fails, between two lines. *)
RelayEnd ==
  /\ phase = "reading"
  /\ out' = out \o CutFrame /\ caller' = HearFrame(caller, CutFrame)
  /\ phase' = "ended"
  /\ UNCHANGED << content, gone, faults, stored >>

(* PersistExchange of the rebuilt reply. *)
Save ==
  /\ phase = "saving"
  /\ stored' = {content}
  /\ phase' = "ended"
  /\ UNCHANGED << out, caller, content, gone, faults >>

SaveFails ==
  /\ phase = "saving"
  /\ out' = out \o ErrorFrame /\ caller' = HearFrame(caller, ErrorFrame)
  /\ phase' = "ended"
  /\ UNCHANGED << content, gone, faults, stored >>

Leave ==
  /\ phase = "reading" /\ ~ gone
  /\ gone' = TRUE
  /\ UNCHANGED << out, caller, content, phase, faults, stored >>

Returned == phase = "ended" /\ UNCHANGED relayVars

RelayNext ==
  \/ \E l \in Line : Relay(l) \/ RelayPartial(l)
  \/ RelayEnd \/ Save \/ SaveFails \/ Leave \/ Returned

RelaySpec == RelayInit /\ [][RelayNext]_relayVars

-----------------------------------------------------------------------------
(* What is stored is what the caller rebuilt from the events it got: the   *)
(* frames without content, the notes and the framing change nothing, and   *)
(* the reply of a stream that was cut is never stored.                     *)
StoredIsRebuilt ==
  /\ \A reply \in stored : reply = caller.reply /\ \E i \in 1..Len(out) : out[i] = "done"
  /\ phase = "saving" => content = caller.reply

(* A caller that stays is always told how its stream ended, once: by the   *)
(* [DONE] line of a saved reply or by an error frame, and nothing follows. *)
(* When the model reported an error and then sent [DONE], which is saved   *)
(* as a complete reply, the caller has got the report as an event.         *)
EndIsTold ==
  phase = "ended" =>
    LET errors == {i \in 1..Len(out) : out[i] = "event_error"}
    IN  /\ stored # {} => errors = {}
        /\ (stored = {} /\ ~ gone) => errors = {Len(out) - 2}
        /\ ~ gone => caller.reports >= faults
=============================================================================
