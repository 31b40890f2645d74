---------------------------- MODULE TurnContract ----------------------------
(***************************************************************************)
(* What the gateway promises about a chat turn, seen by a caller and by    *)
(* whoever reads the store: an exchange is attempted at most once, it is   *)
(* stored at most once and only after it was attempted, and the verdict a  *)
(* turn is given agrees with the store.                                    *)
(*   "saved"   the exchange is in the store when the verdict is given      *)
(*   "failed"  the model failed, the caller left or the call was refused:  *)
(*             nothing was attempted, and nothing is stored later          *)
(*   "unsaved" the save was reported to have failed: the exchange may be   *)
(*             in the store all the same, now or later                     *)
(***************************************************************************)
CONSTANT Turn
VARIABLES attempted, stored, verdict

vars == << attempted, stored, verdict >>

Init ==
  /\ attempted = [t \in Turn |-> FALSE]
  /\ stored = [t \in Turn |-> FALSE]
  /\ verdict = [t \in Turn |-> "none"]

Attempt(t) ==
  /\ ~ attempted[t] /\ verdict[t] = "none"
  /\ attempted' = [attempted EXCEPT ![t] = TRUE]
  /\ UNCHANGED << stored, verdict >>

Store(t) ==
  /\ attempted[t] /\ ~ stored[t] /\ verdict[t] \in {"none", "unsaved"}
  /\ stored' = [stored EXCEPT ![t] = TRUE]
  /\ UNCHANGED << attempted, verdict >>

Give(t, v) == verdict[t] = "none" /\ verdict' = [verdict EXCEPT ![t] = v]

Saved(t) == stored[t] /\ Give(t, "saved") /\ UNCHANGED << attempted, stored >>
Failed(t) == ~ attempted[t] /\ Give(t, "failed") /\ UNCHANGED << attempted, stored >>
Unsaved(t) == Give(t, "unsaved") /\ UNCHANGED << attempted, stored >>

Next == \E t \in Turn : Attempt(t) \/ Store(t) \/ Saved(t) \/ Failed(t) \/ Unsaved(t)

Spec == Init /\ [][Next]_vars
=============================================================================
