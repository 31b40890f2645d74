--------------------------- MODULE KeysPageProofs ---------------------------
(***************************************************************************)
(* The keys page for every set of keys, whatever other administrators do   *)
(* and whichever requests fail.                                            *)
(***************************************************************************)
EXTENDS KeysPage, TLAPS

(* The record of a DELETE stays one when its reload is noted. *)
LEMMA ReloadingIsDelete ==
  ASSUME NEW r \in DeleteSet, NEW l \in Load
  PROVE  [r EXCEPT !.stage = "reloading", !.load = l] \in DeleteSet
BY Zenon DEF DeleteSet

LEMMA InitPage == Init => PageInv
<1> SUFFICES ASSUME Init PROVE PageInv
  OBVIOUS
<1> USE PageAssumption DEF Init, NoLoad, NoDelete, NoNotice, Loading, None, InFlight, DeleteSet
<1>1. PICK l \in Load :
        loads = [k \in Load |-> IF k = l THEN [NoLoad EXCEPT !.stage = "sent"] ELSE NoLoad]
  OBVIOUS
<1>2. TypeOK
  BY <1>1 DEF TypeOK
<1>3. LoadsHideTable
  BY <1>1 DEF LoadsHideTable
<1>4. DeletesUnderRevoking /\ DialogOverTable /\ NoticeHolds
  BY DEF DeletesUnderRevoking, DialogOverTable, NoticeHolds
<1> QED
  BY <1>2, <1>3, <1>4 DEF PageInv

LEMMA ServerListsKeepsPage ==
  ASSUME PageInv, NEW l \in Load, ServerLists(l) PROVE PageInv'
<1> USE PageAssumption DEF PageInv, ServerLists, stateVars, NoLoad, NoDelete, NoNotice, None, InFlight, DeleteSet
<1>1. TypeOK'
  BY DEF TypeOK, LoadsHideTable, DeletesUnderRevoking, DialogOverTable, NoticeHolds
<1>2. LoadsHideTable'
  BY DEF TypeOK, LoadsHideTable, DeletesUnderRevoking, DialogOverTable, NoticeHolds
<1>3. DeletesUnderRevoking'
  BY DEF TypeOK, LoadsHideTable, DeletesUnderRevoking, DialogOverTable, NoticeHolds
<1>4. DialogOverTable'
  BY DEF TypeOK, LoadsHideTable, DeletesUnderRevoking, DialogOverTable, NoticeHolds
<1>5. NoticeHolds'
  BY DEF TypeOK, LoadsHideTable, DeletesUnderRevoking, DialogOverTable, NoticeHolds
<1> QED
  BY <1>1, <1>2, <1>3, <1>4, <1>5

LEMMA ServerRevokesKeepsPage ==
  ASSUME PageInv, NEW d \in Delete, ServerRevokes(d) PROVE PageInv'
<1> USE PageAssumption DEF PageInv, ServerRevokes, Answered, stateVars, NoLoad, NoDelete, NoNotice, None, InFlight, DeleteSet
<1>1. TypeOK'
  BY DEF TypeOK, LoadsHideTable, DeletesUnderRevoking, DialogOverTable, NoticeHolds
<1>2. LoadsHideTable'
  BY DEF TypeOK, LoadsHideTable, DeletesUnderRevoking, DialogOverTable, NoticeHolds
<1>3. DeletesUnderRevoking'
  <2>1. /\ deletes[d].stage = "sent" /\ revoked' = revoked \cup {deletes[d].key}
        /\ UNCHANGED << view, revoking, loads >>
    OBVIOUS
  <2>2. /\ deletes'[d].stage = "answered" /\ deletes'[d].key = deletes[d].key
        /\ \A e \in Delete \ {d} : deletes'[e] = deletes[e]
    BY DEF TypeOK
  <2>3. \A e, f \in Delete : deletes'[e].stage # "idle" /\ deletes'[f].stage # "idle" => e = f
    BY <2>1, <2>2 DEF DeletesUnderRevoking
  <2>4. ASSUME NEW e \in Delete \ {d}
        PROVE  /\ deletes'[e].stage # "idle" => revoking' /\ deletes'[e].key \in Key
               /\ InFlight(deletes'[e]) => view'.status = "ready"
               /\ deletes'[e].answer \in {"204", "404"} => deletes'[e].key \in revoked'
               /\ deletes'[e].stage = "reloading" =>
                    deletes'[e].load \in Load /\ loads'[deletes'[e].load].stage # "idle"
    BY <2>1, <2>2 DEF DeletesUnderRevoking
  <2>5. /\ revoking' /\ deletes'[d].key \in Key /\ deletes'[d].key \in revoked'
        /\ view'.status = "ready"
    BY <2>1, <2>2 DEF DeletesUnderRevoking
  <2> QED
    BY <2>2, <2>3, <2>4, <2>5 DEF DeletesUnderRevoking
<1>4. DialogOverTable'
  BY DEF TypeOK, LoadsHideTable, DeletesUnderRevoking, DialogOverTable, NoticeHolds
<1>5. NoticeHolds'
  BY DEF TypeOK, LoadsHideTable, DeletesUnderRevoking, DialogOverTable, NoticeHolds
<1> QED
  BY <1>1, <1>2, <1>3, <1>4, <1>5

LEMMA ServerRefusesKeepsPage ==
  ASSUME PageInv, NEW d \in Delete, ServerRefuses(d) PROVE PageInv'
<1> USE PageAssumption DEF PageInv, ServerRefuses, Answered, stateVars, NoLoad, NoDelete, NoNotice, None, InFlight, DeleteSet
<1>1. TypeOK'
  BY DEF TypeOK, LoadsHideTable, DeletesUnderRevoking, DialogOverTable, NoticeHolds
<1>2. LoadsHideTable'
  BY DEF TypeOK, LoadsHideTable, DeletesUnderRevoking, DialogOverTable, NoticeHolds
<1>3. DeletesUnderRevoking'
  BY DEF TypeOK, LoadsHideTable, DeletesUnderRevoking, DialogOverTable, NoticeHolds
<1>4. DialogOverTable'
  BY DEF TypeOK, LoadsHideTable, DeletesUnderRevoking, DialogOverTable, NoticeHolds
<1>5. NoticeHolds'
  BY DEF TypeOK, LoadsHideTable, DeletesUnderRevoking, DialogOverTable, NoticeHolds
<1> QED
  BY <1>1, <1>2, <1>3, <1>4, <1>5

LEMMA OtherRevokesKeepsPage ==
  ASSUME PageInv, NEW k \in Key, OtherRevokes(k) PROVE PageInv'
<1> USE PageAssumption DEF PageInv, OtherRevokes, stateVars, NoLoad, NoDelete, NoNotice, None, InFlight, DeleteSet
<1>1. TypeOK'
  BY DEF TypeOK, LoadsHideTable, DeletesUnderRevoking, DialogOverTable, NoticeHolds
<1>2. LoadsHideTable'
  BY DEF TypeOK, LoadsHideTable, DeletesUnderRevoking, DialogOverTable, NoticeHolds
<1>3. DeletesUnderRevoking'
  BY DEF TypeOK, LoadsHideTable, DeletesUnderRevoking, DialogOverTable, NoticeHolds
<1>4. DialogOverTable'
  BY DEF TypeOK, LoadsHideTable, DeletesUnderRevoking, DialogOverTable, NoticeHolds
<1>5. NoticeHolds'
  BY DEF TypeOK, LoadsHideTable, DeletesUnderRevoking, DialogOverTable, NoticeHolds
<1> QED
  BY <1>1, <1>2, <1>3, <1>4, <1>5

LEMMA RetryKeepsPage ==
  ASSUME PageInv, NEW l \in Load, Retry(l) PROVE PageInv'
<1> USE PageAssumption DEF PageInv, Retry, Sent, Loading, Live, stateVars, NoLoad, NoDelete, NoNotice, None, InFlight, DeleteSet
<1>1. TypeOK'
  BY DEF TypeOK, LoadsHideTable, DeletesUnderRevoking, DialogOverTable, NoticeHolds
<1>2. LoadsHideTable'
  BY DEF TypeOK, LoadsHideTable, DeletesUnderRevoking, DialogOverTable, NoticeHolds
<1>3. DeletesUnderRevoking'
  BY DEF TypeOK, LoadsHideTable, DeletesUnderRevoking, DialogOverTable, NoticeHolds
<1>4. DialogOverTable'
  BY DEF TypeOK, LoadsHideTable, DeletesUnderRevoking, DialogOverTable, NoticeHolds
<1>5. NoticeHolds'
  BY DEF TypeOK, LoadsHideTable, DeletesUnderRevoking, DialogOverTable, NoticeHolds
<1> QED
  BY <1>1, <1>2, <1>3, <1>4, <1>5

LEMMA StartRevokeKeepsPage ==
  ASSUME PageInv, NEW k \in Key, StartRevoke(k) PROVE PageInv'
<1> USE PageAssumption DEF PageInv, StartRevoke, stateVars, NoLoad, NoDelete, NoNotice, None, InFlight, DeleteSet
<1>1. TypeOK'
  BY DEF TypeOK, LoadsHideTable, DeletesUnderRevoking, DialogOverTable, NoticeHolds
<1>2. LoadsHideTable'
  BY DEF TypeOK, LoadsHideTable, DeletesUnderRevoking, DialogOverTable, NoticeHolds
<1>3. DeletesUnderRevoking'
  BY DEF TypeOK, LoadsHideTable, DeletesUnderRevoking, DialogOverTable, NoticeHolds
<1>4. DialogOverTable'
  BY DEF TypeOK, LoadsHideTable, DeletesUnderRevoking, DialogOverTable, NoticeHolds
<1>5. NoticeHolds'
  BY DEF TypeOK, LoadsHideTable, DeletesUnderRevoking, DialogOverTable, NoticeHolds
<1> QED
  BY <1>1, <1>2, <1>3, <1>4, <1>5

LEMMA CancelKeepsPage ==
  ASSUME PageInv, Cancel PROVE PageInv'
<1> USE PageAssumption DEF PageInv, Cancel, stateVars, NoLoad, NoDelete, NoNotice, None, InFlight, DeleteSet
<1>1. TypeOK'
  BY DEF TypeOK, LoadsHideTable, DeletesUnderRevoking, DialogOverTable, NoticeHolds
<1>2. LoadsHideTable'
  BY DEF TypeOK, LoadsHideTable, DeletesUnderRevoking, DialogOverTable, NoticeHolds
<1>3. DeletesUnderRevoking'
  BY DEF TypeOK, LoadsHideTable, DeletesUnderRevoking, DialogOverTable, NoticeHolds
<1>4. DialogOverTable'
  BY DEF TypeOK, LoadsHideTable, DeletesUnderRevoking, DialogOverTable, NoticeHolds
<1>5. NoticeHolds'
  BY DEF TypeOK, LoadsHideTable, DeletesUnderRevoking, DialogOverTable, NoticeHolds
<1> QED
  BY <1>1, <1>2, <1>3, <1>4, <1>5

LEMMA ConfirmKeepsPage ==
  ASSUME PageInv, NEW d \in Delete, ConfirmRevoke(d) PROVE PageInv'
<1> USE PageAssumption DEF PageInv, ConfirmRevoke, DialogEnabled, stateVars, NoLoad, NoDelete, NoNotice, None, InFlight, DeleteSet
<1>1. TypeOK'
  <2>1. [deletes[d] EXCEPT !.stage = "sent", !.key = confirming] \in DeleteSet
    BY DEF TypeOK
  <2>2. deletes' = [deletes EXCEPT ![d] = [deletes[d] EXCEPT !.stage = "sent", !.key = confirming]]
    BY DEF TypeOK
  <2>3. deletes' \in [Delete -> DeleteSet]
    BY <2>1, <2>2 DEF TypeOK
  <2> QED
    BY <2>3 DEF TypeOK
<1>2. LoadsHideTable'
  BY DEF TypeOK, LoadsHideTable, DeletesUnderRevoking, DialogOverTable, NoticeHolds
<1>3. DeletesUnderRevoking'
  BY DEF TypeOK, LoadsHideTable, DeletesUnderRevoking, DialogOverTable, NoticeHolds
<1>4. DialogOverTable'
  BY DEF TypeOK, LoadsHideTable, DeletesUnderRevoking, DialogOverTable, NoticeHolds
<1>5. NoticeHolds'
  BY DEF TypeOK, LoadsHideTable, DeletesUnderRevoking, DialogOverTable, NoticeHolds
<1> QED
  BY <1>1, <1>2, <1>3, <1>4, <1>5

LEMMA LeaveKeepsPage ==
  ASSUME PageInv, Leave PROVE PageInv'
<1> USE PageAssumption DEF PageInv, Leave, stateVars, NoLoad, NoDelete, NoNotice, None, InFlight, DeleteSet
<1>1. TypeOK'
  BY DEF TypeOK, LoadsHideTable, DeletesUnderRevoking, DialogOverTable, NoticeHolds
<1>2. LoadsHideTable'
  BY DEF TypeOK, LoadsHideTable, DeletesUnderRevoking, DialogOverTable, NoticeHolds
<1>3. DeletesUnderRevoking'
  BY DEF TypeOK, LoadsHideTable, DeletesUnderRevoking, DialogOverTable, NoticeHolds
<1>4. DialogOverTable'
  BY DEF TypeOK, LoadsHideTable, DeletesUnderRevoking, DialogOverTable, NoticeHolds
<1>5. NoticeHolds'
  BY DEF TypeOK, LoadsHideTable, DeletesUnderRevoking, DialogOverTable, NoticeHolds
<1> QED
  BY <1>1, <1>2, <1>3, <1>4, <1>5

LEMMA LoadEndsKeepsPage ==
  ASSUME PageInv, NEW l \in Load, LoadEnds(l) PROVE PageInv'
<1> USE PageAssumption DEF PageInv, LoadEnds, Show, AfterLoad, Awaited, stateVars, NoLoad, NoDelete, NoNotice, None, InFlight, DeleteSet
<1>1. TypeOK'
  BY DEF TypeOK, LoadsHideTable, DeletesUnderRevoking, DialogOverTable, NoticeHolds
<1>2. LoadsHideTable'
  BY DEF TypeOK, LoadsHideTable, DeletesUnderRevoking, DialogOverTable, NoticeHolds
<1>3. DeletesUnderRevoking'
  BY DEF TypeOK, LoadsHideTable, DeletesUnderRevoking, DialogOverTable, NoticeHolds
<1>4. DialogOverTable'
  BY DEF TypeOK, LoadsHideTable, DeletesUnderRevoking, DialogOverTable, NoticeHolds
<1>5. NoticeHolds'
  BY DEF TypeOK, LoadsHideTable, DeletesUnderRevoking, DialogOverTable, NoticeHolds
<1> QED
  BY <1>1, <1>2, <1>3, <1>4, <1>5

LEMMA RevokeEndsKeepsPage ==
  ASSUME PageInv, NEW d \in Delete, RevokeEnds(d) PROVE PageInv'
<1> USE PageAssumption DEF PageInv, NoLoad, NoDelete, NoNotice, None, InFlight, DeleteSet
<1>1. PICK l \in Load, kind \in {"revoked", "already"} :
        Reload(d, l, kind) /\ deletes[d].answer \in {"204", "404"}
  BY DEF RevokeEnds
<1>2. deletes[d].stage = "answered" /\ UNCHANGED << revoked, actionError, page, revoking >>
  BY <1>1 DEF RevokeEnds, Reload
<1>3. /\ view.status = "ready" /\ revoking
      /\ deletes[d].key \in Key /\ deletes[d].key \in revoked
      /\ \A m \in Load : loads[m].stage = "idle" /\ loads[m].answer = None
  BY <1>1, <1>2 DEF TypeOK, LoadsHideTable, DeletesUnderRevoking
<1>4. /\ confirming' = None /\ notice' = [kind |-> kind, key |-> deletes[d].key]
      /\ view' = Loading /\ loads' = [loads EXCEPT ![l].stage = "sent"]
      /\ deletes' = [deletes EXCEPT ![d].stage = "reloading", ![d].load = l]
  BY <1>1 DEF Reload, Sent
<1>5. TypeOK'
  <2>1. [deletes[d] EXCEPT !.stage = "reloading", !.load = l] \in DeleteSet
    <3>1. deletes[d] \in DeleteSet
      BY DEF TypeOK
    <3> QED BY <3>1, ReloadingIsDelete
  <2>2. deletes' = [deletes EXCEPT ![d] = [deletes[d] EXCEPT !.stage = "reloading", !.load = l]]
    BY <1>4 DEF TypeOK
  <2>3. deletes' \in [Delete -> DeleteSet]
    BY <2>1, <2>2 DEF TypeOK
  <2> QED
    BY <2>3, <1>2, <1>3, <1>4 DEF TypeOK, Loading
<1>6. LoadsHideTable'
  BY <1>3, <1>4 DEF TypeOK, LoadsHideTable, Loading
<1>7. DeletesUnderRevoking'
  BY <1>2, <1>3, <1>4 DEF TypeOK, DeletesUnderRevoking
<1>8. DialogOverTable' /\ NoticeHolds'
  BY <1>2, <1>3, <1>4 DEF TypeOK, DialogOverTable, NoticeHolds, Loading
<1> QED
  BY <1>5, <1>6, <1>7, <1>8

LEMMA RevokeUnauthorizedKeepsPage ==
  ASSUME PageInv, NEW d \in Delete, RevokeUnauthorized(d) PROVE PageInv'
<1> USE PageAssumption DEF PageInv, RevokeUnauthorized, stateVars, NoLoad, NoDelete, NoNotice, None, InFlight, DeleteSet
<1>1. TypeOK'
  BY DEF TypeOK, LoadsHideTable, DeletesUnderRevoking, DialogOverTable, NoticeHolds
<1>2. LoadsHideTable'
  BY DEF TypeOK, LoadsHideTable, DeletesUnderRevoking, DialogOverTable, NoticeHolds
<1>3. DeletesUnderRevoking'
  BY DEF TypeOK, LoadsHideTable, DeletesUnderRevoking, DialogOverTable, NoticeHolds
<1>4. DialogOverTable'
  BY DEF TypeOK, LoadsHideTable, DeletesUnderRevoking, DialogOverTable, NoticeHolds
<1>5. NoticeHolds'
  BY DEF TypeOK, LoadsHideTable, DeletesUnderRevoking, DialogOverTable, NoticeHolds
<1> QED
  BY <1>1, <1>2, <1>3, <1>4, <1>5

LEMMA RevokeFailsKeepsPage ==
  ASSUME PageInv, NEW d \in Delete, RevokeFails(d) PROVE PageInv'
<1> USE PageAssumption DEF PageInv, RevokeFails, stateVars, NoLoad, NoDelete, NoNotice, None, InFlight, DeleteSet
<1>1. TypeOK'
  BY DEF TypeOK, LoadsHideTable, DeletesUnderRevoking, DialogOverTable, NoticeHolds
<1>2. LoadsHideTable'
  BY DEF TypeOK, LoadsHideTable, DeletesUnderRevoking, DialogOverTable, NoticeHolds
<1>3. DeletesUnderRevoking'
  BY DEF TypeOK, LoadsHideTable, DeletesUnderRevoking, DialogOverTable, NoticeHolds
<1>4. DialogOverTable'
  BY DEF TypeOK, LoadsHideTable, DeletesUnderRevoking, DialogOverTable, NoticeHolds
<1>5. NoticeHolds'
  BY DEF TypeOK, LoadsHideTable, DeletesUnderRevoking, DialogOverTable, NoticeHolds
<1> QED
  BY <1>1, <1>2, <1>3, <1>4, <1>5

(* The inductive invariant of the page holds in every behaviour. *)
THEOREM PageCorrect == Spec => []PageInv
<1>1. PageInv /\ [Next]_vars => PageInv'
  <2> SUFFICES ASSUME PageInv, [Next]_vars PROVE PageInv'
    OBVIOUS
  <2>1. CASE Server
    BY <2>1, ServerListsKeepsPage, ServerRevokesKeepsPage, ServerRefusesKeepsPage DEF Server
  <2>2. CASE Answers
    BY <2>2, LoadEndsKeepsPage, RevokeEndsKeepsPage, RevokeUnauthorizedKeepsPage, RevokeFailsKeepsPage DEF Answers
  <2>3. CASE User
    BY <2>3, RetryKeepsPage, StartRevokeKeepsPage, CancelKeepsPage, ConfirmKeepsPage, LeaveKeepsPage DEF User
  <2>4. CASE \E k \in Key : OtherRevokes(k)
    BY <2>4, OtherRevokesKeepsPage
  <2>5. CASE UNCHANGED vars
    BY <2>5 DEF vars, PageInv, TypeOK, LoadsHideTable, DeletesUnderRevoking, DialogOverTable, NoticeHolds, InFlight
  <2> QED
    BY <2>1, <2>2, <2>3, <2>4, <2>5 DEF Next, Done
<1> QED
  BY <1>1, InitPage, PTL DEF Spec

(* The page never awaits two requests at once, so no list or revocation    *)
(* can be overtaken by another, for any number of keys and calls.          *)
THEOREM AwaitsOneRequest == Spec => []OneRequest
<1>1. PageInv => OneRequest
  BY DEF PageInv, OneRequest, LoadsHideTable, DeletesUnderRevoking, InFlight
<1> QED
  BY <1>1, PageCorrect, PTL

(* What the page says of a revocation is true, and the list below agrees. *)
THEOREM NoticesAreTrue == Spec => []NoticeIsTrue
<1>1. PageInv => NoticeIsTrue
  BY DEF PageInv, NoticeIsTrue, NoticeHolds
<1> QED
  BY <1>1, PageCorrect, PTL

(* The dialog is over a table that shows its key as active. *)
THEOREM DialogsMatchTable == Spec => []DialogMatchesTable
<1>1. PageInv => DialogMatchesTable
  BY DEF PageInv, DialogMatchesTable, DialogOverTable
<1> QED
  BY <1>1, PageCorrect, PTL
=============================================================================
