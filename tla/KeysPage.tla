------------------------------ MODULE KeysPage ------------------------------
(***************************************************************************)
(* The page that lists and revokes API keys (app/dashboard/keys/page.tsx): *)
(* its React state, the requests it awaits, and the keys at the server,    *)
(* which other administrators revoke too.  Functions of the page run to    *)
(* their next await; a click is possible when what it is on is rendered    *)
(* and enabled.  Keys are told apart by whether they are revoked.          *)
(***************************************************************************)
EXTENDS FiniteSets

CONSTANTS
  Key,
  Load,     \* calls of load that may be under way at once, each with one GET
  Delete,   \* calls of confirmRevoke likewise, each with one DELETE
  Others,   \* whether there are other administrators
  Faults    \* "net", "lostAck", "db", "auth"

None == "none"

ASSUME PageAssumption ==
  /\ Load # {} /\ None \notin Key \cup Load
  /\ Others \in BOOLEAN
  /\ Faults \subseteq {"net", "lostAck", "db", "auth"}

NoLoad == [stage |-> "idle", answer |-> None, revoked |-> {}]
NoDelete == [stage |-> "idle", key |-> None, answer |-> None, load |-> None]
NoNotice == [kind |-> None, key |-> None]

VARIABLES
  revoked,      \* the keys revoked at the server
  view,         \* state: loading, error, or ready with a list
  confirming,   \* the key in the dialog, or None
  revoking,
  notice,       \* "Revoked k." or "k was already revoked."
  actionError,  \* the key of "Could not revoke k.", or None
  loads, deletes,
  page          \* shown; leaving, once redirected to /login; gone

stateVars == << view, confirming, revoking, notice, actionError >>
vars == << revoked, view, confirming, revoking, notice, actionError, loads, deletes, page >>

DeleteSet ==
  [stage : {"idle", "sent", "answered", "reloading"}, key : Key \cup {None},
   answer : {None, "204", "401", "404", "failed"}, load : Load \cup {None}]

TypeOK ==
  /\ revoked \subseteq Key
  /\ view \in [status : {"loading", "error", "ready"}, revoked : SUBSET Key]
  /\ confirming \in Key \cup {None}
  /\ revoking \in BOOLEAN
  /\ notice \in [kind : {"revoked", "already"}, key : Key] \cup {NoNotice}
  /\ actionError \in Key \cup {None}
  /\ loads \in [Load -> [stage : {"idle", "sent", "answered"},
                         answer : {None, "200", "401", "failed"}, revoked : SUBSET Key]]
  /\ deletes \in [Delete -> DeleteSet]
  /\ page \in {"shown", "leaving", "gone"}

(* load, up to its await. *)
Sent(l) == loads' = [loads EXCEPT ![l].stage = "sent"]
Loading == [status |-> "loading", revoked |-> {}]

(* The page is mounted: useEffect has called load. *)
Init ==
  /\ revoked \in SUBSET Key
  /\ view = Loading
  /\ confirming = None /\ revoking = FALSE
  /\ notice = NoNotice /\ actionError = None
  /\ \E l \in Load : loads = [k \in Load |-> IF k = l THEN [NoLoad EXCEPT !.stage = "sent"] ELSE NoLoad]
  /\ deletes = [d \in Delete |-> NoDelete]
  /\ page = "shown"

Live == page # "gone"

-----------------------------------------------------------------------------
(* The server. *)

(* List: every key, with its revocation. *)
ServerLists(l) ==
  /\ loads[l].stage = "sent"
  /\ \/ loads' = [loads EXCEPT ![l] = [stage |-> "answered", answer |-> "200", revoked |-> revoked]]
     \/ /\ Faults \cap {"net", "db", "lostAck"} # {}
        /\ loads' = [loads EXCEPT ![l].stage = "answered", ![l].answer = "failed"]
     \/ /\ "auth" \in Faults
        /\ loads' = [loads EXCEPT ![l].stage = "answered", ![l].answer = "401"]
  /\ UNCHANGED << revoked, stateVars, deletes, page >>

Answered(d, answer) == deletes' = [deletes EXCEPT ![d].stage = "answered", ![d].answer = answer]

(* Revoke: the key is revoked and the answer arrives or is lost, or it had *)
(* been revoked already.                                                   *)
ServerRevokes(d) ==
  /\ deletes[d].stage = "sent"
  /\ revoked' = revoked \cup {deletes[d].key}
  /\ \/ Answered(d, IF deletes[d].key \in revoked THEN "404" ELSE "204")
     \/ "lostAck" \in Faults /\ Answered(d, "failed")
  /\ UNCHANGED << stateVars, loads, page >>

ServerRefuses(d) ==
  /\ deletes[d].stage = "sent"
  /\ \/ Faults \cap {"net", "db"} # {} /\ Answered(d, "failed")
     \/ "auth" \in Faults /\ Answered(d, "401")
  /\ UNCHANGED << revoked, stateVars, loads, page >>

OtherRevokes(k) ==
  /\ Others
  /\ k \notin revoked
  /\ revoked' = revoked \cup {k}
  /\ UNCHANGED << stateVars, loads, deletes, page >>

-----------------------------------------------------------------------------
(* The user. *)

(* Retry, below "Could not load API keys." *)
Retry(l) ==
  /\ Live /\ view.status = "error"
  /\ loads[l].stage = "idle"
  /\ Sent(l)
  /\ view' = Loading
  /\ UNCHANGED << revoked, confirming, revoking, notice, actionError, deletes, page >>

(* Revoke, in the row of an active key; the table stays while the dialog   *)
(* is open and while a revocation is awaited.                              *)
StartRevoke(k) ==
  /\ Live /\ view.status = "ready" /\ k \notin view.revoked
  /\ notice' = NoNotice /\ actionError' = None
  /\ confirming' = k
  /\ UNCHANGED << revoked, view, revoking, loads, deletes, page >>

(* Mutant: The buttons of the dialog not disabled. *)
DialogAlwaysEnabled ==
  Live /\ confirming # None

(* The buttons of the dialog. *)
DialogEnabled == Live /\ confirming # None /\ ~ revoking

Cancel ==
  /\ DialogEnabled
  /\ confirming' = None
  /\ UNCHANGED << revoked, view, revoking, notice, actionError, loads, deletes, page >>

(* confirmRevoke, up to its first await. *)
ConfirmRevoke(d) ==
  /\ DialogEnabled
  /\ deletes[d].stage = "idle"
  /\ deletes' = [deletes EXCEPT ![d].stage = "sent", ![d].key = confirming]
  /\ revoking' = TRUE /\ actionError' = None
  /\ UNCHANGED << revoked, view, confirming, notice, loads, page >>

(* A link to another page, or the redirect to /login takes effect. *)
Leave ==
  /\ Live
  /\ page' = "gone"
  /\ UNCHANGED << revoked, stateVars, loads, deletes >>

-----------------------------------------------------------------------------
(* Answers arrive. *)

(* confirmRevoke awaits load l: when it returns, finally runs. *)
Awaited(l) == {d \in Delete : deletes[d].stage = "reloading" /\ deletes[d].load = l}

(* Mutant: confirmRevoke without its finally. *)
NothingAfterLoad(l) ==
  UNCHANGED << deletes, revoking >>

AfterLoad(l) ==
  /\ deletes' = [d \in Delete |-> IF d \in Awaited(l) THEN NoDelete ELSE deletes[d]]
  /\ revoking' = (revoking /\ Awaited(l) = {})

(* load, after its await: the list, an error, or the redirect. *)
Show(l) ==
  \/ loads[l].answer = "200" /\ view' = [status |-> "ready", revoked |-> loads[l].revoked] /\ UNCHANGED page
  \/ loads[l].answer = "401" /\ page' = "leaving" /\ UNCHANGED view
  \/ loads[l].answer = "failed" /\ view' = [status |-> "error", revoked |-> {}] /\ UNCHANGED page

LoadEnds(l) ==
  /\ Live /\ loads[l].stage = "answered"
  /\ loads' = [loads EXCEPT ![l] = NoLoad]
  /\ Show(l)
  /\ AfterLoad(l)
  /\ UNCHANGED << revoked, confirming, notice, actionError >>

(* Mutant: The list not loaded again after a 404. *)
ReloadUnlessGone(d, l, kind) ==
  /\ confirming' = None
  /\ notice' = [kind |-> kind, key |-> deletes[d].key]
  /\ IF kind = "revoked"
     THEN /\ loads[l].stage = "idle" /\ Sent(l) /\ view' = Loading
          /\ deletes' = [deletes EXCEPT ![d].stage = "reloading", ![d].load = l]
          /\ UNCHANGED revoking
     ELSE /\ deletes' = [deletes EXCEPT ![d] = NoDelete]
          /\ revoking' = FALSE
          /\ UNCHANGED << loads, view >>

(* Mutant: The dialog left open when the key is revoked. *)
ReloadBehindDialog(d, l, kind) ==
  /\ notice' = [kind |-> kind, key |-> deletes[d].key]
  /\ loads[l].stage = "idle" /\ Sent(l) /\ view' = Loading
  /\ deletes' = [deletes EXCEPT ![d].stage = "reloading", ![d].load = l]
  /\ UNCHANGED << revoking, confirming >>

(* The notice, and load again. *)
Reload(d, l, kind) ==
  /\ confirming' = None
  /\ notice' = [kind |-> kind, key |-> deletes[d].key]
  /\ loads[l].stage = "idle" /\ Sent(l) /\ view' = Loading
  /\ deletes' = [deletes EXCEPT ![d].stage = "reloading", ![d].load = l]
  /\ UNCHANGED revoking

RevokeEnds(d) ==
  /\ Live /\ deletes[d].stage = "answered"
  /\ \E l \in Load :
       \/ deletes[d].answer = "204" /\ Reload(d, l, "revoked")
       \/ deletes[d].answer = "404" /\ Reload(d, l, "already")
  /\ UNCHANGED << revoked, actionError, page >>

(* 401: redirected, the dialog stays open until the page is gone. *)
RevokeUnauthorized(d) ==
  /\ Live /\ deletes[d].stage = "answered" /\ deletes[d].answer = "401"
  /\ deletes' = [deletes EXCEPT ![d] = NoDelete]
  /\ revoking' = FALSE
  /\ page' = "leaving"
  /\ UNCHANGED << revoked, view, confirming, notice, actionError, loads >>

RevokeFails(d) ==
  /\ Live /\ deletes[d].stage = "answered" /\ deletes[d].answer = "failed"
  /\ deletes' = [deletes EXCEPT ![d] = NoDelete]
  /\ revoking' = FALSE
  /\ confirming' = None
  /\ actionError' = deletes[d].key
  /\ UNCHANGED << revoked, view, notice, loads, page >>

Server ==
  \/ \E l \in Load : ServerLists(l)
  \/ \E d \in Delete : ServerRevokes(d) \/ ServerRefuses(d)
Answers ==
  \/ \E l \in Load : LoadEnds(l)
  \/ \E d \in Delete : RevokeEnds(d) \/ RevokeUnauthorized(d) \/ RevokeFails(d)
User ==
  \/ \E l \in Load : Retry(l)
  \/ \E k \in Key : StartRevoke(k)
  \/ \E d \in Delete : ConfirmRevoke(d)
  \/ Cancel \/ Leave

Done == page = "gone" /\ UNCHANGED vars

Next == Server \/ Answers \/ User \/ (\E k \in Key : OtherRevokes(k)) \/ Done

Spec == Init /\ [][Next]_vars

(* Requests are answered or fail, the page goes on when they do, and a     *)
(* redirect takes effect.  The user need not do anything.                  *)
Fairness == WF_vars(Server) /\ WF_vars(Answers) /\ WF_vars(page = "leaving" /\ Leave)
FairSpec == Spec /\ Fairness

-----------------------------------------------------------------------------
InFlight(call) == call.stage \in {"sent", "answered"}

(* The page awaits one request at a time: an older list never arrives over *)
(* a newer one, and no key is revoked by two requests at once, although    *)
(* the table stays clickable while a revocation is awaited and the list    *)
(* can be asked for again after an error.                                  *)
OneRequest ==
  /\ \A l, m \in Load : InFlight(loads[l]) /\ InFlight(loads[m]) => l = m
  /\ \A d, e \in Delete : InFlight(deletes[d]) /\ InFlight(deletes[e]) => d = e
  /\ \A l \in Load, d \in Delete : ~ (InFlight(loads[l]) /\ InFlight(deletes[d]))

(* The page says that a key is, or was already, revoked only when it is,   *)
(* and no list shown below that notice has the key as active; also when    *)
(* another administrator, or a request whose answer was lost, was first.   *)
NoticeIsTrue ==
  (Live /\ notice # NoNotice) =>
    /\ notice.key \in revoked
    /\ view.status = "ready" => notice.key \in view.revoked

(* The dialog asks about a key that the table behind it shows as active:   *)
(* no answer that arrives meanwhile changes or hides the table under it.   *)
DialogMatchesTable ==
  (Live /\ confirming # None) => view.status = "ready" /\ confirming \notin view.revoked

(* The page does not stay loading, or with its buttons disabled. *)
PageSettles ==
  (view.status = "loading" \/ revoking) ~> ((view.status # "loading" /\ ~ revoking) \/ page = "gone")

(* The inductive invariant: a load hides the table and the dialog, and     *)
(* ends with what the server had after every revocation the page has told  *)
(* of; confirmRevoke runs under revoking, in front of the table or waiting *)
(* for its load.                                                           *)
LoadsHideTable ==
  /\ \A l, m \in Load : loads[l].stage # "idle" /\ loads[m].stage # "idle" => l = m
  /\ \A l \in Load : loads[l].stage # "idle" => view.status = "loading"
  /\ \A l \in Load : loads[l].stage # "answered" => loads[l].answer = None
DeletesUnderRevoking ==
  /\ \A d, e \in Delete : deletes[d].stage # "idle" /\ deletes[e].stage # "idle" => d = e
  /\ \A d \in Delete :
       /\ deletes[d].stage # "idle" => revoking /\ deletes[d].key \in Key
       /\ InFlight(deletes[d]) => view.status = "ready"
       /\ deletes[d].answer \in {"204", "404"} => deletes[d].key \in revoked
       /\ deletes[d].stage = "reloading" =>
            deletes[d].load \in Load /\ loads[deletes[d].load].stage # "idle"
DialogOverTable == confirming # None => view.status = "ready" /\ confirming \notin view.revoked
NoticeHolds ==
  notice # NoNotice =>
    /\ notice.key \in revoked
    /\ view.status = "ready" => notice.key \in view.revoked
    /\ \A l \in Load : loads[l].answer = "200" => notice.key \in loads[l].revoked
PageInv == TypeOK /\ LoadsHideTable /\ DeletesUnderRevoking /\ DialogOverTable /\ NoticeHolds
=============================================================================
