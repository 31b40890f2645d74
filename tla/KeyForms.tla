------------------------------ MODULE KeyForms ------------------------------
(***************************************************************************)
(* The pages that create and edit an API key (app/dashboard/keys/new and   *)
(* [id]/edit) in one browser tab, over the admin endpoints of AdminKeys,   *)
(* which other administrators and scripts use at the same time.            *)
(*                                                                         *)
(* A visit is one mounting of a page.  Its functions run to their next     *)
(* await; a click is possible when what it is on is rendered and enabled.  *)
(* What an await returns to a page that was left changes no state of it,   *)
(* but the router is the tab's: a push or replace still navigates.         *)
(* Reads of the list are one step with the arrival of their answer.        *)
(***************************************************************************)
EXTENDS AdminKeys

CONSTANTS
  PageRequest, \* the requests of the tab; the others are other clients'
  Visit,
  Typed    \* what is typed: a name and a persona

None == "none"
KeysPage == "/dashboard/keys"
Login == "/login"

ASSUME FormsAssumption ==
  /\ {None, KeysPage, Login} \cap Visit = {} /\ None \notin Request
  /\ PageRequest \subseteq Request
  /\ Typed \subseteq [name : Label \cup {Blank}, persona : Label \cup {Blank}]

VARIABLES
  at,    \* where the tab is: a visit, or another page
  form,  \* the React state of each visit
  by,    \* the visit that sent a request; None for another client's
  told   \* how the await of a page's request ended

pageVars == << at, form, by, told >>
formVars == << vars, pageVars >>

FormSet ==
  [page : {None, "new", "edit", "left"}, key : Key, name : Label \cup {Blank}, persona : Label \cup {Blank},
   view : {None, "loading", "notfound", "error", "form", "created"}, error : {None, "name", "failed"},
   submitting : BOOLEAN, req : Request \cup {None}, created : Key \cup {None}, copied : BOOLEAN]

Unopened ==
  [page |-> None, key |-> Unknown, name |-> Blank, persona |-> Blank, view |-> None, error |-> None,
   submitting |-> FALSE, req |-> None, created |-> None, copied |-> FALSE]

FormsTypeOK ==
  /\ TypeOK
  /\ at \in Visit \cup {KeysPage, Login}
  /\ form \in [Visit -> FormSet]
  /\ by \in [Request -> Visit \cup {None}]
  /\ told \in [Request -> {None, "201", "200", "401", "failed"}]

FormsInit ==
  /\ Init
  /\ at = KeysPage
  /\ form = [v \in Visit |-> Unopened]
  /\ by = [r \in Request |-> None]
  /\ told = [r \in Request |-> None]

(* Requests are interchangeable, and so are visits: the next one is any    *)
(* that is unused.                                                         *)
Unused(R) == {r \in R : pc[r] = "idle"}
Fresh(R) == CHOOSE r \in Unused(R) : TRUE
NextVisit == CHOOSE v \in Visit : form[v].page = None

-----------------------------------------------------------------------------
(* The user. *)

OpenNew(v) ==
  /\ at = KeysPage /\ form[v].page = None /\ v = NextVisit
  /\ at' = v
  /\ form' = [form EXCEPT ![v].page = "new", ![v].view = "form"]
  /\ UNCHANGED << vars, by, told >>

(* The Edit link of a row, or an address typed in; useEffect calls load. *)
OpenEdit(v, k) ==
  /\ at = KeysPage /\ form[v].page = None /\ v = NextVisit
  /\ Exists(k) \/ k = Unknown
  /\ at' = v
  /\ form' = [form EXCEPT ![v].page = "edit", ![v].key = k, ![v].view = "loading"]
  /\ UNCHANGED << vars, by, told >>

RetryLoad(v) ==
  /\ at = v /\ form[v].view = "error"
  /\ form' = [form EXCEPT ![v].view = "loading"]
  /\ UNCHANGED << vars, at, by, told >>

(* Mutant: The submit button without disabled={submitting}. *)
ClickableAlways(v) ==
  at = v /\ form[v].view = "form"

(* The submit button and the inputs are disabled while submitting. *)
Clickable(v) == at = v /\ form[v].view = "form" /\ ~ form[v].submitting

(* Mutant: The inputs without disabled={submitting}. *)
EditableAlways(v) ==
  at = v /\ form[v].view = "form"

Editable(v) == at = v /\ form[v].view = "form" /\ ~ form[v].submitting

Type(v, t) ==
  /\ Editable(v)
  /\ form' = [form EXCEPT ![v].name = t.name, ![v].persona = t.persona]
  /\ UNCHANGED << vars, at, by, told >>

SubmitBlank(v) ==
  /\ Clickable(v) /\ form[v].name = Blank
  /\ form' = [form EXCEPT ![v].error = "name"]
  /\ UNCHANGED << vars, at, by, told >>

(* A new key's blank persona is sent as null; an edit sends what is there. *)
Body(f) ==
  IF f.page = "new"
  THEN [kind |-> "create", key |-> Unknown, name |-> f.name,
        persona |-> IF f.persona = Blank THEN Omitted ELSE f.persona]
  ELSE [kind |-> "patch", key |-> f.key, name |-> f.name, persona |-> f.persona]

(* handleSubmit, up to its await. *)
Submit(v) ==
  /\ Clickable(v) /\ form[v].name # Blank
  /\ Unused(PageRequest) # {}
  /\ LET r == Fresh(PageRequest)
     IN  /\ Receive(r, Body(form[v]))
         /\ by' = [by EXCEPT ![r] = v]
         /\ form' = [form EXCEPT ![v].error = None, ![v].submitting = TRUE, ![v].req = r]
  /\ UNCHANGED << at, told >>

(* copySecret, which the browser may refuse. *)
Copy(v, ok) ==
  /\ at = v /\ form[v].view = "created"
  /\ form' = [form EXCEPT ![v].copied = ok]
  /\ UNCHANGED << vars, at, by, told >>

(* What React keeps of a page that is left: nothing.  What it awaits goes  *)
(* on: a load, and in by and told its requests.                            *)
Unmounted(f) ==
  [Unopened EXCEPT !.page = "left", !.view = IF f.view = "loading" THEN "loading" ELSE None]

(* Mutant: done without setCreated(null), on a page that the router keeps. *)
DismissKeeping(v) ==
  /\ at = v /\ form[v].view = "created"
  /\ at' = KeysPage
  /\ UNCHANGED << vars, form, by, told >>

(* done *)
Dismiss(v) ==
  /\ at = v /\ form[v].view = "created"
  /\ form' = [form EXCEPT ![v] = Unmounted(@)]
  /\ at' = KeysPage
  /\ UNCHANGED << vars, by, told >>

(* Cancel, enabled at all times, or the browser's Back. *)
Leave(v) ==
  /\ at = v
  /\ at' = KeysPage
  /\ form' = [form EXCEPT ![v] = Unmounted(@)]
  /\ UNCHANGED << vars, by, told >>

(* Revoke on the list, whose page is the module KeysPage. *)
RevokeOnList(k) ==
  /\ at = KeysPage /\ Exists(k) /\ Unused(PageRequest) # {}
  /\ Receive(Fresh(PageRequest), [kind |-> "revoke", key |-> k, name |-> Omitted, persona |-> Omitted])
  /\ UNCHANGED pageVars

SignIn ==
  /\ at = Login
  /\ at' = KeysPage
  /\ UNCHANGED << vars, form, by, told >>

-----------------------------------------------------------------------------
(* What the awaits return. *)

(* useAuthErrorRedirect, router.push and router.replace: whatever page the *)
(* tab shows is unmounted.                                                 *)
Navigate(to) ==
  /\ at' = to
  /\ form' = [v \in Visit |-> IF v = at THEN Unmounted(form[v]) ELSE form[v]]

(* The dashboard's guard sends a tab without a session back to /login. *)
Dashboard == IF at = Login THEN Login ELSE KeysPage

(* load: getKey looks for the key in the list; the GET may fail, or find   *)
(* the session ended.                                                      *)
Loaded(f) ==
  IF Exists(f.key)
  THEN [f EXCEPT !.view = "form", !.name = keys[f.key].name,
                 !.persona = IF keys[f.key].persona = NoPersona THEN Blank ELSE keys[f.key].persona]
  ELSE [f EXCEPT !.view = "notfound"]

LoadEnds(v) ==
  /\ form[v].view = "loading"
  /\ \/ /\ form' = [form EXCEPT ![v] = IF at = v THEN Loaded(@) ELSE [@ EXCEPT !.view = None]]
        /\ UNCHANGED at
     \/ at = v /\ form' = [form EXCEPT ![v].view = "error"] /\ UNCHANGED at
     \/ /\ at' = Login
        /\ form' = [w \in Visit |-> IF w = v THEN [Unopened EXCEPT !.page = "left"]
                                  ELSE IF w = at THEN Unmounted(form[w]) ELSE form[w]]
  /\ UNCHANGED << vars, by, told >>

Awaits(v, r) == by[r] = v /\ told[r] = None

(* Mutant: The catch of handleSubmit without setSubmitting(false). *)
SubmitFailsBusy(v, r) ==
  /\ Awaits(v, r)
  /\ (pc[r] = "done" /\ resp[r] \in {"400", "404", "500"}) \/ "net" \in Faults[r]
  /\ told' = [told EXCEPT ![r] = "failed"]
  /\ form' = IF at = v THEN [form EXCEPT ![v].error = "failed"] ELSE form
  /\ UNCHANGED << vars, at, by >>

(* The await of handleSubmit throws: the answer is an error, or there is   *)
(* none while the request is done or goes on at the server.                *)
SubmitFails(v, r) ==
  /\ Awaits(v, r)
  /\ (pc[r] = "done" /\ resp[r] \in {"400", "404", "500"}) \/ "net" \in Faults[r]
  /\ told' = [told EXCEPT ![r] = "failed"]
  /\ form' = IF at = v THEN [form EXCEPT ![v].error = "failed", ![v].submitting = FALSE] ELSE form
  /\ UNCHANGED << vars, at, by >>

SubmitUnauthorized(v, r) ==
  /\ Awaits(v, r) /\ pc[r] = "done" /\ resp[r] = "401"
  /\ told' = [told EXCEPT ![r] = "401"]
  /\ Navigate(Login)
  /\ UNCHANGED << vars, by >>

(* The key is created: the panel with its secret, if the page is there. *)
CreateEnds(v, r) ==
  /\ Awaits(v, r) /\ pc[r] = "done" /\ resp[r] = "201"
  /\ told' = [told EXCEPT ![r] = "201"]
  /\ form' = IF at = v
             THEN [form EXCEPT ![v].view = "created", ![v].submitting = FALSE, ![v].created = shown[r]]
             ELSE form
  /\ UNCHANGED << vars, at, by >>

(* The edit is stored: back to the list, from wherever the tab is. *)
SaveEnds(v, r) ==
  /\ Awaits(v, r) /\ pc[r] = "done" /\ resp[r] = "200"
  /\ told' = [told EXCEPT ![r] = "200"]
  /\ Navigate(Dashboard)
  /\ UNCHANGED << vars, by >>

SubmitEnds(v, r) ==
  SubmitFails(v, r) \/ SubmitUnauthorized(v, r) \/ CreateEnds(v, r) \/ SaveEnds(v, r)

-----------------------------------------------------------------------------
OtherSends(o) ==
  /\ Unused(Request \ PageRequest) # {} /\ Receive(Fresh(Request \ PageRequest), o)
  /\ UNCHANGED pageVars

Served(r) == Handle(r) /\ UNCHANGED pageVars

User(v) ==
  \/ OpenNew(v) \/ (\E k \in Key : OpenEdit(v, k)) \/ RetryLoad(v)
  \/ (\E t \in Typed : Type(v, t)) \/ SubmitBlank(v) \/ Submit(v)
  \/ (\E ok \in BOOLEAN : Copy(v, ok)) \/ Dismiss(v) \/ Leave(v)

(* The tab is back on the list and every visit and request is used up. *)
AtRest ==
  /\ at = KeysPage /\ \A v \in Visit : form[v].page = "left"
  /\ \A r \in Request : pc[r] = "done"
  /\ UNCHANGED formVars

FormsNext ==
  \/ \E v \in Visit : User(v) \/ LoadEnds(v) \/ \E r \in Request : SubmitEnds(v, r)
  \/ SignIn \/ (\E k \in Key : RevokeOnList(k))
  \/ \E o \in Op : OtherSends(o)
  \/ \E r \in Request : Served(r)
  \/ AtRest

FormsSpec == FormsInit /\ [][FormsNext]_formVars

(* The server works on what it was sent, and a fetch ends. *)
FormsFairness ==
  /\ WF_formVars(\E r \in Request : Served(r))
  /\ WF_formVars(\E v \in Visit, r \in Request : SubmitEnds(v, r))
  /\ WF_formVars(\E v \in Visit : LoadEnds(v))
FairFormsSpec == FormsSpec /\ FormsFairness

-----------------------------------------------------------------------------
(* A form makes one key, however often and fast it is submitted: another   *)
(* exists only if the page was told that the first attempt had failed, and *)
(* of all the keys it made at most one has ever had its secret shown.      *)
MadeBy(v) == {r \in Request : by[r] = v /\ Exists(r)}
OneKeyPerForm ==
  \A v \in Visit :
    /\ Cardinality({r \in MadeBy(v) : told[r] # "failed"}) <= 1
    /\ Cardinality({r \in MadeBy(v) : told[r] = "201"}) <= 1

(* "Copy the secret now": a page that is told of its key shows the secret  *)
(* the key is stored with, whatever became of the tab's earlier requests,  *)
(* for as long as the tab stays on it, and nothing keeps the secret after  *)
(* that.                                                                   *)
SecretOnScreen ==
  \A v \in Visit :
    LET mine == {r \in MadeBy(v) : told[r] = "201"}
    IN  IF at = v /\ mine # {}
        THEN form[v].view = "created" /\ \A r \in mine : form[v].created = keys[r].secret
        ELSE form[v].created = None

(* What is being stored is what the form shows, so nothing typed meanwhile *)
(* is dropped with the page when the answer takes the user away from it.   *)
SaveKeepsEdits ==
  \A v \in Visit : form[v].submitting => op[form[v].req] = Body(form[v])

(* A form that is waiting and stays open goes on: to its fields, an error, *)
(* the panel or another page.                                              *)
Waiting(v) == at = v /\ (form[v].submitting \/ form[v].view = "loading")
FormSettles == \A v \in Visit : Waiting(v) ~> ~ Waiting(v)
=============================================================================
