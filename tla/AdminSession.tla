---------------------------- MODULE AdminSession ----------------------------
(***************************************************************************)
(* How an administrator gets in and out: the createsuperuser command over  *)
(* the users table, the login handler and its token, RequireAdmin, and the *)
(* browser, which keeps two things: the HttpOnly cookie with the token,    *)
(* and the session record in localStorage by which the pages decide what   *)
(* to show.  All tabs of the browser share both.                           *)
(*                                                                         *)
(* An account is named by its email; rows of users are never deleted and   *)
(* an email never changes.  Call is one request of the browser, from the   *)
(* click to the end of the function that awaits it.  A hash is the         *)
(* password it was made from: bcrypt matches that password and no other.   *)
(***************************************************************************)
EXTENDS Naturals, Sequences, FiniteSets

CONSTANTS
  Email, Password,
  Hashable,  \* the passwords of a length that HashPassword accepts
  Existing,  \* accounts there are before the behaviour starts
  Run,       \* runs of createsuperuser
  Args,      \* their arguments
  Login,     \* the credentials entered in the login form
  Tab, Call,
  TTL,       \* the life of a token
  MaxTime,   \* bound on the clock
  Faults     \* "db", "lostAck" (as for AdminKeys), "limit" (429), "net", "body"

None == "none"

ASSUME SessionAssumption ==
  /\ IsFiniteSet(Run) /\ IsFiniteSet(Call)
  /\ Hashable \subseteq Password /\ Hashable # {}
  /\ Existing \subseteq Email /\ None \notin Email \cup Password
  /\ Args \subseteq [email : Email, pw : Password, update : BOOLEAN]
  /\ Login \subseteq [email : Email, pw : Password]
  /\ TTL \in Nat \ {0} /\ MaxTime \in Nat
  /\ Faults \subseteq {"db", "lostAck", "limit", "net", "body"}

NoToken == [sub |-> None, exp |-> 0]
Token == [sub : Email, exp : Nat] \cup {NoToken}
NoRun == [pc |-> "idle", email |-> None, pw |-> None, update |-> FALSE]
NoCall == [kind |-> None, tab |-> None, email |-> None, pw |-> None,
           token |-> NoToken, hash |-> None, stage |-> "idle", status |-> 0]

VARIABLES
  clock,
  users,    \* the password hash of each account, or None
  runs,     \* runs of createsuperuser: arguments and how far they are
  cookie,   \* the token the browser sends
  session,  \* the email in localStorage, or None
  page,     \* what each tab shows
  calls,
  writes,   \* auxiliary: the runs that wrote each account, in order
  seen      \* auxiliary: the passwords in force since each login was sent

dbVars == << users, runs, writes >>
uiVars == << cookie, session, page >>
vars == << clock, users, runs, cookie, session, page, calls, writes, seen >>

TypeOK ==
  /\ clock \in 0..MaxTime
  /\ users \in [Email -> Hashable \cup {None}]
  /\ runs \in [Run -> [pc : {"idle", "create", "get", "update", "created", "updated", "exists", "failed"},
                       email : Email \cup {None}, pw : Password \cup {None}, update : BOOLEAN]]
  /\ cookie \in Token
  /\ session \in Email \cup {None}
  /\ page \in [Tab -> {"login", "dashboard"}]
  /\ calls \in [Call -> [kind : {None, "login", "logout", "list", "halfway"}, tab : Tab \cup {None},
                         email : Email \cup {None}, pw : Password \cup {None},
                         token : Token, hash : Hashable \cup {None},
                         stage : {"idle", "sent", "loaded", "answered", "headers", "done"},
                         status : {0, 200, 401, 404, 429, 500}]]
  /\ writes \in [Email -> Seq(Run)]
  /\ seen \in [Call -> SUBSET (Hashable \cup {None})]

Init ==
  /\ clock = 0
  /\ users = [e \in Email |-> IF e \in Existing THEN CHOOSE p \in Hashable : TRUE ELSE None]
  /\ runs = [r \in Run |-> NoRun]
  /\ cookie = NoToken
  /\ session = None
  /\ page = [t \in Tab |-> "login"]
  /\ calls = [c \in Call |-> NoCall]
  /\ writes = [e \in Email |-> << >>]
  /\ seen = [c \in Call |-> {}]

Tick ==
  /\ clock < MaxTime
  /\ clock' = clock + 1
  /\ UNCHANGED << dbVars, uiVars, calls, seen >>

-----------------------------------------------------------------------------
(* The createsuperuser command. *)

RunGoes(r, from, to) == runs[r].pc = from /\ runs' = [runs EXCEPT ![r].pc = to]

(* A statement that was done is reported so, or its answer is lost. *)
Told(r, from, to) == RunGoes(r, from, to) \/ ("lostAck" \in Faults /\ RunGoes(r, from, "failed"))

(* run up to HashPassword, which refuses a password too short or too long. *)
StartRun(r) ==
  /\ runs[r].pc = "idle"
  /\ \E a \in Args :
       runs' = [runs EXCEPT ![r] = [pc |-> IF a.pw \in Hashable THEN "create" ELSE "failed",
                                    email |-> a.email, pw |-> a.pw, update |-> a.update]]
  /\ UNCHANGED << clock, users, writes, uiVars, calls, seen >>

(* The hash of the run is the account's, from this moment. *)
Write(r) ==
  LET e == runs[r].email IN
  /\ users' = [users EXCEPT ![e] = runs[r].pw]
  /\ writes' = [writes EXCEPT ![e] = Append(@, r)]
  /\ seen' = [c \in Call |-> IF calls[c].email = e THEN seen[c] \cup {runs[r].pw} ELSE seen[c]]

(* Create: INSERT, which fails if the email is taken. *)
Create(r) ==
  /\ runs[r].pc = "create" /\ users[runs[r].email] = None
  /\ Told(r, "create", "created")
  /\ Write(r)
  /\ UNCHANGED << clock, uiVars, calls >>

(* Mutant: The flag -update-password is not looked at. *)
EmailTakenAnyway(r) ==
  /\ runs[r].pc = "create" /\ users[runs[r].email] # None
  /\ RunGoes(r, "create", "get")
  /\ UNCHANGED << clock, users, writes, uiVars, calls, seen >>

EmailTaken(r) ==
  /\ runs[r].pc = "create" /\ users[runs[r].email] # None
  /\ RunGoes(r, "create", IF runs[r].update THEN "get" ELSE "exists")
  /\ UNCHANGED << clock, users, writes, uiVars, calls, seen >>

(* GetByEmail: the row is there, rows are not deleted. *)
GetExisting(r) ==
  /\ RunGoes(r, "get", "update")
  /\ UNCHANGED << clock, users, writes, uiVars, calls, seen >>

UpdatePassword(r) ==
  /\ Told(r, "update", "updated")
  /\ Write(r)
  /\ UNCHANGED << clock, uiVars, calls >>

(* A statement fails, or the 30 s are over. *)
RunFails(r) ==
  /\ "db" \in Faults
  /\ runs[r].pc \in {"create", "get", "update"}
  /\ RunGoes(r, runs[r].pc, "failed")
  /\ UNCHANGED << clock, users, writes, uiVars, calls, seen >>

RunStep(r) ==
  \/ StartRun(r) \/ Create(r) \/ EmailTaken(r) \/ GetExisting(r) \/ UpdatePassword(r) \/ RunFails(r)

-----------------------------------------------------------------------------
(* What the user does. *)

Pending(kind, t) == \E c \in Call : calls[c].kind = kind /\ calls[c].tab = t /\ calls[c].stage # "done"

Send(c, call) ==
  /\ calls[c].stage = "idle"
  /\ calls' = [calls EXCEPT ![c] = [call EXCEPT !.stage = "sent"]]

(* A page is opened or reloaded: /login as it is, the dashboard behind     *)
(* useRequireAuth, which reads the session when the layout is mounted.     *)
(* Only when the tab awaits nothing: a document that is thrown away drops  *)
(* what it awaits, with nothing done.                                      *)
Open(t) ==
  /\ \/ page' = [page EXCEPT ![t] = "login"]
     \/ page' = [page EXCEPT ![t] = IF session = None THEN "login" ELSE "dashboard"]
  /\ \A c \in Call : calls[c].tab = t => calls[c].stage \in {"idle", "done"}
  /\ UNCHANGED << clock, dbVars, cookie, session, calls, seen >>

(* handleSubmit of the login page; the form is disabled meanwhile. *)
SubmitLogin(c) ==
  /\ \E t \in Tab, x \in Login :
       /\ page[t] = "login" /\ ~ Pending("login", t)
       /\ Send(c, [NoCall EXCEPT !.kind = "login", !.tab = t, !.email = x.email, !.pw = x.pw])
       /\ seen' = [seen EXCEPT ![c] = {users[x.email]}]
  /\ UNCHANGED << clock, dbVars, uiVars >>

(* A page of the dashboard calls a protected endpoint. *)
Browse(c) ==
  /\ \E t \in Tab :
       /\ page[t] = "dashboard"
       /\ Send(c, [NoCall EXCEPT !.kind = "list", !.tab = t, !.token = cookie])
  /\ UNCHANGED << clock, dbVars, uiVars, seen >>

(* The logout button; nothing is cleared before the POST has ended. *)
ClickLogout(c) ==
  /\ \E t \in Tab :
       /\ page[t] = "dashboard"
       /\ Send(c, [NoCall EXCEPT !.kind = "logout", !.tab = t])
  /\ UNCHANGED << clock, dbVars, uiVars, seen >>

-----------------------------------------------------------------------------
(* The server. *)

Answer(c, status, token) ==
  calls' = [calls EXCEPT ![c].stage = "answered", ![c].status = status, ![c].token = token]

At(c, kind, stage) == calls[c].kind = kind /\ calls[c].stage = stage

(* The login limiter, or a failed query. *)
LoginUnavailable(c) ==
  /\ At(c, "login", "sent")
  /\ \/ "limit" \in Faults /\ Answer(c, 429, NoToken)
     \/ "db" \in Faults /\ Answer(c, 500, NoToken)
  /\ UNCHANGED << clock, dbVars, uiVars, seen >>

UnknownEmail(c) ==
  /\ At(c, "login", "sent") /\ users[calls[c].email] = None
  /\ Answer(c, 401, NoToken)
  /\ UNCHANGED << clock, dbVars, uiVars, seen >>

GetByEmail(c) ==
  /\ At(c, "login", "sent") /\ users[calls[c].email] # None
  /\ calls' = [calls EXCEPT ![c].stage = "loaded", ![c].hash = users[calls[c].email]]
  /\ UNCHANGED << clock, dbVars, uiVars, seen >>

(* Mutant: The error of VerifyPassword checked, its result not. *)
VerifyAny(c) ==
  TRUE

(* VerifyPassword, on the row as it was loaded. *)
Verify(c) == calls[c].pw = calls[c].hash

(* Issue: the token names the account and ends TTL after the login. *)
Issue(c) == [sub |-> calls[c].email, exp |-> clock + TTL]

LoginAnswers(c) ==
  /\ At(c, "login", "loaded")
  /\ IF Verify(c) THEN Answer(c, 200, Issue(c)) ELSE Answer(c, 401, NoToken)
  /\ UNCHANGED << clock, dbVars, uiVars, seen >>

Parse(token) == token # NoToken /\ clock < token.exp

(* authenticate: the cookie the request came with, if any. *)
Authenticate(c) == Parse(calls[c].token)

(* RequireAdmin and the handler behind it. *)
ListAnswers(c) ==
  /\ At(c, "list", "sent")
  /\ \E s \in IF Authenticate(c) THEN {200} \cup {500 : x \in Faults \cap {"db"}} ELSE {401} :
       Answer(c, s, calls[c].token)
  /\ UNCHANGED << clock, dbVars, uiVars, seen >>

(* The server has no route for /api/admin/logout. *)
LogoutAnswers(c) ==
  /\ At(c, "logout", "sent")
  /\ Answer(c, 404, NoToken)
  /\ UNCHANGED << clock, dbVars, uiVars, seen >>

-----------------------------------------------------------------------------
(* The browser gets the answer. *)

(* apiFetch: a request that gets no answer, wherever it was lost. *)
Lose(c) ==
  /\ "net" \in Faults
  /\ calls[c].stage \in {"sent", "loaded"} \/ (calls[c].stage = "answered" /\ calls[c].status # 0)
  /\ Answer(c, 0, NoToken)
  /\ UNCHANGED << clock, dbVars, uiVars, seen >>

End(c) == calls' = [calls EXCEPT ![c] = [NoCall EXCEPT !.stage = "done"]]

(* The headers of a login: the browser stores the cookie. *)
Headers(c) ==
  /\ At(c, "login", "answered") /\ calls[c].status = 200
  /\ cookie' = calls[c].token
  /\ calls' = [calls EXCEPT ![c].stage = "headers"]
  /\ UNCHANGED << clock, dbVars, session, page, seen >>

(* Mutant: login that records the account the page had before. *)
LoginKeepsSession(c) ==
  /\ At(c, "login", "headers")
  /\ session' = IF session = None THEN calls[c].email ELSE session
  /\ page' = [page EXCEPT ![calls[c].tab] = "dashboard"]
  /\ End(c)
  /\ UNCHANGED << clock, dbVars, cookie, seen >>

(* login: setSession with the account in the body, then the dashboard. *)
LoginEnds(c) ==
  /\ At(c, "login", "headers")
  /\ session' = calls[c].email
  /\ page' = [page EXCEPT ![calls[c].tab] = "dashboard"]
  /\ End(c)
  /\ UNCHANGED << clock, dbVars, cookie, seen >>

(* The page shows an error and stays; also when the body of a 200 is lost, *)
(* after its cookie was stored.                                            *)
LoginErrs(c) ==
  /\ \/ At(c, "login", "answered") /\ calls[c].status # 200 /\ End(c)
     \/ At(c, "login", "headers") /\ "body" \in Faults
        /\ calls' = [calls EXCEPT ![c] = [NoCall EXCEPT !.kind = "halfway", !.stage = "done"]]
  /\ UNCHANGED << clock, dbVars, uiVars, seen >>

SignOut(c) ==
  /\ session' = None
  /\ page' = [page EXCEPT ![calls[c].tab] = "login"]

(* Mutant: logout whose POST is not in a try: the 404 ends it. *)
LogoutGivesUp(c) ==
  /\ At(c, "logout", "answered")
  /\ IF calls[c].status = 200 THEN SignOut(c) ELSE UNCHANGED << session, page >>
  /\ End(c)
  /\ UNCHANGED << clock, dbVars, cookie, seen >>

(* logout and useLogout: whatever the POST came to. *)
LogoutEnds(c) ==
  /\ At(c, "logout", "answered")
  /\ SignOut(c)
  /\ End(c)
  /\ UNCHANGED << clock, dbVars, cookie, seen >>

(* useAuthErrorRedirect: a 401 signs out, nothing else does. *)
ListEnds(c) ==
  /\ At(c, "list", "answered")
  /\ IF calls[c].status = 401 THEN SignOut(c) ELSE UNCHANGED << session, page >>
  /\ End(c)
  /\ UNCHANGED << clock, dbVars, cookie, seen >>

ServerStep(c) ==
  LoginUnavailable(c) \/ UnknownEmail(c) \/ GetByEmail(c) \/ LoginAnswers(c) \/ ListAnswers(c) \/ LogoutAnswers(c)
BrowserStep(c) ==
  Headers(c) \/ LoginEnds(c) \/ LoginErrs(c) \/ LogoutEnds(c) \/ ListEnds(c)

Next ==
  \/ Tick
  \/ \E r \in Run : RunStep(r)
  \/ \E t \in Tab : Open(t)
  \/ \E c \in Call :
       \/ SubmitLogin(c) \/ Browse(c) \/ ClickLogout(c)
       \/ ServerStep(c) \/ Lose(c) \/ BrowserStep(c)

Spec == Init /\ [][Next]_vars

(* Requests are answered or lost, and a tab goes on when its await ends;   *)
(* the user need not do anything.                                          *)
Fairness == \A c \in Call : WF_vars(ServerStep(c) \/ Lose(c)) /\ WF_vars(BrowserStep(c))
FairSpec == Spec /\ Fairness

-----------------------------------------------------------------------------
(* A login succeeds only with a password that was the account's at some    *)
(* moment since it was sent, although the row is read well before the      *)
(* answer: once createsuperuser has reported a reset, no login that starts *)
(* afterwards gets in with the old password, nor one with the password of  *)
(* a run that failed without writing.                                      *)
LoginProvesPassword ==
  \A c \in Call : (calls[c].kind = "login" /\ calls[c].status = 200) => calls[c].pw \in seen[c]

(* What createsuperuser prints is what it did, however runs for one email  *)
(* interleave, fail or lose answers: one at most creates the account, and  *)
(* it was the first to write it; a reset was written over an account that  *)
(* existed; a run that refuses has written nothing; and no run without     *)
(* -update-password ever replaces a password ("By default the command      *)
(* refuses to touch an existing account").  The password in force is the   *)
(* one written last.                                                       *)
ReportIsTrue ==
  \A e \in Email \ Existing :
    LET w == writes[e]
        Wrote(r, from) == \E i \in from..Len(w) : w[i] = r
        Of(pc) == {r \in Run : runs[r].email = e /\ runs[r].pc = pc}
    IN  /\ \A r \in Of("created") : Len(w) > 0 /\ w[1] = r
        /\ \A r \in Of("updated") : Wrote(r, 2)
        /\ \A i \in 2..Len(w) : runs[w[i]].update
        /\ \A r \in Of("exists") : users[e] # None /\ ~ Wrote(r, 1)
        /\ w # << >> => users[e] = runs[w[Len(w)]].pw

(* The account the pages show is the one the cookie names: session.ts is   *)
(* "the single source of truth for the admin UI's auth state".  Logging    *)
(* out, or a late 401, may leave a cookie without a session, never the     *)
(* session of another account; only a login cut between its headers and    *)
(* its body, or a second tab, can leave that.                              *)
SessionNamesCookie ==
  (session # None /\ \A c \in Call : ~ At(c, "login", "headers") /\ calls[c].kind # "halfway")
    => cookie.sub = session

(* "Always clears the local session": a click on Log out ends at the login *)
(* page with no session, although the server has no such endpoint and the  *)
(* request may be lost.  "An authenticated request whose cookie is missing *)
(* or expired comes back 401, at which point callers clear the session": a *)
(* tab that sends a request with a token that has expired ends there too,  *)
(* unless the request is lost.                                             *)
SignsOut ==
  \A c \in Call, t \in Tab :
    /\ (calls[c].kind = "logout" /\ calls[c].tab = t) ~> (session = None /\ page[t] = "login")
    /\ (At(c, "list", "sent") /\ calls[c].tab = t /\ clock >= calls[c].token.exp)
         ~> \/ session = None /\ page[t] = "login"
            \/ At(c, "list", "answered") /\ calls[c].status = 0
=============================================================================
