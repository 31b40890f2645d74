------------------------- MODULE AdminSessionProofs -------------------------
(***************************************************************************)
(* What AdminSession promises, for any number of accounts, passwords, runs *)
(* of createsuperuser, calls and faults, and any life of a token.          *)
(*                                                                         *)
(* Three invariants: of the runs and the accounts they write, of a login   *)
(* between its two reads of the password, and of the browser, whose tab    *)
(* awaits one login at a time.                                             *)
(***************************************************************************)
EXTENDS AdminSession, TLAPS

-----------------------------------------------------------------------------
(* createsuperuser. *)

(* A run that goes on has a hash to store; one that is past Create found   *)
(* the email taken and was told to update.                                 *)
RunInv(r) ==
  /\ runs[r].pc \in {"create", "get", "update"} => runs[r].email \in Email /\ runs[r].pw \in Hashable
  /\ runs[r].pc \in {"get", "update"} => runs[r].update

(* An account that did not exist has been written by its runs in order:    *)
(* the first created it, the others were told to update, and the last      *)
(* one's password is in force.                                             *)
AccountInv(e) ==
  /\ \A i \in 1..Len(writes[e]) :
       runs[writes[e][i]].email = e /\ runs[writes[e][i]].pc \in {"created", "updated", "failed"}
  /\ \A i \in 2..Len(writes[e]) : runs[writes[e][i]].update
  /\ e \in Existing => users[e] # None
  /\ \A r \in Run : runs[r].email = e /\ runs[r].pc \in {"get", "update", "exists"} => users[e] # None
  /\ e \notin Existing =>
       /\ Len(writes[e]) > 0 <=> users[e] # None
       /\ Len(writes[e]) > 0 => users[e] = runs[writes[e][Len(writes[e])]].pw
       /\ \A r \in Run : runs[r].email = e =>
            /\ runs[r].pc = "created" => Len(writes[e]) > 0 /\ writes[e][1] = r
            /\ runs[r].pc = "updated" => \E i \in 2..Len(writes[e]) : writes[e][i] = r

(* A step of a run that writes nothing. *)
LEMMA RunMoves ==
  ASSUME TypeOK, NEW r \in Run, NEW e \in Email, AccountInv(e), users' = users, writes' = writes,
         \A s \in Run : s # r => runs'[s] = runs[s],
         runs[r].pc \notin {"created", "updated", "failed"},
         runs'[r].pc \notin {"created", "updated"},
         runs'[r].pc \in {"get", "update", "exists"} /\ runs'[r].email = e => users[e] # None
  PROVE  AccountInv(e)'
<1>1. writes[e] \in Seq(Run)
  BY DEF TypeOK
<1>2. \A i \in 1..Len(writes[e]) : writes[e][i] \in Run /\ writes[e][i] # r
  BY <1>1 DEF AccountInv
<1>3. \A i \in 1..Len(writes[e]) : runs'[writes[e][i]] = runs[writes[e][i]]
  BY <1>2
<1>4. Len(writes[e]) \in Nat
  BY <1>1
<1>5. /\ \A i \in 1..Len(writes[e]) :
           runs'[writes[e][i]].email = e /\ runs'[writes[e][i]].pc \in {"created", "updated", "failed"}
      /\ \A i \in 2..Len(writes[e]) : runs'[writes[e][i]].update
  BY <1>3, <1>4 DEF AccountInv
<1>6. /\ \A s \in Run : runs'[s].email = e /\ runs'[s].pc \in {"get", "update", "exists"} => users[e] # None
      /\ e \notin Existing => \A s \in Run : runs'[s].email = e =>
           /\ runs'[s].pc = "created" => Len(writes[e]) > 0 /\ writes[e][1] = s
           /\ runs'[s].pc = "updated" => \E i \in 2..Len(writes[e]) : writes[e][i] = s
  BY DEF AccountInv
<1>7. Len(writes[e]) > 0 => runs'[writes[e][Len(writes[e])]] = runs[writes[e][Len(writes[e])]]
  BY <1>3, <1>4
<1>. QED
  BY <1>5, <1>6, <1>7 DEF AccountInv

(* A run writes its account: as the first, or told to update.              *)
LEMMA RunWrites ==
  ASSUME TypeOK, NEW r \in Run, NEW e \in Email, AccountInv(e), RunInv(r), Write(r),
         \A s \in Run : s # r => runs'[s] = runs[s],
         runs'[r].email = runs[r].email, runs'[r].pw = runs[r].pw, runs'[r].update = runs[r].update,
         \/ runs[r].pc = "create" /\ users[runs[r].email] = None /\ runs'[r].pc \in {"created", "failed"}
         \/ runs[r].pc = "update" /\ runs'[r].pc \in {"updated", "failed"}
  PROVE  AccountInv(e)'
<1> USE SessionAssumption
<1>0. writes[e] \in Seq(Run) /\ writes \in [Email -> Seq(Run)] /\ users \in [Email -> Hashable \cup {None}]
      /\ Len(writes[e]) \in Nat
  BY DEF TypeOK
<1>1. runs[r].pc \in {"create", "update"}
  OBVIOUS
<1>2. ASSUME NEW i \in 1..Len(writes[e])
      PROVE  writes[e][i] \in Run /\ writes[e][i] # r
  <2>1. writes[e][i] \in Run
    BY <1>0
  <2>2. runs[writes[e][i]].pc \in {"created", "updated", "failed"}
    BY DEF AccountInv
  <2>. QED
    BY <1>1, <2>1, <2>2
<1>3. \A i \in 1..Len(writes[e]) : runs'[writes[e][i]] = runs[writes[e][i]]
  BY <1>2
<1>4. CASE e # runs[r].email
  <2>1. writes'[e] = writes[e] /\ users'[e] = users[e]
    BY <1>0, <1>4 DEF Write
  <2>2. /\ \A i \in 1..Len(writes[e]) :
             runs'[writes[e][i]].email = e /\ runs'[writes[e][i]].pc \in {"created", "updated", "failed"}
        /\ \A i \in 2..Len(writes[e]) : runs'[writes[e][i]].update
        /\ Len(writes[e]) > 0 => runs'[writes[e][Len(writes[e])]] = runs[writes[e][Len(writes[e])]]
    BY <1>0, <1>3 DEF AccountInv
  <2>3. \A s \in Run : runs'[s].email = e => s # r
    BY <1>4
  <2>. QED
    BY <2>1, <2>2, <2>3 DEF AccountInv
<1>5. CASE e = runs[r].email
  <2> DEFINE w == writes[e]
             n == Len(w) + 1
  <2>1. /\ writes'[e] = Append(w, r) /\ users'[e] = runs[r].pw /\ runs[r].pw # None
        /\ runs'[r].pc \in {"created", "updated", "failed"}
    BY <1>0, <1>5 DEF Write, RunInv
  <2>2. /\ Len(writes'[e]) = n /\ n \in Nat /\ n > 0 /\ writes'[e][n] = r
        /\ \A i \in 1..Len(w) : writes'[e][i] = w[i]
    BY <1>0, <2>1
  <2>3. \A i \in 1..n : i = n \/ i \in 1..Len(w)
    BY <1>0
  <2>4. \A i \in 1..n : runs'[writes'[e][i]].email = e
                        /\ runs'[writes'[e][i]].pc \in {"created", "updated", "failed"}
    <3>1. \A i \in 1..Len(w) : runs[w[i]].email = e /\ runs[w[i]].pc \in {"created", "updated", "failed"}
      BY DEF AccountInv
    <3>2. \A i \in 1..Len(w) : runs'[writes'[e][i]] = runs[w[i]]
      BY <1>3, <2>2
    <3>3. runs'[writes'[e][n]].email = e /\ runs'[writes'[e][n]].pc \in {"created", "updated", "failed"}
      BY <1>5, <2>1, <2>2
    <3>. HIDE DEF w, n
    <3>. QED
      BY <2>3, <3>1, <3>2, <3>3
  <2>5. runs[r].pc = "create" => e \notin Existing /\ Len(w) = 0
    BY <1>0, <1>5 DEF AccountInv
  <2>6. \A i \in 2..n : runs'[writes'[e][i]].update
    <3>1. CASE runs[r].pc = "create"
      BY <2>5, <3>1
    <3>2. CASE runs[r].pc = "update"
      <4>1. runs'[r].update
        BY <3>2 DEF RunInv
      <4>2. \A i \in 2..n : i = n \/ i \in 2..Len(w)
        BY <1>0
      <4>3. \A i \in 2..Len(w) : runs'[w[i]].update /\ writes'[e][i] = w[i]
        BY <1>0, <1>3, <2>2 DEF AccountInv
      <4>. QED
        BY <2>2, <4>1, <4>2, <4>3
    <3>. QED
      BY <3>1, <3>2
  <2>7. ASSUME e \notin Existing, NEW s \in Run, runs'[s].email = e
        PROVE  /\ runs'[s].pc = "created" => writes'[e][1] = s
               /\ runs'[s].pc = "updated" => \E i \in 2..n : writes'[e][i] = s
    <3>1. CASE s # r
      <4>1. runs'[s] = runs[s]
        BY <3>1
      <4>2. runs[s].pc = "created" => Len(w) > 0 /\ w[1] = s
        BY <2>7, <4>1 DEF AccountInv
      <4>3. runs[s].pc = "updated" => \E i \in 2..Len(w) : w[i] = s
        BY <2>7, <4>1 DEF AccountInv
      <4>. QED
        <5>1. runs'[s].pc = "created" => writes'[e][1] = s
          BY <1>0, <2>2, <4>1, <4>2
        <5>2. ASSUME NEW i \in 2..Len(w), w[i] = s
              PROVE  i \in 2..n /\ writes'[e][i] = s
          BY <1>0, <2>2, <5>2
        <5>. QED
          BY <4>1, <4>3, <5>1, <5>2
    <3>2. CASE s = r /\ runs[r].pc = "create"
      BY <2>2, <2>5, <3>2
    <3>3. CASE s = r /\ runs[r].pc = "update"
      <4>1. Len(w) > 0
        BY <1>5, <2>7, <3>3 DEF AccountInv
      <4>2. n \in 2..n
        BY <1>0, <4>1
      <4>. QED
        BY <2>2, <3>3, <4>2
    <3>. QED
      BY <3>1, <3>2, <3>3
  <2> HIDE DEF w, n
  <2>. QED
    BY <2>1, <2>2, <2>4, <2>6, <2>7 DEF AccountInv
<1>. QED
  BY <1>4, <1>5

LEMMA RunStepKeepsRuns ==
  ASSUME TypeOK, NEW r \in Run, RunStep(r),
         \A s \in Run : RunInv(s), \A e \in Email : AccountInv(e)
  PROVE  (\A s \in Run : RunInv(s)') /\ (\A e \in Email : AccountInv(e)')
<1> USE SessionAssumption
<1> DEFINE RunSet == [pc : {"idle", "create", "get", "update", "created", "updated", "exists", "failed"},
                      email : Email \cup {None}, pw : Password \cup {None}, update : BOOLEAN]
           Kept == \A s \in Run : s # r => runs'[s] = runs[s]
           Args_ == runs'[r].email = runs[r].email /\ runs'[r].pw = runs[r].pw /\ runs'[r].update = runs[r].update
<1>0. runs \in [Run -> RunSet] /\ runs[r] \in RunSet
  BY DEF TypeOK
<1>1. ASSUME NEW from, NEW to, RunGoes(r, from, to)
      PROVE  runs[r].pc = from /\ runs'[r].pc = to /\ Kept /\ Args_
  BY <1>0, <1>1 DEF RunGoes
<1>2. CASE StartRun(r)
  <2>1. PICK a \in Args :
          runs' = [runs EXCEPT ![r] = [pc |-> IF a.pw \in Hashable THEN "create" ELSE "failed",
                                       email |-> a.email, pw |-> a.pw, update |-> a.update]]
    BY <1>2 DEF StartRun
  <2>2. /\ Kept /\ runs[r].pc = "idle" /\ runs'[r].pc \in {"create", "failed"}
        /\ runs'[r].email \in Email
        /\ runs'[r].pc = "create" => runs'[r].pw \in Hashable
    BY <1>0, <1>2, <2>1 DEF StartRun
  <2>3. users' = users /\ writes' = writes
    BY <1>2 DEF StartRun
  <2>. QED
    <3>1. \A e \in Email : AccountInv(e)'
      BY <2>2, <2>3, RunMoves
    <3>2. ASSUME NEW s \in Run PROVE RunInv(s)'
      BY <2>2 DEF RunInv
    <3>. QED
      BY <3>1, <3>2
<1>3. CASE Create(r)
  <2>1. runs[r].pc = "create" /\ users[runs[r].email] = None /\ runs'[r].pc \in {"created", "failed"}
        /\ Kept /\ Args_ /\ Write(r)
    BY <1>1, <1>3 DEF Create, Told
  <2>. QED
    BY <2>1, RunWrites DEF RunInv
<1>4. CASE UpdatePassword(r)
  <2>1. runs[r].pc = "update" /\ runs'[r].pc \in {"updated", "failed"} /\ Kept /\ Args_ /\ Write(r)
    BY <1>1, <1>4 DEF UpdatePassword, Told
  <2>. QED
    BY <2>1, RunWrites DEF RunInv
<1>5. CASE EmailTaken(r)
  <2>1. /\ runs[r].pc = "create" /\ users[runs[r].email] # None /\ Kept /\ Args_
        /\ runs'[r].pc = IF runs[r].update THEN "get" ELSE "exists"
        /\ users' = users /\ writes' = writes
    BY <1>1, <1>5 DEF EmailTaken
  <2>. QED
    BY <2>1, RunMoves DEF RunInv
<1>6. CASE GetExisting(r)
  <2>1. /\ runs[r].pc = "get" /\ Kept /\ Args_ /\ runs'[r].pc = "update"
        /\ users' = users /\ writes' = writes
    BY <1>1, <1>6 DEF GetExisting
  <2>2. \A e \in Email : runs[r].email = e => users[e] # None
    BY <2>1 DEF AccountInv
  <2>. QED
    BY <2>1, <2>2, RunMoves DEF RunInv
<1>7. CASE RunFails(r)
  <2>1. /\ runs[r].pc \in {"create", "get", "update"} /\ Kept /\ Args_ /\ runs'[r].pc = "failed"
        /\ users' = users /\ writes' = writes
    BY <1>1, <1>7 DEF RunFails
  <2>. QED
    BY <2>1, RunMoves DEF RunInv
<1>. QED
  BY <1>2, <1>3, <1>4, <1>5, <1>6, <1>7 DEF RunStep

-----------------------------------------------------------------------------
(* Logins and the browser. *)

Status == {0, 200, 401, 404, 429, 500}
CallSet ==
  [kind : {None, "login", "logout", "list", "halfway"}, tab : Tab \cup {None},
   email : Email \cup {None}, pw : Password \cup {None}, token : Token, hash : Hashable \cup {None},
   stage : {"idle", "sent", "loaded", "answered", "headers", "done"},
   status : Status]

(* A login between its two looks at the password: what it may still read,  *)
(* or has read, was in force since it was sent.                            *)
LoginInv(c) ==
  /\ calls[c].kind = "login" =>
       /\ calls[c].stage \in {"sent", "loaded", "answered", "headers"}
       /\ calls[c].email \in Email /\ calls[c].tab \in Tab
       /\ calls[c].stage = "sent" => users[calls[c].email] \in seen[c]
       /\ calls[c].stage = "loaded" => calls[c].hash \in seen[c]
       /\ calls[c].stage \in {"sent", "loaded"} => calls[c].status # 200
       /\ calls[c].status = 200 => calls[c].pw \in seen[c] /\ calls[c].token.sub = calls[c].email
  /\ calls[c].kind = "halfway" => calls[c].stage = "done"
  /\ calls[c].stage = "headers" => calls[c].kind = "login" /\ calls[c].status = 200

(* In a browser of one tab one login is under way at a time; while it is   *)
(* between its headers and its body its token is the cookie, and otherwise *)
(* the session is the cookie's.                                            *)
OneTab == \A t, u \in Tab : t = u

Between(c) == At(c, "login", "headers") \/ calls[c].kind = "halfway"

BrowserInv ==
  OneTab =>
    /\ \A c, d \in Call : calls[c].kind = "login" /\ calls[d].kind = "login" => c = d
    /\ \A c \in Call : calls[c].stage = "headers" => cookie = calls[c].token
    /\ session # None /\ (\A c \in Call : ~ Between(c)) => cookie.sub = session

SessionInv ==
  /\ TypeOK
  /\ \A r \in Run : RunInv(r)
  /\ \A e \in Email : AccountInv(e)
  /\ \A c \in Call : LoginInv(c)
  /\ BrowserInv

(* A run changes an account and what logins may find there. *)
LEMMA RunStepKeepsTypes ==
  ASSUME SessionInv, NEW r \in Run, RunStep(r)
  PROVE  TypeOK'
<1> USE SessionAssumption
<1> DEFINE RunSet == [pc : {"idle", "create", "get", "update", "created", "updated", "exists", "failed"},
                      email : Email \cup {None}, pw : Password \cup {None}, update : BOOLEAN]
<1>0. TypeOK /\ runs \in [Run -> RunSet] /\ runs[r] \in RunSet /\ RunInv(r)
  BY DEF SessionInv, TypeOK
<1>1. UNCHANGED << clock, uiVars, calls >>
  BY DEF RunStep, StartRun, Create, EmailTaken, GetExisting, UpdatePassword, RunFails
<1>2. ASSUME NEW from, NEW to \in {"create", "get", "update", "created", "updated", "exists", "failed"},
             RunGoes(r, from, to)
      PROVE  runs' \in [Run -> RunSet]
  <2>1. [runs[r] EXCEPT !.pc = to] \in RunSet
    BY <1>0
  <2>. QED
    BY <1>0, <1>2, <2>1 DEF RunGoes
<1>3. runs' \in [Run -> RunSet]
  <2>1. CASE StartRun(r)
    <3>1. \A a \in Args : [pc |-> IF a.pw \in Hashable THEN "create" ELSE "failed",
                           email |-> a.email, pw |-> a.pw, update |-> a.update] \in RunSet
      OBVIOUS
    <3>. HIDE DEF RunSet
    <3>. QED
      BY <1>0, <2>1, <3>1 DEF StartRun
  <2>. HIDE DEF RunSet
  <2>. QED
    BY <1>2, <2>1 DEF RunStep, Create, EmailTaken, GetExisting, UpdatePassword, RunFails, Told
<1>4. (users' = users /\ writes' = writes /\ seen' = seen)
      \/ (Write(r) /\ runs[r].email \in Email /\ runs[r].pw \in Hashable)
  BY <1>0 DEF RunStep, StartRun, Create, EmailTaken, GetExisting, UpdatePassword, RunFails, Told, RunGoes, RunInv
<1>5. /\ users' \in [Email -> Hashable \cup {None}] /\ writes' \in [Email -> Seq(Run)]
      /\ seen' \in [Call -> SUBSET (Hashable \cup {None})]
  <2>1. CASE users' = users /\ writes' = writes /\ seen' = seen
    BY <1>0, <2>1 DEF TypeOK
  <2>2. CASE Write(r) /\ runs[r].email \in Email /\ runs[r].pw \in Hashable
    <3>1. Append(writes[runs[r].email], r) \in Seq(Run)
      BY <1>0, <2>2 DEF TypeOK
    <3>. QED
      BY <1>0, <2>2, <3>1 DEF TypeOK, Write
  <2>. QED
    BY <1>4, <2>1, <2>2
<1>. QED
  BY <1>0, <1>1, <1>3, <1>5 DEF TypeOK, uiVars

LEMMA RunStepKeepsLogins ==
  ASSUME SessionInv, NEW r \in Run, RunStep(r), NEW c \in Call
  PROVE  LoginInv(c)'
<1>0. TypeOK /\ LoginInv(c) /\ RunInv(r)
  BY DEF SessionInv
<1>1. calls' = calls
  BY DEF RunStep, StartRun, Create, EmailTaken, GetExisting, UpdatePassword, RunFails
<1>2. CASE users' = users /\ seen' = seen
  BY <1>0, <1>1, <1>2 DEF LoginInv
<1>3. CASE Write(r) /\ runs[r].email \in Email
  <2>1. seen[c] \subseteq seen'[c]
    BY <1>0, <1>3 DEF TypeOK, Write
  <2>2. calls[c].kind = "login" /\ calls[c].stage = "sent" => users'[calls[c].email] \in seen'[c]
    BY <1>0, <1>3 DEF TypeOK, Write, LoginInv
  <2>. QED
    BY <1>0, <1>1, <2>1, <2>2 DEF LoginInv
<1>. QED
  BY <1>0, <1>2, <1>3
  DEF RunStep, StartRun, Create, EmailTaken, GetExisting, UpdatePassword, RunFails, Told, RunGoes, RunInv

CallStep(c) ==
  \/ SubmitLogin(c) \/ Browse(c) \/ ClickLogout(c)
  \/ ServerStep(c) \/ Lose(c) \/ BrowserStep(c)

(* A step of a call changes no other call. *)
LEMMA CallIsLocal ==
  ASSUME TypeOK, NEW c \in Call, CallStep(c)
  PROVE  /\ calls' = [calls EXCEPT ![c] = calls'[c]]
         /\ \A d \in Call : d # c => calls'[d] = calls[d]
         /\ UNCHANGED << clock, dbVars >>
<1>1. calls \in [Call -> CallSet]
  BY DEF TypeOK, CallSet, Status
<1>2. UNCHANGED << clock, dbVars >>
  BY DEF CallStep, SubmitLogin, Browse, ClickLogout, ServerStep, LoginUnavailable, UnknownEmail, GetByEmail,
         LoginAnswers, ListAnswers, LogoutAnswers, Lose, BrowserStep, Headers, LoginEnds, LoginErrs,
         LogoutEnds, ListEnds
<1>3. ASSUME NEW x, calls' = [calls EXCEPT ![c] = x]
      PROVE  calls' = [calls EXCEPT ![c] = calls'[c]] /\ \A d \in Call : d # c => calls'[d] = calls[d]
  BY <1>1, <1>3
<1>4. ASSUME NEW call, Send(c, call)
      PROVE  \E x : calls' = [calls EXCEPT ![c] = x]
  BY <1>4 DEF Send
<1>5. ASSUME NEW status, NEW token, Answer(c, status, token)
      PROVE  \E x : calls' = [calls EXCEPT ![c] = x]
  BY <1>5 DEF Answer
<1>6. CASE SubmitLogin(c) \/ Browse(c) \/ ClickLogout(c)
  BY <1>2, <1>3, <1>4, <1>6 DEF SubmitLogin, Browse, ClickLogout
<1>7. CASE LoginUnavailable(c) \/ UnknownEmail(c) \/ LoginAnswers(c) \/ ListAnswers(c) \/ LogoutAnswers(c)
           \/ Lose(c)
  BY <1>2, <1>3, <1>5, <1>7
  DEF LoginUnavailable, UnknownEmail, LoginAnswers, ListAnswers, LogoutAnswers, Lose
<1>8. CASE GetByEmail(c) \/ Headers(c)
  BY <1>2, <1>3, <1>8 DEF GetByEmail, Headers
<1>9. CASE LoginEnds(c) \/ LoginErrs(c) \/ LogoutEnds(c) \/ ListEnds(c)
  BY <1>2, <1>3, <1>9 DEF LoginEnds, LoginErrs, LogoutEnds, ListEnds, End
<1>. QED
  BY <1>6, <1>7, <1>8, <1>9 DEF CallStep, ServerStep, BrowserStep

(* What the steps of a call do to it, and to what the browser keeps.       *)
CallChange(c) ==
  LET old == calls[c]  new == calls'[c] IN
  \/ \* a login is sent
     /\ old.stage = "idle" /\ new.kind = "login" /\ new.stage = "sent" /\ new.status = 0
     /\ new.tab \in Tab /\ new.email \in Email /\ new.pw \in Password
     /\ \A d \in Call : calls[d].kind = "login" /\ calls[d].tab = new.tab => calls[d].stage = "done"
     /\ seen'[c] = {users[new.email]} /\ \A d \in Call : d # c => seen'[d] = seen[d]
     /\ UNCHANGED << cookie, session >>
  \/ \* another request is sent
     /\ old.stage = "idle" /\ new.kind \in {"list", "logout"} /\ new.stage = "sent"
     /\ seen' = seen /\ UNCHANGED << cookie, session >>
  \/ \* a login has read its row
     /\ old.kind = "login" /\ old.stage = "sent"
     /\ new = [old EXCEPT !.stage = "loaded", !.hash = users[old.email]]
     /\ seen' = seen /\ UNCHANGED << cookie, session >>
  \/ \* an answer, or the loss of one
     /\ old.stage \in {"sent", "loaded", "answered"} /\ new.stage = "answered"
     /\ new.kind = old.kind /\ new.tab = old.tab /\ new.email = old.email /\ new.pw = old.pw
     /\ old.kind = "login" /\ new.status = 200 =>
          old.stage = "loaded" /\ old.pw = old.hash /\ new.token.sub = old.email
     /\ seen' = seen /\ UNCHANGED << cookie, session >>
  \/ \* the headers of a login
     /\ old.kind = "login" /\ old.stage = "answered" /\ old.status = 200
     /\ new = [old EXCEPT !.stage = "headers"] /\ cookie' = old.token
     /\ seen' = seen /\ session' = session
  \/ \* a login ends
     /\ old.kind = "login" /\ old.stage = "headers" /\ new.kind = None /\ new.stage = "done"
     /\ session' = old.email /\ seen' = seen /\ cookie' = cookie
  \/ \* the body of a login is lost
     /\ old.kind = "login" /\ old.stage = "headers" /\ new.kind = "halfway" /\ new.stage = "done"
     /\ seen' = seen /\ UNCHANGED << cookie, session >>
  \/ \* another request ends
     /\ old.stage = "answered" /\ new.kind = None /\ new.stage = "done"
     /\ session' \in {session, None} /\ seen' = seen /\ cookie' = cookie

LEMMA CallStepChanges ==
  ASSUME SessionInv, NEW c \in Call, CallStep(c)
  PROVE  CallChange(c) /\ calls'[c] \in CallSet /\ cookie' \in Token /\ session' \in Email \cup {None}
         /\ page' \in [Tab -> {"login", "dashboard"}] /\ seen' \in [Call -> SUBSET (Hashable \cup {None})]
<1> USE SessionAssumption
<1> DEFINE Goal == /\ CallChange(c) /\ calls'[c] \in CallSet /\ cookie' \in Token
                   /\ session' \in Email \cup {None} /\ page' \in [Tab -> {"login", "dashboard"}]
                   /\ seen' \in [Call -> SUBSET (Hashable \cup {None})]
<1>0. /\ calls \in [Call -> CallSet] /\ calls[c] \in CallSet
      /\ NoToken \in Token /\ NoCall \in CallSet /\ cookie \in Token /\ session \in Email \cup {None}
      /\ page \in [Tab -> {"login", "dashboard"}] /\ seen \in [Call -> SUBSET (Hashable \cup {None})]
      /\ users \in [Email -> Hashable \cup {None}] /\ clock \in Nat
  BY DEF SessionInv, TypeOK, CallSet, Status, Token, NoCall
<1>1. ASSUME NEW status \in Status, NEW token \in Token, Answer(c, status, token),
             calls[c].stage \in {"sent", "loaded", "answered"},
             calls[c].kind = "login" /\ status = 200 =>
               calls[c].stage = "loaded" /\ Verify(c) /\ token.sub = calls[c].email,
             UNCHANGED << uiVars, seen >>
      PROVE  Goal
  <2>1. calls'[c] = [calls[c] EXCEPT !.stage = "answered", !.status = status, !.token = token]
    BY <1>0, <1>1 DEF Answer
  <2>2. /\ calls'[c].stage = "answered" /\ calls'[c].kind = calls[c].kind /\ calls'[c].tab = calls[c].tab
        /\ calls'[c].email = calls[c].email /\ calls'[c].pw = calls[c].pw
        /\ calls'[c].status = status /\ calls'[c].token = token
    BY <1>0, <2>1 DEF CallSet
  <2>3. calls'[c] \in CallSet
    <3>1. [calls[c] EXCEPT !.stage = "answered", !.status = status, !.token = token] \in CallSet
      BY <1>0 DEF CallSet
    <3>. QED
      BY <2>1, <3>1
  <2>4. CallChange(c)
    BY <1>1, <2>2 DEF CallChange, Verify, uiVars
  <2>. QED
    BY <1>0, <1>1, <2>3, <2>4 DEF uiVars
<1>2. ASSUME NEW call \in CallSet, Send(c, call)
      PROVE  /\ calls[c].stage = "idle" /\ calls'[c] \in CallSet /\ calls'[c].stage = "sent"
             /\ calls'[c].kind = call.kind /\ calls'[c].tab = call.tab /\ calls'[c].email = call.email
             /\ calls'[c].pw = call.pw /\ calls'[c].status = call.status
  <2>1. calls[c].stage = "idle" /\ calls'[c] = [call EXCEPT !.stage = "sent"]
    BY <1>0, <1>2 DEF Send
  <2>. QED
    BY <1>2, <2>1 DEF CallSet
<1>3. CASE SubmitLogin(c)
  <2>1. PICK t \in Tab, x \in Login :
          /\ ~ Pending("login", t)
          /\ Send(c, [NoCall EXCEPT !.kind = "login", !.tab = t, !.email = x.email, !.pw = x.pw])
          /\ seen' = [seen EXCEPT ![c] = {users[x.email]}]
    BY <1>3 DEF SubmitLogin
  <2> DEFINE call == [NoCall EXCEPT !.kind = "login", !.tab = t, !.email = x.email, !.pw = x.pw]
  <2>2. x.email \in Email /\ x.pw \in Password
    OBVIOUS
  <2>3. call \in CallSet /\ call.kind = "login" /\ call.tab = t /\ call.email = x.email /\ call.pw = x.pw
        /\ call.status = 0
    BY <1>0, <2>2 DEF CallSet, NoCall
  <2> HIDE DEF call
  <2>4. Send(c, call)
    BY <2>1 DEF call
  <2>5. /\ calls[c].stage = "idle" /\ calls'[c] \in CallSet /\ calls'[c].stage = "sent"
        /\ calls'[c].kind = "login" /\ calls'[c].tab = t /\ calls'[c].email = x.email
        /\ calls'[c].pw = x.pw /\ calls'[c].status = 0
    BY <1>2, <2>3, <2>4
  <2>6. UNCHANGED uiVars
    BY <1>3 DEF SubmitLogin
  <2>7. /\ seen'[c] = {users[x.email]} /\ \A d \in Call : d # c => seen'[d] = seen[d]
        /\ seen' \in [Call -> SUBSET (Hashable \cup {None})]
    BY <1>0, <2>1, <2>2
  <2>8. CallChange(c)
    BY <2>1, <2>2, <2>5, <2>6, <2>7 DEF CallChange, Pending, uiVars
  <2>. QED
    BY <1>0, <2>5, <2>6, <2>7, <2>8 DEF uiVars
<1>4. CASE Browse(c) \/ ClickLogout(c)
  <2>1. \A t \in Tab : /\ [NoCall EXCEPT !.kind = "list", !.tab = t, !.token = cookie] \in CallSet
                       /\ [NoCall EXCEPT !.kind = "list", !.tab = t, !.token = cookie].kind = "list"
                       /\ [NoCall EXCEPT !.kind = "logout", !.tab = t] \in CallSet
                       /\ [NoCall EXCEPT !.kind = "logout", !.tab = t].kind = "logout"
    BY <1>0 DEF CallSet, NoCall
  <2>2. PICK t \in Tab :
          \/ Send(c, [NoCall EXCEPT !.kind = "list", !.tab = t, !.token = cookie])
          \/ Send(c, [NoCall EXCEPT !.kind = "logout", !.tab = t])
    BY <1>4 DEF Browse, ClickLogout
  <2>3. calls[c].stage = "idle" /\ calls'[c] \in CallSet /\ calls'[c].stage = "sent"
        /\ calls'[c].kind \in {"list", "logout"}
    BY <1>2, <2>1, <2>2
  <2>4. UNCHANGED << uiVars, seen >>
    BY <1>4 DEF Browse, ClickLogout
  <2>5. CallChange(c)
    BY <2>3, <2>4 DEF CallChange, uiVars
  <2>. QED
    BY <1>0, <2>3, <2>4, <2>5 DEF uiVars
<1>5. CASE LoginUnavailable(c) \/ UnknownEmail(c) \/ LogoutAnswers(c) \/ Lose(c)
  <2>1. \E status \in Status : status # 200 /\ Answer(c, status, NoToken)
    BY <1>5 DEF Status, LoginUnavailable, UnknownEmail, LogoutAnswers, Lose
  <2>2. calls[c].stage \in {"sent", "loaded", "answered"} /\ UNCHANGED << uiVars, seen >>
    BY <1>5 DEF LoginUnavailable, UnknownEmail, LogoutAnswers, Lose, At
  <2>. QED
    BY <1>0, <1>1, <2>1, <2>2
<1>6. CASE LoginAnswers(c)
  <2>1. calls[c].kind = "login" /\ calls[c].stage = "loaded" /\ UNCHANGED << uiVars, seen >>
    BY <1>6 DEF LoginAnswers, At
  <2>2. CASE Verify(c) /\ Answer(c, 200, Issue(c))
    <3>1. calls[c].email \in Email
      BY <2>1 DEF SessionInv, LoginInv
    <3>2. Issue(c) \in Token /\ Issue(c).sub = calls[c].email
      BY <1>0, <3>1 DEF Issue, Token
    <3>. QED
      BY <1>1, <2>1, <2>2, <3>2 DEF Status
  <2>3. CASE Answer(c, 401, NoToken)
    BY <1>0, <1>1, <2>1, <2>3 DEF Status
  <2>. QED
    BY <1>6, <2>2, <2>3 DEF LoginAnswers
<1>7. CASE ListAnswers(c)
  <2>1. PICK s \in Status : Answer(c, s, calls[c].token)
    BY <1>7 DEF Status, ListAnswers
  <2>2. calls[c].kind = "list" /\ calls[c].stage = "sent" /\ UNCHANGED << uiVars, seen >>
        /\ calls[c].token \in Token
    BY <1>0, <1>7 DEF ListAnswers, At, CallSet
  <2>. QED
    BY <1>1, <2>1, <2>2
<1>8. CASE GetByEmail(c)
  <2>1. /\ calls[c].kind = "login" /\ calls[c].stage = "sent" /\ users[calls[c].email] # None
        /\ UNCHANGED << uiVars, seen >>
        /\ calls'[c] = [calls[c] EXCEPT !.stage = "loaded", !.hash = users[calls[c].email]]
    BY <1>0, <1>8 DEF GetByEmail, At
  <2>2. users[calls[c].email] \in Hashable
    <3>1. calls[c].email \in Email
      BY <2>1 DEF SessionInv, LoginInv
    <3>. QED
      BY <1>0, <2>1, <3>1
  <2>3. calls'[c] \in CallSet
    BY <1>0, <2>1, <2>2 DEF CallSet
  <2>4. CallChange(c)
    BY <2>1 DEF CallChange, uiVars
  <2>. QED
    BY <1>0, <2>1, <2>3, <2>4 DEF uiVars
<1>9. CASE Headers(c)
  <2>1. /\ calls[c].kind = "login" /\ calls[c].stage = "answered" /\ calls[c].status = 200
        /\ cookie' = calls[c].token /\ UNCHANGED << session, page, seen >>
        /\ calls'[c] = [calls[c] EXCEPT !.stage = "headers"]
    BY <1>0, <1>9 DEF Headers, At
  <2>2. calls'[c] \in CallSet /\ calls[c].token \in Token
    BY <1>0, <2>1 DEF CallSet
  <2>3. CallChange(c)
    BY <2>1 DEF CallChange
  <2>. QED
    BY <1>0, <2>1, <2>2, <2>3
<1>10. /\ [NoCall EXCEPT !.stage = "done"] \in CallSet
       /\ [NoCall EXCEPT !.stage = "done"].kind = None /\ [NoCall EXCEPT !.stage = "done"].stage = "done"
       /\ [NoCall EXCEPT !.kind = "halfway", !.stage = "done"] \in CallSet
       /\ [NoCall EXCEPT !.kind = "halfway", !.stage = "done"].kind = "halfway"
       /\ [NoCall EXCEPT !.kind = "halfway", !.stage = "done"].stage = "done"
  BY <1>0 DEF CallSet, NoCall
<1>11. End(c) => calls'[c] \in CallSet /\ calls'[c].kind = None /\ calls'[c].stage = "done"
  <2>1. End(c) => calls'[c] = [NoCall EXCEPT !.stage = "done"]
    BY <1>0 DEF End
  <2>. QED
    BY <1>10, <2>1
<1>12. CASE LoginEnds(c)
  <2>1. /\ calls[c].kind = "login" /\ calls[c].stage = "headers" /\ session' = calls[c].email
        /\ UNCHANGED << cookie, seen >> /\ page' \in [Tab -> {"login", "dashboard"}]
        /\ calls'[c] \in CallSet /\ calls'[c].kind = None /\ calls'[c].stage = "done"
    BY <1>0, <1>11, <1>12 DEF LoginEnds, At
  <2>2. session' \in Email \cup {None}
    BY <1>0, <2>1 DEF CallSet
  <2>3. CallChange(c)
    BY <2>1 DEF CallChange
  <2>. QED
    BY <1>0, <2>1, <2>2, <2>3
<1>13. CASE LoginErrs(c)
  <2>1. UNCHANGED << uiVars, seen >>
    BY <1>13 DEF LoginErrs
  <2>2. CASE At(c, "login", "answered") /\ End(c)
    <3>1. CallChange(c)
      BY <1>11, <2>1, <2>2 DEF CallChange, At, uiVars
    <3>. QED
      BY <1>0, <1>11, <2>1, <2>2, <3>1 DEF uiVars
  <2>3. CASE At(c, "login", "headers") /\ calls' = [calls EXCEPT ![c] = [NoCall EXCEPT !.kind = "halfway", !.stage = "done"]]
    <3>1. calls'[c] = [NoCall EXCEPT !.kind = "halfway", !.stage = "done"]
      BY <1>0, <2>3
    <3>2. calls'[c] \in CallSet /\ calls'[c].kind = "halfway" /\ calls'[c].stage = "done"
      BY <1>10, <3>1
    <3>3. CallChange(c)
      BY <2>1, <2>3, <3>2 DEF CallChange, At, uiVars
    <3>. QED
      BY <1>0, <2>1, <3>2, <3>3 DEF uiVars
  <2>. QED
    BY <1>13, <2>2, <2>3 DEF LoginErrs
<1>14. CASE LogoutEnds(c) \/ ListEnds(c)
  <2>1. /\ calls[c].stage = "answered" /\ End(c) /\ UNCHANGED << cookie, seen >>
        /\ SignOut(c) \/ UNCHANGED << session, page >>
    BY <1>14 DEF LogoutEnds, ListEnds, At
  <2>2. session' \in {session, None} /\ page' \in [Tab -> {"login", "dashboard"}]
    BY <1>0, <2>1 DEF SignOut
  <2>3. CallChange(c)
    BY <1>11, <2>1, <2>2 DEF CallChange
  <2>. QED
    BY <1>0, <1>11, <2>1, <2>2, <2>3
<1>. QED
  BY <1>3, <1>4, <1>5, <1>6, <1>7, <1>8, <1>9, <1>12, <1>13, <1>14 DEF CallStep, ServerStep, BrowserStep

LEMMA CallStepKeepsLogins ==
  ASSUME SessionInv, NEW c \in Call, CallStep(c), NEW d \in Call
  PROVE  LoginInv(d)'
<1>0. /\ LoginInv(c) /\ LoginInv(d) /\ CallChange(c) /\ users' = users
      /\ calls \in [Call -> CallSet] /\ calls[c] \in CallSet
      /\ \A x \in Call : x # c => calls'[x] = calls[x]
  BY CallStepChanges, CallIsLocal DEF SessionInv, TypeOK, CallSet, Status, dbVars
<1>1. CASE d # c
  <2>1. calls'[d] = calls[d] /\ seen'[d] = seen[d]
    BY <1>0, <1>1 DEF CallChange
  <2>. QED
    BY <1>0, <2>1 DEF LoginInv
<1>2. CASE d = c
  <2>0. seen'[c] = seen[c] \/ calls'[c].stage = "sent"
    BY <1>0 DEF CallChange
  <2>1. CASE calls'[c].kind # "login"
    BY <1>0, <1>2, <2>1 DEF CallChange, LoginInv, CallSet, None
  <2>2. CASE calls'[c].kind = "login" /\ calls'[c].stage = "sent"
    <3>1. /\ calls'[c].status = 0 /\ calls'[c].tab \in Tab /\ calls'[c].email \in Email
          /\ users[calls'[c].email] \in seen'[c]
      BY <1>0, <2>2 DEF CallChange, CallSet
    <3>. QED
      BY <1>0, <1>2, <2>2, <3>1 DEF LoginInv
  <2>3. CASE calls'[c].kind = "login" /\ calls'[c].stage = "loaded"
    <3>1. /\ calls[c].kind = "login" /\ calls[c].stage = "sent" /\ seen'[c] = seen[c]
          /\ calls'[c] = [calls[c] EXCEPT !.stage = "loaded", !.hash = users[calls[c].email]]
      BY <1>0, <2>3 DEF CallChange, CallSet
    <3>2. /\ calls'[c].hash = users[calls[c].email] /\ calls'[c].email = calls[c].email
          /\ calls'[c].tab = calls[c].tab /\ calls'[c].status = calls[c].status
      BY <1>0, <3>1 DEF CallSet
    <3>. QED
      BY <1>0, <1>2, <2>3, <3>1, <3>2 DEF LoginInv
  <2>4. CASE calls'[c].kind = "login" /\ calls'[c].stage = "answered"
    <3>1. /\ calls[c].kind = "login" /\ seen'[c] = seen[c]
          /\ calls'[c].tab = calls[c].tab /\ calls'[c].email = calls[c].email /\ calls'[c].pw = calls[c].pw
          /\ calls'[c].status = 200 =>
               calls[c].stage = "loaded" /\ calls[c].pw = calls[c].hash /\ calls'[c].token.sub = calls[c].email
      BY <1>0, <2>4 DEF CallChange, CallSet
    <3>. QED
      BY <1>0, <1>2, <2>4, <3>1 DEF LoginInv
  <2>5. CASE calls'[c].kind = "login" /\ calls'[c].stage = "headers"
    <3>1. /\ calls[c].kind = "login" /\ calls[c].status = 200 /\ seen'[c] = seen[c]
          /\ calls'[c] = [calls[c] EXCEPT !.stage = "headers"]
      BY <1>0, <2>5 DEF CallChange, CallSet
    <3>2. /\ calls'[c].email = calls[c].email /\ calls'[c].tab = calls[c].tab
          /\ calls'[c].pw = calls[c].pw /\ calls'[c].token = calls[c].token
          /\ calls'[c].status = calls[c].status
      BY <1>0, <3>1 DEF CallSet
    <3>. QED
      BY <1>0, <1>2, <2>5, <3>1, <3>2 DEF LoginInv
  <2>6. calls'[c].kind = "login" => calls'[c].stage \in {"sent", "loaded", "answered", "headers"}
    BY <1>0 DEF CallChange, CallSet, None
  <2>. QED
    BY <2>1, <2>2, <2>3, <2>4, <2>5, <2>6
<1>. QED
  BY <1>1, <1>2

LEMMA CallStepKeepsBrowser ==
  ASSUME SessionInv, NEW c \in Call, CallStep(c)
  PROVE  BrowserInv'
<1> SUFFICES ASSUME OneTab
             PROVE  /\ \A x, y \in Call : calls'[x].kind = "login" /\ calls'[y].kind = "login" => x = y
                    /\ \A x \in Call : calls'[x].stage = "headers" => cookie' = calls'[x].token
                    /\ session' # None /\ (\A x \in Call : ~ Between(x)') => cookie'.sub = session'
  BY DEF BrowserInv, OneTab
<1>0. /\ CallChange(c) /\ calls \in [Call -> CallSet] /\ calls[c] \in CallSet
      /\ \A x \in Call : x # c => calls'[x] = calls[x]
      /\ \A x \in Call : LoginInv(x) /\ LoginInv(x)'
  BY CallStepChanges, CallIsLocal, CallStepKeepsLogins DEF SessionInv, TypeOK, CallSet, Status
<1>1. /\ \A x, y \in Call : calls[x].kind = "login" /\ calls[y].kind = "login" => x = y
      /\ \A x \in Call : calls[x].stage = "headers" => cookie = calls[x].token
      /\ session # None /\ (\A x \in Call : ~ Between(x)) => cookie.sub = session
  BY DEF SessionInv, BrowserInv
<1>2. \A x, y \in Call : calls'[x].kind = "login" /\ calls'[y].kind = "login" => x = y
  <2>1. CASE calls[c].kind = "login" \/ calls'[c].kind # "login"
    BY <1>0, <1>1, <2>1
  <2>2. CASE calls[c].kind # "login" /\ calls'[c].kind = "login"
    <3>1. /\ calls'[c].tab \in Tab
          /\ \A d \in Call : calls[d].kind = "login" /\ calls[d].tab = calls'[c].tab => calls[d].stage = "done"
      BY <1>0, <2>2 DEF CallChange, None
    <3>2. \A d \in Call : calls[d].kind # "login"
      BY <1>0, <3>1 DEF OneTab, LoginInv
    <3>. QED
      BY <1>0, <3>2
  <2>. QED
    BY <2>1, <2>2
<1>3. \A x \in Call : calls'[x].stage = "headers" => cookie' = calls'[x].token
  <2>1. CASE calls'[c].stage # "headers"
    <3>1. cookie' = cookie
      BY <1>0, <2>1 DEF CallChange, CallSet
    <3>. QED
      BY <1>0, <1>1, <2>1, <3>1
  <2>2. CASE calls'[c].stage = "headers"
    <3>1. calls[c].kind = "login" /\ cookie' = calls[c].token /\ calls'[c].token = calls[c].token
      BY <1>0, <2>2 DEF CallChange, CallSet
    <3>2. \A x \in Call : x # c => calls'[x].stage # "headers"
      BY <1>0, <1>1, <3>1 DEF LoginInv
    <3>. QED
      BY <3>1, <3>2
  <2>. QED
    BY <2>1, <2>2
<1>4. ASSUME session' # None, \A x \in Call : ~ Between(x)'
      PROVE  cookie'.sub = session'
  <2>1. \A x \in Call : x # c => ~ Between(x)
    BY <1>0, <1>4 DEF Between, At
  <2>2. CASE Between(c)
    <3>1. calls[c].kind = "login" /\ calls[c].stage = "headers"
      BY <1>0, <2>2 DEF Between, At, LoginInv, CallChange
    <3>2. session' = calls[c].email /\ cookie' = cookie
      BY <1>0, <1>4, <3>1 DEF Between, At, CallChange
    <3>3. cookie = calls[c].token /\ calls[c].token.sub = calls[c].email
      BY <1>0, <1>1, <3>1 DEF LoginInv
    <3>. QED
      BY <3>2, <3>3
  <2>3. CASE ~ Between(c)
    <3>1. calls'[c].stage # "headers"
      BY <1>0, <1>4 DEF Between, At, LoginInv
    <3>2. cookie' = cookie /\ session' \in {session, None}
      BY <1>0, <2>3, <3>1 DEF CallChange, CallSet, Between, At
    <3>. QED
      BY <1>1, <1>4, <2>1, <2>3, <3>2
  <2>. QED
    BY <2>2, <2>3
<1>. QED
  BY <1>2, <1>3, <1>4

LEMMA SessionInvStep == SessionInv /\ [Next]_vars => SessionInv'
<1> SUFFICES ASSUME SessionInv, [Next]_vars PROVE SessionInv'
  OBVIOUS
<1>0. TypeOK
  BY DEF SessionInv
<1>1. CASE UNCHANGED << dbVars, cookie, session, calls, seen >> /\ clock' \in 0..MaxTime
           /\ page' \in [Tab -> {"login", "dashboard"}]
  <2>1. TypeOK'
    BY <1>0, <1>1 DEF TypeOK, dbVars
  <2>2. (\A r \in Run : RunInv(r)') /\ (\A e \in Email : AccountInv(e)')
    BY <1>1 DEF SessionInv, RunInv, AccountInv, dbVars
  <2>3. (\A c \in Call : LoginInv(c)') /\ BrowserInv'
    BY <1>1 DEF SessionInv, LoginInv, BrowserInv, OneTab, Between, At, dbVars
  <2>. QED
    BY <2>1, <2>2, <2>3 DEF SessionInv
<1>2. ASSUME NEW r \in Run, RunStep(r)
      PROVE  SessionInv'
  <2>1. calls' = calls /\ cookie' = cookie /\ session' = session
    BY <1>2 DEF RunStep, StartRun, Create, EmailTaken, GetExisting, UpdatePassword, RunFails, uiVars
  <2>2. BrowserInv'
    BY <2>1 DEF SessionInv, BrowserInv, OneTab, Between, At
  <2>3. TypeOK' /\ \A c \in Call : LoginInv(c)'
    BY <1>2, RunStepKeepsTypes, RunStepKeepsLogins
  <2>4. (\A s \in Run : RunInv(s)') /\ (\A e \in Email : AccountInv(e)')
    BY <1>2, RunStepKeepsRuns DEF SessionInv
  <2>. QED
    BY <2>2, <2>3, <2>4 DEF SessionInv
<1>3. ASSUME NEW c \in Call, CallStep(c)
      PROVE  SessionInv'
  <2>1. UNCHANGED << clock, dbVars >> /\ calls' = [calls EXCEPT ![c] = calls'[c]]
    BY <1>0, <1>3, CallIsLocal
  <2>2. TypeOK'
    <3>1. /\ calls'[c] \in CallSet /\ cookie' \in Token /\ session' \in Email \cup {None}
          /\ page' \in [Tab -> {"login", "dashboard"}] /\ seen' \in [Call -> SUBSET (Hashable \cup {None})]
      BY <1>3, CallStepChanges
    <3>2. calls \in [Call -> CallSet]
      BY <1>0 DEF TypeOK, CallSet, Status
    <3>3. calls' \in [Call -> CallSet]
      BY <2>1, <3>1, <3>2
    <3>. QED
      BY <1>0, <2>1, <3>1, <3>3 DEF TypeOK, CallSet, Status, dbVars
  <2>3. (\A r \in Run : RunInv(r)') /\ (\A e \in Email : AccountInv(e)')
    BY <2>1 DEF SessionInv, RunInv, AccountInv, dbVars
  <2>. QED
    BY <1>3, <2>2, <2>3, CallStepKeepsLogins, CallStepKeepsBrowser DEF SessionInv
<1>4. CASE Tick
  BY <1>0, <1>1, <1>4, SessionAssumption DEF Tick, TypeOK, uiVars
<1>5. ASSUME NEW t \in Tab, Open(t)
      PROVE  SessionInv'
  BY <1>0, <1>1, <1>5 DEF Open, TypeOK
<1>6. CASE UNCHANGED vars
  BY <1>0, <1>1, <1>6 DEF vars, TypeOK, dbVars
<1>. QED
  BY <1>2, <1>3, <1>4, <1>5, <1>6 DEF Next, CallStep

LEMMA SessionInvInit == Init => SessionInv
<1> SUFFICES ASSUME Init PROVE SessionInv
  OBVIOUS
<1> USE SessionAssumption
<1>1. /\ \A e \in Email : writes[e] = << >> /\ users[e] \in Hashable \cup {None}
      /\ \A e \in Existing : users[e] # None
      /\ \A e \in Email : e \notin Existing => users[e] = None
      /\ \A r \in Run : runs[r] = NoRun
      /\ \A c \in Call : calls[c] = NoCall
  BY DEF Init
<1>2. TypeOK
  BY DEF Init, TypeOK, NoRun, NoCall, NoToken, Token
<1>3. (\A r \in Run : runs[r].pc = "idle") /\ \A c \in Call : calls[c].kind = None /\ calls[c].stage = "idle"
  BY <1>1 DEF NoRun, NoCall
<1>4. (\A r \in Run : RunInv(r)) /\ (\A e \in Email : AccountInv(e))
  BY <1>1, <1>3 DEF RunInv, AccountInv
<1>5. (\A c \in Call : LoginInv(c)) /\ BrowserInv
  BY <1>3 DEF LoginInv, BrowserInv, Init, None
<1>. QED
  BY <1>2, <1>4, <1>5 DEF SessionInv

(* What the theorems rest on. *)
LEMMA SessionInvHolds == Spec => []SessionInv
BY SessionInvInit, SessionInvStep, PTL DEF Spec

-----------------------------------------------------------------------------
(* Every variable of the command, the login handler and the browser stays  *)
(* in its type, for any accounts, runs, tabs, calls and life of a token.   *)
THEOREM TypeCorrect == Spec => []TypeOK
<1>1. SessionInv => TypeOK
  BY DEF SessionInv
<1>. QED
  BY <1>1, SessionInvHolds, PTL

(* The login handler compares with a row that it has read before: the      *)
(* password of a 200 was the account's at some moment since the login was  *)
(* sent, whatever createsuperuser writes meanwhile.                        *)
THEOREM LoginsProvePassword == Spec => []LoginProvesPassword
<1>1. SessionInv => LoginProvesPassword
  BY DEF SessionInv, LoginInv, LoginProvesPassword
<1>. QED
  BY <1>1, SessionInvHolds, PTL

(* createsuperuser reports what it did: the UNIQUE email lets one run      *)
(* create the account, -update-password is needed for every later write,   *)
(* and a run that refuses or is not told the truth about a lost answer     *)
(* never claims a write it has not made.                                   *)
THEOREM ReportsAreTrue == Spec => []ReportIsTrue
<1>1. ASSUME SessionInv, NEW e \in Email \ Existing
      PROVE  LET w == writes[e]
                 Wrote(r, from) == \E i \in from..Len(w) : w[i] = r
                 Of(pc) == {r \in Run : runs[r].email = e /\ runs[r].pc = pc}
             IN  /\ \A r \in Of("created") : Len(w) > 0 /\ w[1] = r
                 /\ \A r \in Of("updated") : Wrote(r, 2)
                 /\ \A i \in 2..Len(w) : runs[w[i]].update
                 /\ \A r \in Of("exists") : users[e] # None /\ ~ Wrote(r, 1)
                 /\ w # << >> => users[e] = runs[w[Len(w)]].pw
  <2>1. AccountInv(e) /\ writes[e] \in Seq(Run)
    BY <1>1 DEF SessionInv, TypeOK
  <2>2. \A r \in Run : runs[r].email = e /\ runs[r].pc = "created" => Len(writes[e]) > 0 /\ writes[e][1] = r
    BY <2>1 DEF AccountInv
  <2>3. \A r \in Run : runs[r].email = e /\ runs[r].pc = "updated" => \E i \in 2..Len(writes[e]) : writes[e][i] = r
    BY <2>1 DEF AccountInv
  <2>4. \A i \in 2..Len(writes[e]) : runs[writes[e][i]].update
    BY <2>1 DEF AccountInv
  <2>5. ASSUME NEW r \in Run, runs[r].email = e, runs[r].pc = "exists"
        PROVE  users[e] # None /\ ~ \E i \in 1..Len(writes[e]) : writes[e][i] = r
    BY <2>1, <2>5 DEF AccountInv
  <2>6. writes[e] # << >> => users[e] = runs[writes[e][Len(writes[e])]].pw
    <3>1. writes[e] # << >> => Len(writes[e]) > 0
      BY <2>1
    <3>. QED
      BY <2>1, <3>1 DEF AccountInv
  <2>. QED
    BY <2>2, <2>3, <2>4, <2>5, <2>6
<1>2. SessionInv => ReportIsTrue
  BY <1>1 DEF ReportIsTrue
<1>. QED
  BY <1>2, SessionInvHolds, PTL

(* session.ts: in a browser of one tab, whose form is disabled while a     *)
(* login is awaited, the account the pages show is the one of the cookie,  *)
(* except where the body of a login was cut off after its headers.  Two    *)
(* tabs whose logins overlap may leave the cookie of one and the session   *)
(* of the other.                                                           *)
THEOREM SessionsNameCookie == ASSUME OneTab PROVE Spec => []SessionNamesCookie
<1>1. SessionInv => SessionNamesCookie
  BY OneTab DEF SessionInv, BrowserInv, Between, SessionNamesCookie
<1>. QED
  BY <1>1, SessionInvHolds, PTL
=============================================================================
