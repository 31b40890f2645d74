----------------------------- MODULE AdminKeys -----------------------------
(***************************************************************************)
(* The admin key endpoints (internal/admin/keys.go) over the api_keys      *)
(* table (internal/apikey): create, list, edit and revoke, from several    *)
(* administrators, tabs or scripts at once.  Every statement is atomic; an *)
(* edit is two of them, GetByID and then Update, with nothing held between.*)
(*                                                                         *)
(* A key is named after the request that created it; its secret is known   *)
(* by the same name and is only in that request's answer.                  *)
(***************************************************************************)
EXTENDS Naturals, FiniteSets

CONSTANTS
  Request,
  Existing,  \* keys created before the behaviour starts
  Label,     \* names and personas
  Op,        \* what administrators send
  Faults     \* what may befall each request: "db", a statement fails; "lostAck", it is done
             \* but reported as failed; "auth", the session has ended; "net", see KeyForms

Omitted == "omitted"   \* a field that is not in the body
Blank == "blank"       \* white space
NoPersona == "NULL"
Unknown == "unknown"   \* an id that no key has

Key == Request \cup Existing \cup {Unknown}
OpSet ==
  [kind : {"create", "list", "patch", "revoke"}, key : Key,
   name : Label \cup {Omitted, Blank}, persona : Label \cup {Omitted, Blank}]

ASSUME AdminAssumption ==
  /\ IsFiniteSet(Request)
  /\ Request \cap Existing = {} /\ {Unknown, "none"} \cap (Request \cup Existing) = {}
  /\ Label # {} /\ Label \cap {Omitted, Blank, NoPersona} = {}
  /\ Op \subseteq OpSet
  /\ Faults \in [Request -> SUBSET {"db", "lostAck", "auth", "net"}]

VARIABLES
  keys,     \* the rows of api_keys
  pc,
  op,
  current,  \* what GetByID returned to an edit that goes on
  resp,     \* the status answered
  shown,    \* the secret in the answer
  last      \* auxiliary: the request that last wrote a row

vars == << keys, pc, op, current, resp, shown, last >>

NoRow == [name |-> Blank, persona |-> NoPersona, secret |-> "none", revoked |-> FALSE]
Row == [name : Label \cup {Blank}, persona : Label \cup {NoPersona},
        secret : Key \cup {"none"}, revoked : BOOLEAN]
Exists(k) == keys[k].secret # "none"

TypeOK ==
  /\ keys \in [Key -> Row]
  /\ pc \in [Request -> {"idle", "received", "loaded", "done"}]
  /\ op \in [Request -> OpSet]
  /\ current \in [Request -> Row]
  /\ resp \in [Request -> {"none", "200", "201", "204", "400", "401", "404", "500"}]
  /\ shown \in [Request -> Key \cup {"none"}]
  /\ last \in [Key -> Request \cup {"none"}]

NoOp == [kind |-> "list", key |-> Unknown, name |-> Omitted, persona |-> Omitted]
FirstLabel == CHOOSE l \in Label : TRUE

Init ==
  /\ keys = [k \in Key |-> IF k \in Existing
                           THEN [NoRow EXCEPT !.name = FirstLabel, !.secret = k] ELSE NoRow]
  /\ pc = [r \in Request |-> "idle"]
  /\ op = [r \in Request |-> NoOp]
  /\ current = [r \in Request |-> NoRow]
  /\ resp = [r \in Request |-> "none"]
  /\ shown = [r \in Request |-> "none"]
  /\ last = [k \in Key |-> "none"]

(* normalizePersona: a missing or blank persona is NULL. *)
Normalize(p) == IF p \in {Omitted, Blank} THEN NoPersona ELSE p

Goto(r, from, to) == pc[r] = from /\ pc' = [pc EXCEPT ![r] = to]
Respond(r, status) == resp' = [resp EXCEPT ![r] = status]

(* A statement does its work and is reported to have, is reported to have  *)
(* failed all the same, or fails.                                          *)
Reported(r, ok) == Respond(r, ok) \/ ("lostAck" \in Faults[r] /\ Respond(r, "500"))

(* An id in a request is one that the list has shown, or none of a key. *)
Receive(r, o) ==
  /\ Goto(r, "idle", "received")
  /\ o.kind \in {"patch", "revoke"} => Exists(o.key) \/ o.key = Unknown
  /\ op' = [op EXCEPT ![r] = o]
  /\ UNCHANGED << keys, current, resp, shown, last >>

(* RequireAuth: no handler runs without a session. *)
Unauthorized(r) ==
  /\ "auth" \in Faults[r]
  /\ Goto(r, "received", "done")
  /\ Respond(r, "401")
  /\ UNCHANGED << keys, op, current, shown, last >>

(* decodeJSON and the check of the name. *)
BadName(r) ==
  \/ op[r].kind = "create" /\ op[r].name \in {Omitted, Blank}
  \/ op[r].kind = "patch" /\ op[r].name = Blank

Refuse(r) ==
  /\ BadName(r)
  /\ Goto(r, "received", "done")
  /\ Respond(r, "400")
  /\ UNCHANGED << keys, op, current, shown, last >>

(* Create: only the hash of the secret is stored; the secret is in the 201. *)
Create(r) ==
  /\ op[r].kind = "create" /\ ~ BadName(r)
  /\ Goto(r, "received", "done")
  /\ keys' = [keys EXCEPT ![r] = [name |-> op[r].name, persona |-> Normalize(op[r].persona),
                                  secret |-> r, revoked |-> FALSE]]
  /\ last' = [last EXCEPT ![r] = r]
  /\ Reported(r, "201")
  /\ shown' = [shown EXCEPT ![r] = IF resp'[r] = "201" THEN r ELSE "none"]
  /\ UNCHANGED << op, current >>

List(r) ==
  /\ op[r].kind = "list"
  /\ Goto(r, "received", "done")
  /\ Respond(r, "200")
  /\ UNCHANGED << keys, op, current, shown, last >>

(* Update: the first statement, then the fields that were not sent are     *)
(* taken from what it returned.                                            *)
GetByID(r) ==
  /\ op[r].kind = "patch" /\ ~ BadName(r)
  /\ Exists(op[r].key)
  /\ Goto(r, "received", "loaded")
  /\ current' = [current EXCEPT ![r] = keys[op[r].key]]
  /\ UNCHANGED << keys, op, resp, shown, last >>

MergedName(r) == IF op[r].name # Omitted THEN op[r].name ELSE current[r].name
(* Mutant: A blank persona taken for an omitted one. *)
MergedNonBlank(r) ==
  IF op[r].persona \notin {Omitted, Blank} THEN op[r].persona ELSE current[r].persona

MergedPersona(r) == IF op[r].persona # Omitted THEN Normalize(op[r].persona) ELSE current[r].persona

(* Mutant: Update that issues a new secret. *)
EditedRotating(r, row) ==
  [row EXCEPT !.name = MergedName(r), !.persona = MergedPersona(r), !.secret = r]

(* UPDATE ... SET name, persona: the row as it is now, and those two columns. *)
Edited(r, row) == [row EXCEPT !.name = MergedName(r), !.persona = MergedPersona(r)]

Update(r) ==
  /\ Goto(r, "loaded", "done")
  /\ keys' = [keys EXCEPT ![op[r].key] = Edited(r, @)]
  /\ last' = [last EXCEPT ![op[r].key] = r]
  /\ Reported(r, "200")
  /\ current' = [current EXCEPT ![r] = NoRow]
  /\ UNCHANGED << op, shown >>

(* Mutant: Revoke without AND revoked_at IS NULL. *)
RevocableAgain(k) ==
  Exists(k)

(* Revoke: UPDATE ... WHERE revoked_at IS NULL. *)
Revocable(k) == Exists(k) /\ ~ keys[k].revoked

Revoke(r) ==
  /\ op[r].kind = "revoke" /\ Revocable(op[r].key)
  /\ Goto(r, "received", "done")
  /\ keys' = [keys EXCEPT ![op[r].key].revoked = TRUE]
  /\ Reported(r, "204")
  /\ UNCHANGED << op, current, shown, last >>

(* An unknown id, or for Revoke a key already revoked. *)
NotFound(r) ==
  /\ \/ op[r].kind = "patch" /\ ~ BadName(r) /\ ~ Exists(op[r].key)
     \/ op[r].kind = "revoke" /\ ~ Revocable(op[r].key)
  /\ Goto(r, "received", "done")
  /\ Respond(r, "404")
  /\ UNCHANGED << keys, op, current, shown, last >>

(* A statement fails and has no effect. *)
StoreFails(r) ==
  /\ "db" \in Faults[r]
  /\ pc[r] \in {"received", "loaded"} /\ ~ BadName(r)
  /\ pc' = [pc EXCEPT ![r] = "done"]
  /\ Respond(r, "500")
  /\ current' = [current EXCEPT ![r] = NoRow]
  /\ UNCHANGED << keys, op, shown, last >>

Handle(r) ==
  \/ Unauthorized(r) \/ Refuse(r) \/ Create(r) \/ List(r) \/ GetByID(r) \/ Update(r)
  \/ Revoke(r) \/ NotFound(r) \/ StoreFails(r)

Done == (\A r \in Request : pc[r] = "done") /\ UNCHANGED vars

Next == Done \/ \E r \in Request : Handle(r) \/ \E o \in Op : Receive(r, o)

Spec == Init /\ [][Next]_vars

-----------------------------------------------------------------------------
RevokesOf(k) == {r \in Request : op[r].kind = "revoke" /\ op[r].key = k}

(* A key is revoked by one request: of any number of revocations, one at   *)
(* most is answered 204, and only when the key is revoked; those answered  *)
(* 404 for a key that exists really found it revoked, also when the answer *)
(* to the first was lost.  The admin page tells the user so.               *)
RevokedOnce ==
  \A k \in Key :
    /\ Cardinality({r \in RevokesOf(k) : resp[r] = "204"}) <= 1
    /\ k # Unknown => \A r \in RevokesOf(k) : resp[r] \in {"204", "404"} => keys[k].revoked

(* "This cannot be undone": no edit, however late, brings a key back or    *)
(* changes its secret.                                                     *)
RevocationIsFinal ==
  [][\A k \in Key : Exists(k) =>
       (keys[k].revoked => keys[k].revoked') /\ keys[k].secret' = keys[k].secret]_vars

(* When every edit sends both fields, as the edit page does, a row is what *)
(* the last writer sent, never a mixture of two edits, and a blank persona *)
(* clears the one there was.                                               *)
WholeFormWins ==
  (\A r \in Request : op[r].kind = "patch" => Omitted \notin {op[r].name, op[r].persona}) =>
    \A k \in Key : LET r == last[k]
                   IN  r # "none" => keys[k].name = op[r].name /\ keys[k].persona = Normalize(op[r].persona)
=============================================================================
