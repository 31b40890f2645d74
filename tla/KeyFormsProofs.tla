--------------------------- MODULE KeyFormsProofs ---------------------------
(***************************************************************************)
(* What KeyForms and AdminKeys promise, for any number of administrators,  *)
(* requests, visits, keys and faults.                                      *)
(*                                                                         *)
(* The argument has two halves.  AdminInv is about the server: a request   *)
(* creates the row of its own name and no other, nobody revokes a key      *)
(* twice, and a row holds what its last writer sent.  VisitInv is about    *)
(* the tab: a form that may be submitted has no request whose outcome it   *)
(* was not told of, or which made it a key.                                *)
(***************************************************************************)
EXTENDS KeyForms, FiniteSetTheorems, TLAPS

-----------------------------------------------------------------------------
(* The server. *)

(* What the stage of a request says of its answer and its key. *)
SentOp(r) ==
  /\ pc[r] = "loaded" => op[r].kind = "patch"
  /\ pc[r] # "done" => resp[r] = "none" /\ shown[r] = "none"
  /\ op[r].kind \in {"patch", "revoke"} => Exists(op[r].key) \/ op[r].key = Unknown
  /\ pc[r] = "loaded" => Exists(op[r].key)
  /\ Exists(r) => pc[r] = "done" /\ op[r].kind = "create"
  /\ resp[r] = "201" => Exists(r) /\ shown[r] = r

(* A row has its own secret, and what its last writer sent in full. *)
RowInv(k) ==
  /\ keys[k].secret \in {k, "none"}
  /\ ~ Exists(k) => ~ keys[k].revoked
  /\ k = Unknown => ~ Exists(k)
  /\ last[k] # "none" =>
       /\ pc[last[k]] = "done" /\ op[last[k]].kind \in {"create", "patch"}
       /\ op[last[k]].kind = "create" \/ Omitted \notin {op[last[k]].name, op[last[k]].persona} =>
            /\ keys[k].name = op[last[k]].name
            /\ keys[k].persona = Normalize(op[last[k]].persona)

(* A revocation that was answered found or made its key revoked, and no    *)
(* other one was answered 204.                                             *)
RevocationInv ==
  \A r \in Request : op[r].kind = "revoke" =>
    /\ resp[r] = "204" => keys[op[r].key].revoked
    /\ resp[r] = "404" /\ op[r].key # Unknown => keys[op[r].key].revoked
    /\ \A s \in Request : s # r /\ op[s].kind = "revoke" /\ op[s].key = op[r].key
                            => ~ (resp[r] = "204" /\ resp[s] = "204")

AdminInv == (\A r \in Request : SentOp(r)) /\ (\A k \in Key : RowInv(k)) /\ RevocationInv

(* A row that is created or edited is one of the table's. *)
LEMMA WrittenRows ==
  ASSUME TypeOK, NEW r \in Request
  PROVE  /\ Normalize(op[r].persona) \in Label \cup {NoPersona}
         /\ op[r].name \in Label \cup {Omitted, Blank}
         /\ MergedName(r) \in Label \cup {Blank}
         /\ MergedPersona(r) \in Label \cup {NoPersona}
         /\ op[r].key \in Key /\ keys[op[r].key] \in Row
         /\ r \in Key /\ r # "none" /\ r # Unknown
<1> USE AdminAssumption DEF TypeOK, OpSet, Row
<1>1. /\ op[r].persona \in Label \cup {Omitted, Blank} /\ op[r].name \in Label \cup {Omitted, Blank}
      /\ current[r].name \in Label \cup {Blank} /\ current[r].persona \in Label \cup {NoPersona}
      /\ op[r].key \in Key
  OBVIOUS
<1>2. r \in Key /\ r # "none" /\ r # Unknown
  BY DEF Key
<1>. QED
  BY <1>1, <1>2 DEF Normalize, MergedName, MergedPersona

(* A request that arrives is one of the requests there can be. *)
LEMMA ReceiveKeepsType ==
  ASSUME TypeOK, NEW r \in Request, NEW o \in OpSet, Receive(r, o)
  PROVE  TypeOK'
<1> USE DEF TypeOK, Receive, Goto
<1>1. pc' \in [Request -> {"idle", "received", "loaded", "done"}]
  OBVIOUS
<1>2. op' \in [Request -> OpSet]
  OBVIOUS
<1>. QED
  BY <1>1, <1>2

(* Every step of a handler leaves the rows and the answers of their types. *)
LEMMA HandleKeepsType ==
  ASSUME TypeOK, NEW r \in Request, Handle(r)
  PROVE  TypeOK'
<1>1. pc' \in [Request -> {"idle", "received", "loaded", "done"}]
  BY DEF TypeOK, Handle, Unauthorized, Refuse, Create, List, GetByID, Update, Revoke, NotFound,
         StoreFails, Goto
<1>2. op' = op
  BY DEF Handle, Unauthorized, Refuse, Create, List, GetByID, Update, Revoke, NotFound, StoreFails
<1>3. resp' \in [Request -> {"none", "200", "201", "204", "400", "401", "404", "500"}]
  BY DEF TypeOK, Handle, Unauthorized, Refuse, Create, List, GetByID, Update, Revoke, NotFound,
         StoreFails, Respond, Reported
<1>4. NoRow \in Row
  BY DEF NoRow, Row
<1>5. current' \in [Request -> Row]
  <2>1. CASE GetByID(r)
    BY <2>1, WrittenRows DEF TypeOK, GetByID
  <2>. QED
    BY <1>4, <2>1 DEF TypeOK, Handle, Unauthorized, Refuse, Create, List, Update, Revoke, NotFound,
                      StoreFails
<1>6. keys' \in [Key -> Row]
  <2>0. /\ op[r].key \in Key /\ keys[op[r].key] \in Row /\ r \in Key
        /\ MergedName(r) \in Label \cup {Blank} /\ MergedPersona(r) \in Label \cup {NoPersona}
        /\ Normalize(op[r].persona) \in Label \cup {NoPersona}
        /\ op[r].name \in Label \cup {Omitted, Blank}
    BY WrittenRows
  <2>1. CASE Create(r)
    <3>1. op[r].name \in Label
      BY <2>0, <2>1 DEF Create, BadName
    <3>2. [name |-> op[r].name, persona |-> Normalize(op[r].persona), secret |-> r, revoked |-> FALSE]
            \in Row
      BY <2>0, <3>1 DEF Row
    <3>. QED
      BY <2>0, <2>1, <3>2 DEF TypeOK, Create
  <2>2. CASE Update(r)
    <3>1. Edited(r, keys[op[r].key]) \in Row
      BY <2>0 DEF Edited, Row
    <3>. QED
      BY <2>0, <2>2, <3>1 DEF TypeOK, Update
  <2>3. CASE Revoke(r)
    <3>1. [keys[op[r].key] EXCEPT !.revoked = TRUE] \in Row
      BY <2>0 DEF Row
    <3>. QED
      BY <2>0, <2>3, <3>1 DEF TypeOK, Revoke
  <2>. QED
    BY <2>1, <2>2, <2>3 DEF TypeOK, Handle, Unauthorized, Refuse, List, GetByID, NotFound, StoreFails
<1>7. shown' \in [Request -> Key \cup {"none"}]
  BY WrittenRows DEF TypeOK, Handle, Unauthorized, Refuse, Create, List, GetByID, Update, Revoke,
         NotFound, StoreFails
<1>8. last' \in [Key -> Request \cup {"none"}]
  BY WrittenRows DEF TypeOK, Handle, Unauthorized, Refuse, Create, List, GetByID, Update, Revoke,
         NotFound, StoreFails
<1>. QED
  BY <1>1, <1>2, <1>3, <1>5, <1>6, <1>7, <1>8 DEF TypeOK

(* What a step of a handler leaves alone: the other requests; the secrets  *)
(* there are, and that a key is revoked.  Only Create adds a row, its own. *)
LEMMA HandleChanges ==
  ASSUME TypeOK, AdminInv, NEW r \in Request, Handle(r)
  PROVE  /\ op' = op /\ pc[r] \in {"received", "loaded"} /\ pc'[r] \in {"loaded", "done"}
         /\ \A s \in Request : s # r => pc'[s] = pc[s] /\ resp'[s] = resp[s] /\ shown'[s] = shown[s]
         /\ \A k \in Key : Exists(k) => /\ keys'[k].secret = keys[k].secret
                                        /\ keys[k].revoked => keys'[k].revoked
         /\ \A k \in Key : keys'[k].secret # "none" => Exists(k) \/ (k = r /\ Create(r))
<1> USE DEF TypeOK
<1>1. op' = op /\ pc[r] \in {"received", "loaded"} /\ pc'[r] \in {"loaded", "done"}
  BY DEF Handle, Unauthorized, Refuse, Create, List, GetByID, Update, Revoke, NotFound, StoreFails, Goto
<1>2. \A s \in Request : s # r => pc'[s] = pc[s] /\ resp'[s] = resp[s] /\ shown'[s] = shown[s]
  BY DEF Handle, Unauthorized, Refuse, Create, List, GetByID, Update, Revoke, NotFound, StoreFails,
         Goto, Respond, Reported
<1>0. r \in Key /\ op[r].key \in Key /\ keys[op[r].key] \in Row
  BY WrittenRows
<1>3. CASE Create(r)
  <2>1. ~ Exists(r)
    BY <1>3 DEF Create, Goto, AdminInv, SentOp
  <2>2. /\ keys'[r].secret = r
        /\ \A k \in Key : k # r => keys'[k] = keys[k]
    BY <1>0, <1>3 DEF Create
  <2>. QED
    BY <1>1, <1>2, <1>3, <2>1, <2>2 DEF Exists
<1>4. CASE Update(r)
  <2>1. /\ keys'[op[r].key].secret = keys[op[r].key].secret
        /\ keys'[op[r].key].revoked = keys[op[r].key].revoked
        /\ \A k \in Key : k # op[r].key => keys'[k] = keys[k]
    BY <1>0, <1>4 DEF Update, Edited, Row
  <2>. QED
    BY <1>1, <1>2, <2>1 DEF Exists
<1>5. CASE Revoke(r)
  <2>1. /\ keys'[op[r].key].secret = keys[op[r].key].secret
        /\ keys'[op[r].key].revoked = TRUE
        /\ \A k \in Key : k # op[r].key => keys'[k] = keys[k]
    BY <1>0, <1>5 DEF Revoke, Row
  <2>. QED
    BY <1>1, <1>2, <2>1 DEF Exists
<1>6. CASE keys' = keys
  BY <1>1, <1>2, <1>6 DEF Exists
<1>. QED
  BY <1>3, <1>4, <1>5, <1>6 DEF Handle, Unauthorized, Refuse, List, GetByID, NotFound, StoreFails

LEMMA HandleKeepsSent ==
  ASSUME TypeOK, AdminInv, NEW r \in Request, Handle(r), NEW s \in Request
  PROVE  SentOp(s)'
<1>0. /\ s \in Key /\ r \in Key /\ r # "none" /\ op[s].key \in Key /\ op[r].key \in Key
  BY WrittenRows
<1>1. /\ op' = op /\ SentOp(s) /\ pc[r] \in {"received", "loaded"}
      /\ Exists(op[s].key) => keys'[op[s].key].secret # "none"
  BY <1>0, HandleChanges DEF AdminInv, Exists
<1>2. CASE s # r
  <2>1. pc'[s] = pc[s] /\ resp'[s] = resp[s] /\ shown'[s] = shown[s]
    BY <1>2, HandleChanges
  <2>2. keys'[s].secret # "none" <=> Exists(s)
    BY <1>0, <1>2, HandleChanges DEF Exists
  <2>. QED
    BY <1>1, <2>1, <2>2 DEF SentOp, Exists
<1>3. CASE s = r
  <2> USE DEF TypeOK
  <2>1. CASE Create(r)
    BY <1>0, <1>1, <1>3, <2>1 DEF Create, Goto, Respond, Reported, SentOp, Exists
  <2>2. CASE ~ Create(r)
    <3>1. keys'[r].secret = "none" /\ resp[r] = "none" /\ shown[r] = "none"
      BY <1>0, <1>1, <1>3, <2>2, HandleChanges DEF SentOp, Exists
    <3>2. resp'[r] # "201" /\ (pc'[r] # "done" => resp'[r] = "none" /\ shown'[r] = "none")
      BY <2>2, <3>1 DEF Handle, Unauthorized, Refuse, List, GetByID, Update, Revoke, NotFound, StoreFails,
           Goto, Respond, Reported
    <3>3. pc'[r] = "loaded" => op[r].kind = "patch" /\ Exists(op[r].key)
      BY <2>2 DEF Handle, Unauthorized, Refuse, List, GetByID, Update, Revoke, NotFound, StoreFails, Goto
    <3>. QED
      BY <1>0, <1>1, <1>3, <3>1, <3>2, <3>3 DEF SentOp, Exists
  <2>. QED
    BY <2>1, <2>2
<1>. QED
  BY <1>2, <1>3

(* A row holds what its last writer sent: whoever writes a row becomes its *)
(* last writer in the same step.                                           *)
LEMMA HandleKeepsRows ==
  ASSUME TypeOK, AdminInv, NEW r \in Request, Handle(r), NEW k \in Key
  PROVE  RowInv(k)'
<1>0. /\ r \in Key /\ r # "none" /\ r # Unknown /\ op[r].key \in Key /\ keys[op[r].key] \in Row
  BY WrittenRows
<1>1. /\ op' = op /\ RowInv(k) /\ pc[r] \in {"received", "loaded"} /\ SentOp(r)
      /\ \A s \in Request : s # r => pc'[s] = pc[s]
      /\ pc'[r] \in {"loaded", "done"} /\ last[k] \in Request \cup {"none"}
  BY HandleChanges DEF AdminInv, TypeOK
<1>2. last[k] # "none" => pc'[last[k]] = "done"
  BY <1>1 DEF RowInv
<1>3. CASE keys'[k] = keys[k] /\ last'[k] = last[k]
  BY <1>1, <1>2, <1>3 DEF RowInv, Exists
<1>4. CASE Create(r) /\ k = r
  <2>1. /\ keys'[k] = [name |-> op[r].name, persona |-> Normalize(op[r].persona), secret |-> r,
                       revoked |-> FALSE]
        /\ last'[k] = r /\ pc'[r] = "done" /\ op[r].kind = "create"
    BY <1>0, <1>4 DEF Create, Goto, TypeOK
  <2>. QED
    BY <1>0, <1>1, <1>4, <2>1 DEF RowInv, Exists, Normalize
<1>5. CASE Update(r) /\ k = op[r].key
  <2>1. /\ keys'[k].name = MergedName(r) /\ keys'[k].persona = MergedPersona(r)
        /\ keys'[k].secret = keys[k].secret /\ keys'[k].revoked = keys[k].revoked
        /\ last'[k] = r /\ pc'[r] = "done" /\ op[r].kind = "patch"
    BY <1>0, <1>1, <1>5 DEF Update, Edited, Goto, TypeOK, Row, SentOp
  <2>2. Omitted \notin {op[r].name, op[r].persona} =>
          keys'[k].name = op[r].name /\ keys'[k].persona = Normalize(op[r].persona)
    BY <2>1 DEF MergedName, MergedPersona
  <2>3. op[r].kind # "create"
    BY <2>1
  <2>. QED
    BY <1>0, <1>1, <2>1, <2>2, <2>3 DEF RowInv, Exists, Normalize
<1>6. CASE Revoke(r) /\ k = op[r].key
  <2>1. /\ keys'[k].name = keys[k].name /\ keys'[k].persona = keys[k].persona
        /\ keys'[k].secret = keys[k].secret /\ last' = last /\ Exists(k)
    BY <1>0, <1>6 DEF Revoke, Revocable, TypeOK, Row
  <2>. QED
    BY <1>1, <1>2, <2>1 DEF RowInv, Exists
<1>. QED
  <2>1. Create(r) /\ k # r => keys'[k] = keys[k] /\ last'[k] = last[k]
    BY DEF Create, TypeOK
  <2>2. Update(r) /\ k # op[r].key => keys'[k] = keys[k] /\ last'[k] = last[k]
    BY DEF Update, TypeOK
  <2>3. Revoke(r) /\ k # op[r].key => keys'[k] = keys[k] /\ last'[k] = last[k]
    BY DEF Revoke, TypeOK
  <2>4. Create(r) \/ Update(r) \/ Revoke(r) \/ (keys' = keys /\ last' = last)
    BY DEF Handle, Unauthorized, Refuse, List, GetByID, NotFound, StoreFails
  <2>. QED
    BY <1>3, <1>4, <1>5, <1>6, <2>1, <2>2, <2>3, <2>4

LEMMA HandleKeepsRevocation ==
  ASSUME TypeOK, AdminInv, NEW r \in Request, Handle(r)
  PROVE  RevocationInv'
<1>0. ASSUME NEW s \in Request, op[s].kind = "revoke"
      PROVE  /\ op[s].key \in Key
             /\ op[s].key # Unknown => Exists(op[s].key)
             /\ Exists(op[s].key) /\ keys[op[s].key].revoked => keys'[op[s].key].revoked
             /\ ~ Exists(op[s].key) => ~ keys[op[s].key].revoked
  BY <1>0, WrittenRows, HandleChanges DEF AdminInv, SentOp, RowInv
<1>1. /\ op' = op /\ RevocationInv /\ resp[r] = "none"
      /\ \A s \in Request : s # r => resp'[s] = resp[s]
  BY HandleChanges DEF AdminInv, SentOp
<1>2. ASSUME op[r].kind = "revoke"
      PROVE  /\ resp'[r] = "204" => keys'[op[r].key].revoked /\ ~ keys[op[r].key].revoked
             /\ resp'[r] = "404" /\ op[r].key # Unknown => keys[op[r].key].revoked
  <2>1. CASE Revoke(r)
    BY <1>0, <1>2, <2>1 DEF Revoke, Revocable, Reported, Respond, TypeOK, Row
  <2>2. CASE NotFound(r)
    BY <1>0, <1>2, <2>2 DEF NotFound, Revocable, Respond, TypeOK
  <2>3. CASE Unauthorized(r) \/ StoreFails(r)
    BY <2>3 DEF Unauthorized, StoreFails, Respond, TypeOK
  <2>4. ~ (Refuse(r) \/ Create(r) \/ List(r) \/ GetByID(r))
    BY <1>2 DEF Refuse, BadName, Create, List, GetByID
  <2>5. ~ Update(r)
    BY <1>2 DEF Update, Goto, AdminInv, SentOp
  <2>. QED
    BY <2>1, <2>2, <2>3, <2>4, <2>5 DEF Handle
<1>3. ASSUME NEW s \in Request, op[s].kind = "revoke"
      PROVE  /\ resp'[s] = "204" => keys'[op[s].key].revoked
             /\ resp'[s] = "404" /\ op[s].key # Unknown => keys'[op[s].key].revoked
  <2>1. CASE s = r
    BY <1>0, <1>2, <1>3, <2>1
  <2>2. CASE s # r
    BY <1>0, <1>1, <1>3, <2>2 DEF RevocationInv
  <2>. QED
    BY <2>1, <2>2
<1>4. ASSUME NEW s \in Request, NEW t \in Request, t # s, op[s].kind = "revoke",
             op[t].kind = "revoke", op[t].key = op[s].key
      PROVE  ~ (resp'[s] = "204" /\ resp'[t] = "204")
  BY <1>1, <1>2, <1>4 DEF RevocationInv
<1>. QED
  BY <1>1, <1>3, <1>4 DEF RevocationInv

(* A request that arrives is idle before: no row, writer or answer is its. *)
LEMMA ReceiveKeepsAdminInv ==
  ASSUME TypeOK, AdminInv, NEW r \in Request, NEW o \in OpSet, Receive(r, o)
  PROVE  AdminInv'
<1>1. /\ pc[r] = "idle" /\ pc' = [pc EXCEPT ![r] = "received"] /\ op' = [op EXCEPT ![r] = o]
      /\ o.kind \in {"patch", "revoke"} => Exists(o.key) \/ o.key = Unknown
      /\ keys' = keys /\ current' = current /\ resp' = resp /\ shown' = shown /\ last' = last
      /\ SentOp(r)
  BY DEF Receive, Goto, AdminInv
<1>2. /\ pc'[r] = "received" /\ op'[r] = o /\ resp[r] = "none" /\ shown[r] = "none" /\ ~ Exists(r)
      /\ \A s \in Request : s # r => pc'[s] = pc[s] /\ op'[s] = op[s]
  BY <1>1 DEF TypeOK, SentOp
<1>3. ASSUME NEW s \in Request
      PROVE  SentOp(s)'
  BY <1>1, <1>2 DEF AdminInv, SentOp, Exists
<1>4. ASSUME NEW k \in Key
      PROVE  RowInv(k)'
  <2>1. RowInv(k) /\ last[k] \in Request \cup {"none"}
    BY DEF AdminInv, TypeOK
  <2>2. last[k] # "none" => last[k] # r
    BY <1>1, <2>1 DEF RowInv
  <2>. QED
    BY <1>1, <1>2, <2>1, <2>2 DEF RowInv, Exists, Normalize
<1>5. RevocationInv'
  BY <1>1, <1>2 DEF AdminInv, RevocationInv
<1>. QED
  BY <1>3, <1>4, <1>5 DEF AdminInv

LEMMA AdminInvInit == Init => TypeOK /\ AdminInv
<1> SUFFICES ASSUME Init PROVE TypeOK /\ AdminInv
  OBVIOUS
<1> USE AdminAssumption
<1>1. FirstLabel \in Label
  BY DEF FirstLabel
<1>2. /\ \A k \in Existing : keys[k] = [name |-> FirstLabel, persona |-> NoPersona, secret |-> k,
                                       revoked |-> FALSE]
      /\ \A k \in Key : k \notin Existing => keys[k] = NoRow
      /\ DOMAIN keys = Key /\ Existing \subseteq Key
  BY DEF Init, NoRow, Key
<1>3. NoRow \in Row /\ NoOp \in OpSet
  BY DEF NoRow, Row, NoOp, OpSet, Key
<1>4. \A k \in Existing : [name |-> FirstLabel, persona |-> NoPersona, secret |-> k, revoked |-> FALSE] \in Row
  BY <1>1, <1>2 DEF Row
<1>5. keys \in [Key -> Row]
  <2>1. keys = [k \in Key |-> keys[k]]
    BY DEF Init
  <2>2. \A k \in Key : keys[k] \in Row
    BY <1>2, <1>3, <1>4
  <2>. QED
    BY <2>1, <2>2
<1>6. TypeOK
  BY <1>3, <1>5 DEF Init, TypeOK
<1>7. \A k \in Key : (k \in Existing => Exists(k)) /\ (k \notin Existing => ~ Exists(k))
  <2>1. \A k \in Existing : k # "none"
    OBVIOUS
  <2>2. ASSUME NEW k \in Existing PROVE keys[k].secret = k
    <3>1. keys[k] = [name |-> FirstLabel, persona |-> NoPersona, secret |-> k, revoked |-> FALSE]
      BY <1>2
    <3>. QED
      BY <3>1
  <2>. QED
    BY <1>2, <2>1, <2>2 DEF Exists, NoRow
<1>8. \A r \in Request : SentOp(r)
  BY <1>7 DEF Init, SentOp, NoOp, Key
<1>9. \A k \in Key : RowInv(k)
  BY <1>2, <1>7 DEF Init, RowInv, NoRow, Key
<1>10. RevocationInv
  BY DEF Init, RevocationInv, NoOp
<1>. QED
  BY <1>6, <1>8, <1>9, <1>10 DEF AdminInv

(* The rows and answers of the server, whatever the pages do.              *)
AdminStep ==
  \/ \E r \in Request : Handle(r) \/ \E o \in OpSet : Receive(r, o)
  \/ UNCHANGED vars

LEMMA AdminInvStep == TypeOK /\ AdminInv /\ AdminStep => TypeOK' /\ AdminInv'
<1> SUFFICES ASSUME TypeOK, AdminInv, AdminStep PROVE TypeOK' /\ AdminInv'
  OBVIOUS
<1>1. ASSUME NEW r \in Request, Handle(r)
      PROVE  TypeOK' /\ AdminInv'
  <2>1. TypeOK'
    BY <1>1, HandleKeepsType
  <2>2. \A s \in Request : SentOp(s)'
    BY <1>1, HandleKeepsSent
  <2>3. \A k \in Key : RowInv(k)'
    BY <1>1, HandleKeepsRows
  <2>4. RevocationInv'
    BY <1>1, HandleKeepsRevocation
  <2>. QED
    BY <2>1, <2>2, <2>3, <2>4 DEF AdminInv
<1>2. ASSUME NEW r \in Request, NEW o \in OpSet, Receive(r, o)
      PROVE  TypeOK' /\ AdminInv'
  BY <1>2, ReceiveKeepsType, ReceiveKeepsAdminInv
<1>3. CASE UNCHANGED vars
  BY <1>3 DEF vars, TypeOK, AdminInv, SentOp, RowInv, RevocationInv, Exists
<1>. QED
  BY <1>1, <1>2, <1>3 DEF AdminStep

-----------------------------------------------------------------------------
(* The tab. *)

(* The requests of a visit that may have made a key, as far as it knows. *)
Untold(v) == {r \in Request : by[r] = v /\ told[r] # "failed"}

(* A visit is unopened, open in the tab, or left; it keeps a secret only   *)
(* while it shows the panel, and waits only for the request it last sent.  *)
VisitInv(v) ==
  /\ form[v].page = None => form[v] = Unopened /\ \A r \in Request : by[r] # v
  /\ form[v].page \in {"new", "edit"} <=> at = v
  /\ at # v => form[v].created = None /\ ~ form[v].submitting
  /\ at = v =>
       /\ form[v].view \in {"loading", "notfound", "error"} => \A r \in Request : by[r] # v
       /\ form[v].view = "form" => Untold(v) \subseteq (IF form[v].submitting THEN {form[v].req} ELSE {})
       /\ form[v].view = "created" =>
            \E r \in Request : Untold(v) = {r} /\ told[r] = "201" /\ form[v].created = r
       /\ form[v].view # None
       /\ form[v].view # "created" => form[v].created = None
       /\ form[v].view # "form" => ~ form[v].submitting
  /\ form[v].submitting =>
       /\ form[v].req \in Request /\ by[form[v].req] = v /\ told[form[v].req] = None
       /\ op[form[v].req] = Body(form[v])
  /\ \A r, s \in Untold(v) : r = s

(* A page is told of a key that the server has answered with. *)
ToldInv(r) ==
  /\ pc[r] = "idle" => by[r] = None /\ told[r] = None
  /\ told[r] = "201" => resp[r] = "201"

FormsInv ==
  /\ FormsTypeOK /\ AdminInv
  /\ \A r \in Request : ToldInv(r)
  /\ \A v \in Visit : VisitInv(v)

LEMMA FreshIsUnused ==
  ASSUME NEW R, Unused(R) # {}
  PROVE  Fresh(R) \in R /\ pc[Fresh(R)] = "idle"
BY DEF Unused, Fresh

(* What a form sends is a request that the server can be sent. *)
LEMMA BodyIsOp ==
  ASSUME FormsTypeOK, NEW v \in Visit
  PROVE  Body(form[v]) \in OpSet
<1>1. form[v] \in FormSet
  BY DEF FormsTypeOK
<1>2. Unknown \in Key
  BY DEF Key
<1>. QED
  BY <1>1, <1>2 DEF Body, FormSet, OpSet

LEMMA UnmountedIsForm ==
  ASSUME NEW f \in FormSet
  PROVE  /\ Unmounted(f) \in FormSet
         /\ Unmounted(f).page = "left" /\ Unmounted(f).created = None /\ ~ Unmounted(f).submitting
<1>1. ASSUME NEW view \in {None, "loading"}
      PROVE  LET g == [Unopened EXCEPT !.page = "left", !.view = view]
             IN  g \in FormSet /\ g.page = "left" /\ g.created = None /\ ~ g.submitting
  BY DEF Unopened, FormSet, Key
<1>. QED
  BY <1>1 DEF Unmounted

(* Every step of the tab or of other clients is a step of the server, or   *)
(* leaves the server alone.                                                *)
LEMMA FormsStepIsAdminStep ==
  ASSUME FormsTypeOK, [FormsNext]_formVars
  PROVE  AdminStep
<1> USE FormsAssumption, AdminAssumption
<1>1. CASE UNCHANGED formVars
  BY <1>1 DEF formVars, AdminStep
<1>2. ASSUME NEW v \in Visit, Submit(v)
      PROVE  AdminStep
  BY <1>2, FreshIsUnused, BodyIsOp DEF Submit, AdminStep
<1>3. ASSUME NEW k \in Key, RevokeOnList(k)
      PROVE  AdminStep
  <2>1. [kind |-> "revoke", key |-> k, name |-> Omitted, persona |-> Omitted] \in OpSet
    BY DEF OpSet
  <2>. QED
    BY <1>3, <2>1, FreshIsUnused DEF RevokeOnList, AdminStep
<1>4. ASSUME NEW o \in Op, OtherSends(o)
      PROVE  AdminStep
  BY <1>4, FreshIsUnused DEF OtherSends, AdminStep
<1>5. ASSUME NEW r \in Request, Served(r)
      PROVE  AdminStep
  BY <1>5 DEF Served, AdminStep
<1>6. ASSUME NEW v \in Visit, User(v), ~ Submit(v)
      PROVE  AdminStep
  BY <1>6 DEF User, OpenNew, OpenEdit, RetryLoad, Type, SubmitBlank, Copy, Dismiss, Leave, AdminStep
<1>7. ASSUME NEW v \in Visit, LoadEnds(v) \/ \E r \in Request : SubmitEnds(v, r)
      PROVE  AdminStep
  BY <1>7 DEF LoadEnds, SubmitEnds, SubmitFails, SubmitUnauthorized, CreateEnds, SaveEnds, AdminStep
<1>8. CASE SignIn \/ AtRest
  BY <1>8 DEF SignIn, AtRest, formVars, AdminStep
<1>. QED
  BY <1>1, <1>2, <1>3, <1>4, <1>5, <1>6, <1>7, <1>8 DEF FormsNext

TabTypeOK ==
  /\ at \in Visit \cup {KeysPage, Login}
  /\ form \in [Visit -> FormSet]
  /\ by \in [Request -> Visit \cup {None}]
  /\ told \in [Request -> {None, "201", "200", "401", "failed"}]

LEMMA UserKeepsTabType ==
  ASSUME FormsTypeOK, NEW v \in Visit, User(v)
  PROVE  TabTypeOK'
<1>0. TabTypeOK /\ form[v] \in FormSet /\ Unmounted(form[v]) \in FormSet
  BY UnmountedIsForm DEF FormsTypeOK, TabTypeOK
<1>1. CASE OpenNew(v)
  <2>1. [form[v] EXCEPT !.page = "new", !.view = "form"] \in FormSet
    BY <1>0 DEF FormSet
  <2>. QED
    BY <1>0, <1>1, <2>1 DEF TabTypeOK, OpenNew
<1>2. ASSUME NEW k \in Key, OpenEdit(v, k)
      PROVE  TabTypeOK'
  <2>1. [form[v] EXCEPT !.page = "edit", !.key = k, !.view = "loading"] \in FormSet
    BY <1>0 DEF FormSet
  <2>. QED
    BY <1>0, <1>2, <2>1 DEF TabTypeOK, OpenEdit
<1>3. CASE RetryLoad(v)
  <2>1. [form[v] EXCEPT !.view = "loading"] \in FormSet
    BY <1>0 DEF FormSet
  <2>. QED
    BY <1>0, <1>3, <2>1 DEF TabTypeOK, RetryLoad
<1>4. ASSUME NEW t \in Typed, Type(v, t)
      PROVE  TabTypeOK'
  <2>1. [form[v] EXCEPT !.name = t.name, !.persona = t.persona] \in FormSet
    BY <1>0, FormsAssumption DEF FormSet
  <2>. QED
    BY <1>0, <1>4, <2>1 DEF TabTypeOK, Type
<1>5. CASE SubmitBlank(v)
  <2>1. [form[v] EXCEPT !.error = "name"] \in FormSet
    BY <1>0 DEF FormSet
  <2>. QED
    BY <1>0, <1>5, <2>1 DEF TabTypeOK, SubmitBlank
<1>6. CASE Submit(v)
  <2> DEFINE r == Fresh(PageRequest)
  <2>1. r \in Request
    BY <1>6, FreshIsUnused, FormsAssumption DEF Submit
  <2> HIDE DEF r
  <2>2. [form[v] EXCEPT !.error = None, !.submitting = TRUE, !.req = r] \in FormSet
    BY <1>0, <2>1 DEF FormSet
  <2>3. /\ by' = [by EXCEPT ![r] = v] /\ at' = at /\ told' = told
        /\ form' = [form EXCEPT ![v] = [form[v] EXCEPT !.error = None, !.submitting = TRUE, !.req = r]]
    BY <1>6 DEF Submit, r
  <2>. QED
    BY <1>0, <2>1, <2>2, <2>3 DEF TabTypeOK
<1>7. ASSUME NEW ok \in BOOLEAN, Copy(v, ok)
      PROVE  TabTypeOK'
  <2>1. [form[v] EXCEPT !.copied = ok] \in FormSet
    BY <1>0 DEF FormSet
  <2>. QED
    BY <1>0, <1>7, <2>1 DEF TabTypeOK, Copy
<1>8. CASE Dismiss(v) \/ Leave(v)
  BY <1>0, <1>8 DEF TabTypeOK, Dismiss, Leave
<1>. QED
  BY <1>1, <1>2, <1>3, <1>4, <1>5, <1>6, <1>7, <1>8 DEF User

LEMMA NavigateKeepsForms ==
  ASSUME FormsTypeOK, NEW to, Navigate(to)
  PROVE  form' \in [Visit -> FormSet]
BY UnmountedIsForm DEF FormsTypeOK, Navigate

LEMMA AwaitsKeepTabType ==
  ASSUME FormsTypeOK, NEW v \in Visit,
         LoadEnds(v) \/ \E r \in Request : SubmitEnds(v, r)
  PROVE  TabTypeOK'
<1>0. /\ TabTypeOK /\ form[v] \in FormSet
      /\ \A w \in Visit : form[w] \in FormSet /\ Unmounted(form[w]) \in FormSet
  BY UnmountedIsForm DEF FormsTypeOK, TabTypeOK
<1>1. CASE LoadEnds(v)
  <2>1. Loaded(form[v]) \in FormSet
    <3>1. keys[form[v].key].name \in Label \cup {Blank}
          /\ (keys[form[v].key].persona # NoPersona => keys[form[v].key].persona \in Label)
      BY <1>0 DEF FormsTypeOK, TypeOK, Row, FormSet
    <3>2. ASSUME NEW n \in Label \cup {Blank}, NEW p \in Label \cup {Blank}
          PROVE  [form[v] EXCEPT !.view = "form", !.name = n, !.persona = p] \in FormSet
      BY <1>0 DEF FormSet
    <3>3. [form[v] EXCEPT !.view = "notfound"] \in FormSet
      BY <1>0 DEF FormSet
    <3>. QED
      BY <3>1, <3>2, <3>3 DEF Loaded
  <2>2. /\ [form[v] EXCEPT !.view = None] \in FormSet
        /\ [form[v] EXCEPT !.view = "error"] \in FormSet
    BY <1>0 DEF FormSet
  <2>3. [Unopened EXCEPT !.page = "left"] \in FormSet
    BY DEF Unopened, FormSet, Key
  <2>. QED
    BY <1>0, <1>1, <2>1, <2>2, <2>3 DEF TabTypeOK, LoadEnds
<1>2. ASSUME NEW r \in Request, SubmitFails(v, r)
      PROVE  TabTypeOK'
  <2>1. [form[v] EXCEPT !.error = "failed", !.submitting = FALSE] \in FormSet
    BY <1>0 DEF FormSet
  <2>. QED
    BY <1>0, <1>2, <2>1 DEF TabTypeOK, SubmitFails
<1>3. ASSUME NEW r \in Request, SubmitUnauthorized(v, r)
      PROVE  TabTypeOK'
  BY <1>0, <1>3, NavigateKeepsForms DEF TabTypeOK, SubmitUnauthorized, Navigate
<1>4. ASSUME NEW r \in Request, CreateEnds(v, r)
      PROVE  TabTypeOK'
  <2>1. [form[v] EXCEPT !.view = "created", !.submitting = FALSE, !.created = shown[r]] \in FormSet
    BY <1>0 DEF FormSet, FormsTypeOK, TypeOK, None
  <2>. QED
    BY <1>0, <1>4, <2>1 DEF TabTypeOK, CreateEnds
<1>5. ASSUME NEW r \in Request, SaveEnds(v, r)
      PROVE  TabTypeOK'
  BY <1>0, <1>5, NavigateKeepsForms DEF TabTypeOK, SaveEnds, Navigate, Dashboard
<1>. QED
  BY <1>1, <1>2, <1>3, <1>4, <1>5 DEF SubmitEnds

(* The tab and its forms keep their types whoever takes a step. *)
LEMMA FormsTypeStep ==
  ASSUME FormsTypeOK, AdminInv, [FormsNext]_formVars
  PROVE  FormsTypeOK' /\ AdminInv'
<1>1. TypeOK' /\ AdminInv'
  BY FormsStepIsAdminStep, AdminInvStep DEF FormsTypeOK
<1>2. TabTypeOK'
  <2>1. TabTypeOK
    BY DEF FormsTypeOK, TabTypeOK
  <2>2. CASE UNCHANGED pageVars
    BY <2>1, <2>2 DEF TabTypeOK, pageVars
  <2>3. CASE SignIn
    BY <2>1, <2>3 DEF TabTypeOK, SignIn
  <2>. QED
    BY <2>2, <2>3, UserKeepsTabType, AwaitsKeepTabType
    DEF FormsNext, RevokeOnList, OtherSends, Served, AtRest, formVars, pageVars
<1>. QED
  BY <1>1, <1>2 DEF FormsTypeOK, TabTypeOK

(* A step that does not concern a visit or its requests keeps what is true *)
(* of it.                                                                  *)
LEMMA VisitUntouched ==
  ASSUME NEW w \in Visit, VisitInv(w), form'[w] = form[w], at' = w <=> at = w,
         \A r \in Request : /\ by'[r] = w <=> by[r] = w
                            /\ by[r] = w => told'[r] = told[r] /\ op'[r] = op[r]
  PROVE  VisitInv(w)'
<1>1. Untold(w)' = Untold(w)
  BY DEF Untold
<1>2. /\ form'[w].page = None => form'[w] = Unopened /\ \A r \in Request : by'[r] # w
      /\ form'[w].page \in {"new", "edit"} <=> at' = w
      /\ at' # w => form'[w].created = None /\ ~ form'[w].submitting
  BY DEF VisitInv
<1>3. form'[w].submitting =>
        /\ form'[w].req \in Request /\ by'[form'[w].req] = w /\ told'[form'[w].req] = None
        /\ op'[form'[w].req] = Body(form'[w])
  BY DEF VisitInv
<1>4. at' = w =>
        /\ form'[w].view \in {"loading", "notfound", "error"} => \A r \in Request : by'[r] # w
        /\ form'[w].view = "form" =>
             Untold(w)' \subseteq (IF form'[w].submitting THEN {form'[w].req} ELSE {})
        /\ form'[w].view = "created" =>
             \E r \in Request : Untold(w)' = {r} /\ told'[r] = "201" /\ form'[w].created = r
        /\ form'[w].view # None
        /\ form'[w].view # "created" => form'[w].created = None
        /\ form'[w].view # "form" => ~ form'[w].submitting
  <2>1. ASSUME at = w, form[w].view = "created"
        PROVE  \E r \in Request : Untold(w)' = {r} /\ told'[r] = "201" /\ form'[w].created = r
    <3>1. PICK r \in Request : Untold(w) = {r} /\ told[r] = "201" /\ form[w].created = r
      BY <2>1 DEF VisitInv
    <3>2. by[r] = w
      BY <3>1 DEF Untold
    <3>. QED
      BY <1>1, <3>1, <3>2
  <2>. QED
    BY <1>1, <2>1 DEF VisitInv
<1>5. \A r, s \in Untold(w)' : r = s
  BY <1>1 DEF VisitInv
<1>. QED
  BY <1>2, <1>3, <1>4, <1>5 DEF VisitInv

(* A page that is left keeps no secret and waits for nothing; its requests *)
(* may still fail.                                                         *)
LEMMA VisitIsLeft ==
  ASSUME NEW w \in Visit, VisitInv(w), at' # w, form'[w].page = "left",
         form'[w].created = None, ~ form'[w].submitting,
         \A r \in Request : /\ by'[r] = w => by[r] = w
                            /\ by[r] = w /\ told'[r] # "failed" => told[r] # "failed"
  PROVE  VisitInv(w)'
<1>1. Untold(w)' \subseteq Untold(w)
  BY DEF Untold
<1>2. \A r, s \in Untold(w)' : r = s
  BY <1>1 DEF VisitInv
<1>. QED
  BY <1>2 DEF VisitInv, None

(* The server, and other clients, change nothing that a form relies on.    *)
LEMMA ServerKeepsVisits ==
  ASSUME FormsInv, UNCHANGED pageVars, AdminStep
  PROVE  (\A r \in Request : ToldInv(r)') /\ \A w \in Visit : VisitInv(w)'
<1> USE FormsAssumption
<1>1. ASSUME NEW r \in Request, Handle(r)
      PROVE  (\A s \in Request : ToldInv(s)') /\ op' = op
  <2>1. resp[r] = "none" /\ told[r] # "201" /\ op' = op /\ pc'[r] # "idle"
        /\ \A s \in Request : s # r => pc'[s] = pc[s] /\ resp'[s] = resp[s]
    BY <1>1, HandleChanges DEF FormsInv, FormsTypeOK, AdminInv, SentOp, ToldInv
  <2>. QED
    BY <2>1 DEF pageVars, FormsInv, ToldInv
<1>2. ASSUME NEW r \in Request, NEW o \in OpSet, Receive(r, o)
      PROVE  /\ \A s \in Request : ToldInv(s)'
             /\ \A s \in Request : by[s] # None => op'[s] = op[s]
  <2>1. /\ by[r] = None /\ told[r] = None /\ pc'[r] = "received" /\ resp' = resp
        /\ \A s \in Request : s # r => pc'[s] = pc[s] /\ op'[s] = op[s]
    BY <1>2 DEF Receive, Goto, FormsInv, FormsTypeOK, TypeOK, ToldInv
  <2>. QED
    BY <2>1 DEF pageVars, FormsInv, ToldInv
<1>3. CASE UNCHANGED vars
  BY <1>3, VisitUntouched DEF vars, pageVars, FormsInv, ToldInv
<1>4. ASSUME \A s \in Request : by[s] # None => op'[s] = op[s], NEW w \in Visit
      PROVE  VisitInv(w)'
  BY <1>4, VisitUntouched DEF pageVars, FormsInv
<1>. QED
  BY <1>1, <1>2, <1>3, <1>4 DEF AdminStep

(* Of the pages only the one the tab is on is used. *)
LEMMA UserElsewhere ==
  ASSUME FormsInv, NEW v \in Visit, NEW w \in Visit, w # v, at \in {v, KeysPage},
         at' \in {v, KeysPage}, form'[w] = form[w],
         \A r \in Request : /\ by'[r] = w <=> by[r] = w
                            /\ by[r] = w => told'[r] = told[r] /\ op'[r] = op[r]
  PROVE  VisitInv(w)'
BY VisitUntouched, FormsAssumption DEF FormsInv

(* A page that is open and not waiting, whose user clicks or types.        *)
LEMMA UsedPage ==
  ASSUME FormsInv, NEW v \in Visit, at = v, ~ form[v].submitting, UNCHANGED << vars, at, by, told >>,
         form'[v].page = form[v].page, form'[v].created = form[v].created, ~ form'[v].submitting,
         form'[v].view = form[v].view \/ (form[v].view = "error" /\ form'[v].view = "loading")
  PROVE  VisitInv(v)'
<1>1. VisitInv(v) /\ Untold(v)' = Untold(v)
  BY DEF FormsInv, Untold
<1>2. form'[v].page # None
  BY <1>1 DEF VisitInv, None
<1>3. form[v].view = "form" => Untold(v) = {}
  BY <1>1 DEF VisitInv
<1>. QED
  BY <1>1, <1>2, <1>3 DEF VisitInv, vars, None

LEMMA OpenKeepsVisits ==
  ASSUME FormsInv, NEW v \in Visit, OpenNew(v) \/ \E k \in Key : OpenEdit(v, k), NEW w \in Visit
  PROVE  VisitInv(w)'
<1> USE FormsAssumption
<1>1. /\ at = KeysPage /\ at' = v /\ UNCHANGED << vars, by, told >>
      /\ \A x \in Visit : x # v => form'[x] = form[x]
      /\ form[v] = Unopened /\ \A r \in Request : by[r] # v
  <2>1. VisitInv(v) /\ form \in [Visit -> FormSet]
    BY DEF FormsInv, FormsTypeOK
  <2>2. form[v].page = None
    BY DEF OpenNew, OpenEdit
  <2>. QED
    BY <2>1, <2>2 DEF OpenNew, OpenEdit, VisitInv
<1>2. /\ form'[v].page \in {"new", "edit"} /\ form'[v].view \in {"form", "loading"}
      /\ form'[v].created = None /\ ~ form'[v].submitting
  <2>1. form[v] \in FormSet /\ form[v].created = None /\ ~ form[v].submitting
        /\ form \in [Visit -> FormSet]
    <3>1. form \in [Visit -> FormSet]
      BY DEF FormsInv, FormsTypeOK
    <3>2. Unopened.created = None /\ ~ Unopened.submitting
      BY DEF Unopened
    <3>. QED
      BY <1>1, <3>1, <3>2
  <2>2. CASE OpenNew(v)
    BY <2>1, <2>2 DEF OpenNew, FormSet
  <2>3. ASSUME NEW k \in Key, OpenEdit(v, k)
        PROVE  /\ form'[v].page = "edit" /\ form'[v].view = "loading"
               /\ form'[v].created = None /\ ~ form'[v].submitting
    BY <2>1, <2>3 DEF OpenEdit, FormSet
  <2>. QED
    BY <2>2, <2>3
<1>3. Untold(v)' = {}
  BY <1>1 DEF Untold
<1>4. VisitInv(v)'
  BY <1>1, <1>2, <1>3 DEF VisitInv, None
<1>5. CASE w # v
  BY <1>1, <1>5, UserElsewhere DEF vars
<1>. QED
  BY <1>4, <1>5

LEMMA SubmitKeepsVisits ==
  ASSUME FormsInv, NEW v \in Visit, Submit(v), NEW w \in Visit
  PROVE  VisitInv(w)'
<1> USE FormsAssumption
<1> DEFINE r == Fresh(PageRequest)
<1>1. r \in Request /\ pc[r] = "idle"
  BY FreshIsUnused DEF Submit
<1> HIDE DEF r
<1>2. /\ at = v /\ at' = v /\ form[v].view = "form" /\ ~ form[v].submitting
      /\ by' = [by EXCEPT ![r] = v] /\ told' = told /\ op' = [op EXCEPT ![r] = Body(form[v])]
      /\ form' = [form EXCEPT ![v] = [form[v] EXCEPT !.error = None, !.submitting = TRUE, !.req = r]]
  BY DEF Submit, Clickable, Receive, r
<1>3. by[r] = None /\ told[r] = None
  BY <1>1 DEF FormsInv, ToldInv
<1>4. /\ by'[r] = v /\ op'[r] = Body(form[v])
      /\ \A s \in Request : s # r => by'[s] = by[s] /\ op'[s] = op[s]
      /\ \A x \in Visit : x # v => form'[x] = form[x]
  BY <1>1, <1>2 DEF FormsInv, FormsTypeOK, TypeOK
<1>5. /\ form'[v].page = form[v].page /\ form'[v].view = "form" /\ form'[v].submitting
      /\ form'[v].created = form[v].created /\ form'[v].req = r
      /\ form'[v].name = form[v].name /\ form'[v].persona = form[v].persona /\ form'[v].key = form[v].key
  BY <1>2 DEF FormsInv, FormsTypeOK, FormSet
<1>6. Body(form'[v]) = Body(form[v])
  BY <1>5 DEF Body
<1>7. CASE w = v
  <2>1. VisitInv(v) /\ Untold(v) = {}
    BY <1>2 DEF FormsInv, VisitInv
  <2>2. Untold(v)' = {r}
    BY <1>1, <1>2, <1>3, <1>4, <2>1 DEF Untold, None
  <2>3. form[v].page \in {"new", "edit"} /\ form[v].created = None
    BY <1>2, <2>1 DEF VisitInv
  <2>. QED
    BY <1>1, <1>2, <1>3, <1>4, <1>5, <1>6, <1>7, <2>2, <2>3 DEF VisitInv, None
<1>8. CASE w # v
  <2>1. \A s \in Request : /\ by'[s] = w <=> by[s] = w
                           /\ by[s] = w => told'[s] = told[s] /\ op'[s] = op[s]
    BY <1>2, <1>3, <1>4, <1>8
  <2>. QED
    BY <1>2, <1>4, <1>8, <2>1, UserElsewhere
<1>. QED
  BY <1>7, <1>8

LEMMA UserKeepsVisits ==
  ASSUME FormsInv, NEW v \in Visit, User(v), NEW w \in Visit
  PROVE  VisitInv(w)'
<1> USE FormsAssumption
<1>0. form \in [Visit -> FormSet] /\ VisitInv(v)
  BY DEF FormsInv, FormsTypeOK
<1>1. CASE OpenNew(v) \/ \E k \in Key : OpenEdit(v, k)
  BY <1>1, OpenKeepsVisits
<1>2. CASE Submit(v)
  BY <1>2, SubmitKeepsVisits
<1>3. CASE RetryLoad(v) \/ (\E t \in Typed : Type(v, t)) \/ SubmitBlank(v) \/ \E ok \in BOOLEAN : Copy(v, ok)
  <2> DEFINE Used ==
        /\ at = v /\ ~ form[v].submitting /\ UNCHANGED << vars, at, by, told >>
        /\ form'[v].page = form[v].page /\ form'[v].created = form[v].created /\ ~ form'[v].submitting
        /\ form'[v].view = form[v].view \/ (form[v].view = "error" /\ form'[v].view = "loading")
        /\ \A x \in Visit : x # v => form'[x] = form[x]
  <2>1. Used
    <3>1. CASE RetryLoad(v)
      BY <1>0, <3>1 DEF RetryLoad, VisitInv, FormSet
    <3>2. ASSUME NEW t \in Typed, Type(v, t)
          PROVE  Used
      BY <1>0, <3>2 DEF Type, Editable, FormSet
    <3>3. CASE SubmitBlank(v)
      BY <1>0, <3>3 DEF SubmitBlank, Clickable, FormSet
    <3>4. ASSUME NEW ok \in BOOLEAN, Copy(v, ok)
          PROVE  Used
      BY <1>0, <3>4 DEF Copy, VisitInv, FormSet
    <3>. QED
      BY <1>3, <3>1, <3>2, <3>3, <3>4
  <2>2. CASE w = v
    BY <2>1, <2>2, UsedPage
  <2>3. CASE w # v
    BY <2>1, <2>3, UserElsewhere DEF vars
  <2>. QED
    BY <2>2, <2>3
<1>4. CASE Dismiss(v) \/ Leave(v)
  <2>1. /\ at = v /\ at' = KeysPage /\ UNCHANGED << vars, by, told >>
        /\ form'[v] = Unmounted(form[v])
        /\ \A x \in Visit : x # v => form'[x] = form[x]
    BY <1>0, <1>4 DEF Dismiss, Leave
  <2>2. CASE w = v
    <3>1. form'[v].page = "left" /\ form'[v].created = None /\ ~ form'[v].submitting
      BY <1>0, <2>1, UnmountedIsForm
    <3>. QED
      BY <1>0, <2>1, <2>2, <3>1, VisitIsLeft
  <2>3. CASE w # v
    BY <2>1, <2>3, UserElsewhere DEF vars
  <2>. QED
    BY <2>2, <2>3
<1>. QED
  BY <1>1, <1>2, <1>3, <1>4 DEF User

(* A page that the tab is not on, whatever its requests are told. *)
LEMMA VisitElsewhere ==
  ASSUME FormsInv, NEW w \in Visit, at # w, at' # w, form'[w] = form[w], by' = by, op' = op,
         \A s \in Request : told'[s] = told[s] \/ told[s] = None
  PROVE  VisitInv(w)'
<1>1. VisitInv(w) /\ form[w].page \in {None, "new", "edit", "left"}
  BY DEF FormsInv, FormsTypeOK, FormSet
<1>2. CASE form[w].page = None
  <2>1. \A r \in Request : by[r] # w
    BY <1>1, <1>2 DEF VisitInv
  <2>. QED
    BY <1>1, <2>1, VisitUntouched
<1>3. CASE form[w].page = "left"
  <2>1. form'[w].page = "left" /\ form'[w].created = None /\ ~ form'[w].submitting
    BY <1>1, <1>3 DEF VisitInv
  <2>2. \A s \in Request : told'[s] # "failed" => told[s] # "failed"
    BY DEF None
  <2>. QED
    BY <1>1, <2>1, <2>2, VisitIsLeft
<1>. QED
  BY <1>1, <1>2, <1>3 DEF VisitInv

LEMMA NavigateKeepsVisits ==
  ASSUME FormsInv, NEW to \in {KeysPage, Login}, Navigate(to), by' = by, op' = op,
         \A s \in Request : told'[s] = told[s] \/ told[s] = None, NEW w \in Visit
  PROVE  VisitInv(w)'
<1>1. at' # w
  BY FormsAssumption DEF Navigate
<1>2. CASE w = at
  <2>1. form'[w] = Unmounted(form[w]) /\ form[w] \in FormSet /\ VisitInv(w)
    BY <1>2 DEF Navigate, FormsInv, FormsTypeOK
  <2>2. form'[w].page = "left" /\ form'[w].created = None /\ ~ form'[w].submitting
    BY <2>1, UnmountedIsForm
  <2>3. \A s \in Request : told'[s] # "failed" => told[s] # "failed"
    BY DEF None
  <2>. QED
    BY <1>1, <2>1, <2>2, <2>3, VisitIsLeft
<1>3. CASE w # at
  BY <1>1, <1>3, VisitElsewhere DEF Navigate
<1>. QED
  BY <1>2, <1>3

(* A page waits for no request but the one it sent last. *)
LEMMA AwaitedIsTheLast ==
  ASSUME FormsInv, NEW v \in Visit, NEW r \in Request, Awaits(v, r)
  PROVE  /\ pc[r] # "idle" /\ r \in Untold(v) /\ VisitInv(v)
         /\ at = v => /\ form[v].view = "form" /\ Untold(v) = {r} /\ form[v].created = None
                      /\ form[v].page \in {"new", "edit"}
<1>1. VisitInv(v) /\ ToldInv(r)
  BY DEF FormsInv
<1>2. pc[r] # "idle" /\ r \in Untold(v)
  BY <1>1, FormsAssumption DEF ToldInv, Awaits, Untold, None
<1>3. ASSUME at = v
      PROVE  form[v].view = "form" /\ Untold(v) = {r}
  <2>1. form[v].view \in {None, "loading", "notfound", "error", "form", "created"}
    BY DEF FormsInv, FormsTypeOK, FormSet
  <2>2. form[v].view # "created"
    <3>1. ASSUME form[v].view = "created" PROVE FALSE
      <4>1. PICK s \in Request : Untold(v) = {s} /\ told[s] = "201"
        BY <1>1, <1>3, <3>1 DEF VisitInv
      <4>. QED
        BY <1>2, <4>1 DEF Awaits, None
    <3>. QED
      BY <3>1
  <2>3. form[v].view = "form"
    BY <1>1, <1>3, <2>1, <2>2 DEF VisitInv, Awaits
  <2>4. Untold(v) \subseteq {form[v].req}
    BY <1>1, <1>3, <2>3 DEF VisitInv
  <2>. QED
    BY <1>2, <2>3, <2>4
<1>4. at = v => form[v].created = None /\ form[v].page \in {"new", "edit"}
  BY <1>1, <1>3 DEF VisitInv
<1>. QED
  BY <1>1, <1>2, <1>3, <1>4

LEMMA SubmitFailsKeepsVisits ==
  ASSUME FormsInv, NEW v \in Visit, NEW r \in Request, SubmitFails(v, r), NEW w \in Visit
  PROVE  VisitInv(w)'
<1>1. /\ by[r] = v /\ told[r] = None /\ UNCHANGED << vars, at, by >> /\ op' = op
      /\ told' = [told EXCEPT ![r] = "failed"]
      /\ form' = IF at = v THEN [form EXCEPT ![v].error = "failed", ![v].submitting = FALSE] ELSE form
  BY DEF SubmitFails, Awaits, vars
<1>2. /\ form \in [Visit -> FormSet]
      /\ told'[r] = "failed" /\ \A s \in Request : s # r => told'[s] = told[s]
  BY <1>1 DEF FormsInv, FormsTypeOK
<1>3. CASE w # v
  <2>1. form'[w] = form[w] /\ VisitInv(w)
    BY <1>1, <1>2, <1>3 DEF FormsInv
  <2>. QED
    BY <1>1, <1>2, <1>3, <2>1, VisitUntouched
<1>4. CASE w = v /\ at # v
  BY <1>1, <1>2, <1>4, VisitElsewhere
<1>5. CASE w = v /\ at = v
  <2>1. /\ VisitInv(v) /\ form[v].view = "form" /\ Untold(v) = {r} /\ form[v].created = None
        /\ form[v].page \in {"new", "edit"}
    BY <1>5, AwaitedIsTheLast DEF SubmitFails
  <2>2. /\ form'[v].view = "form" /\ ~ form'[v].submitting /\ form'[v].created = None
        /\ form'[v].page \in {"new", "edit"}
    BY <1>1, <1>2, <1>5, <2>1 DEF FormSet
  <2>3. Untold(v)' = {}
    BY <1>1, <1>2, <2>1 DEF Untold
  <2>. QED
    BY <1>1, <1>5, <2>2, <2>3 DEF VisitInv, None
<1>. QED
  BY <1>3, <1>4, <1>5

(* The panel is shown of the only key the form can have made. *)
LEMMA CreateEndsKeepsVisits ==
  ASSUME FormsInv, NEW v \in Visit, NEW r \in Request, CreateEnds(v, r), NEW w \in Visit
  PROVE  VisitInv(w)'
<1>1. /\ by[r] = v /\ told[r] = None /\ UNCHANGED << vars, at, by >> /\ op' = op
      /\ told' = [told EXCEPT ![r] = "201"]
      /\ form' = IF at = v
                 THEN [form EXCEPT ![v].view = "created", ![v].submitting = FALSE, ![v].created = shown[r]]
                 ELSE form
  BY DEF CreateEnds, Awaits, vars
<1>2. /\ form \in [Visit -> FormSet]
      /\ told'[r] = "201" /\ \A s \in Request : s # r => told'[s] = told[s]
  BY <1>1 DEF FormsInv, FormsTypeOK
<1>3. CASE w # v
  <2>1. form'[w] = form[w] /\ VisitInv(w)
    BY <1>1, <1>2, <1>3 DEF FormsInv
  <2>. QED
    BY <1>1, <1>2, <1>3, <2>1, VisitUntouched
<1>4. CASE w = v /\ at # v
  BY <1>1, <1>2, <1>4, VisitElsewhere
<1>5. CASE w = v /\ at = v
  <2>1. Untold(v) = {r} /\ form[v].page \in {"new", "edit"}
    BY <1>5, AwaitedIsTheLast DEF CreateEnds
  <2>2. shown[r] = r
    BY DEF CreateEnds, FormsInv, AdminInv, SentOp
  <2>3. /\ form'[v].view = "created" /\ ~ form'[v].submitting /\ form'[v].created = r
        /\ form'[v].page \in {"new", "edit"}
    BY <1>1, <1>2, <1>5, <2>1, <2>2 DEF FormSet
  <2>4. Untold(v)' = {r}
    BY <1>1, <1>2, <2>1 DEF Untold
  <2>. QED
    BY <1>1, <1>2, <1>5, <2>3, <2>4 DEF VisitInv, None
<1>. QED
  BY <1>3, <1>4, <1>5

LEMMA LoadEndsKeepsVisits ==
  ASSUME FormsInv, NEW v \in Visit, LoadEnds(v), NEW w \in Visit
  PROVE  VisitInv(w)'
<1>1. /\ form[v].view = "loading" /\ UNCHANGED << vars, by, told >> /\ op' = op
      /\ form \in [Visit -> FormSet] /\ VisitInv(v)
  BY DEF LoadEnds, vars, FormsInv, FormsTypeOK
<1>2. form[v].page \in {"new", "edit", "left"}
  <2>1. Unopened.view # "loading"
    BY DEF Unopened, None
  <2>. QED
    BY <1>1, <2>1 DEF VisitInv, FormSet
<1>3. CASE at' = at /\ (\A x \in Visit : x # v => form'[x] = form[x]) /\ w # v
  BY <1>1, <1>3, VisitUntouched DEF FormsInv
<1>4. ASSUME at = v, at' = at, form'[v].page = form[v].page, form'[v].created = form[v].created,
             form'[v].submitting = form[v].submitting, form'[v].view \in {"form", "notfound", "error"}
      PROVE  VisitInv(v)'
  <2>1. (\A r \in Request : by[r] # v) /\ ~ form[v].submitting /\ form[v].created = None
        /\ form[v].page \in {"new", "edit"}
    BY <1>1, <1>4 DEF VisitInv
  <2>2. Untold(v)' = {}
    BY <1>1, <2>1 DEF Untold
  <2>. QED
    BY <1>1, <1>4, <2>1, <2>2 DEF VisitInv, None
<1>5. CASE form' = [form EXCEPT ![v] = IF at = v THEN Loaded(form[v]) ELSE [form[v] EXCEPT !.view = None]]
           /\ at' = at
  <2>1. CASE at = v
    <3>1. form'[v] = Loaded(form[v])
      BY <1>1, <1>5, <2>1
    <3>2. /\ form'[v].page = form[v].page /\ form'[v].created = form[v].created
          /\ form'[v].submitting = form[v].submitting /\ form'[v].view \in {"form", "notfound"}
      BY <1>1, <3>1 DEF Loaded, FormSet
    <3>. QED
      BY <1>1, <1>3, <1>4, <1>5, <2>1, <3>2
  <2>2. CASE at # v /\ w = v
    <3>1. form'[v] = [form[v] EXCEPT !.view = None]
      BY <1>1, <1>5, <2>2
    <3>2. form'[v].page = "left" /\ form'[v].created = None /\ ~ form'[v].submitting
      BY <1>1, <1>2, <2>2, <3>1 DEF VisitInv, FormSet
    <3>. QED
      BY <1>1, <1>5, <2>2, <3>2, VisitIsLeft
  <2>3. CASE w # v
    BY <1>1, <1>3, <1>5, <2>3
  <2>. QED
    BY <2>1, <2>2, <2>3
<1>6. CASE at = v /\ form' = [form EXCEPT ![v].view = "error"] /\ at' = at
  <2>1. /\ form'[v].page = form[v].page /\ form'[v].created = form[v].created
        /\ form'[v].submitting = form[v].submitting /\ form'[v].view = "error"
        /\ \A x \in Visit : x # v => form'[x] = form[x]
    BY <1>1, <1>6 DEF FormSet
  <2>. QED
    BY <1>3, <1>4, <1>6, <2>1
<1>7. CASE /\ at' = Login
           /\ form' = [x \in Visit |-> IF x = v THEN [Unopened EXCEPT !.page = "left"]
                                       ELSE IF x = at THEN Unmounted(form[x]) ELSE form[x]]
  <2>1. at' # w
    BY <1>7, FormsAssumption
  <2>2. CASE w \in {v, at}
    <3>1. [Unopened EXCEPT !.page = "left"].page = "left"
          /\ [Unopened EXCEPT !.page = "left"].created = None
          /\ ~ [Unopened EXCEPT !.page = "left"].submitting
      BY DEF Unopened
    <3>2. form'[w] = [Unopened EXCEPT !.page = "left"] \/ form'[w] = Unmounted(form[w])
      BY <1>7, <2>2
    <3>3. form'[w].page = "left" /\ form'[w].created = None /\ ~ form'[w].submitting
      <4>1. form[w] \in FormSet
        BY <1>1
      <4>2. form'[w] = Unmounted(form[w]) =>
              form'[w].page = "left" /\ form'[w].created = None /\ ~ form'[w].submitting
        BY <4>1, UnmountedIsForm
      <4>. QED
        BY <3>1, <3>2, <4>2
    <3>. QED
      BY <1>1, <2>1, <3>3, VisitIsLeft DEF FormsInv
  <2>3. CASE w \notin {v, at}
    BY <1>1, <1>7, <2>1, <2>3, VisitElsewhere
  <2>. QED
    BY <2>2, <2>3
<1>. QED
  BY <1>5, <1>6, <1>7 DEF LoadEnds

LEMMA FormsInvStep == FormsInv /\ [FormsNext]_formVars => FormsInv'
<1> SUFFICES ASSUME FormsInv, [FormsNext]_formVars PROVE FormsInv'
  OBVIOUS
<1>1. FormsTypeOK' /\ AdminInv' /\ AdminStep
  BY FormsTypeStep, FormsStepIsAdminStep DEF FormsInv
<1>2. CASE UNCHANGED pageVars
  BY <1>1, <1>2, ServerKeepsVisits DEF FormsInv
<1>3. ASSUME NEW v \in Visit, User(v)
      PROVE  FormsInv'
  <2>1. \A w \in Visit : VisitInv(w)'
    BY <1>3, UserKeepsVisits
  <2>2. \A r \in Request : ToldInv(r)'
    <3>1. CASE Submit(v)
      <4> DEFINE r == Fresh(PageRequest)
      <4>1. r \in Request /\ pc[r] = "idle"
        BY <3>1, FreshIsUnused, FormsAssumption DEF Submit
      <4> HIDE DEF r
      <4>2. pc' = [pc EXCEPT ![r] = "received"] /\ by' = [by EXCEPT ![r] = v] /\ told' = told /\ resp' = resp
        BY <3>1 DEF Submit, Receive, Goto, r
      <4>. QED
        BY <4>1, <4>2 DEF FormsInv, FormsTypeOK, TypeOK, ToldInv
    <3>2. CASE UNCHANGED << vars, by, told >>
      BY <3>2 DEF vars, FormsInv, ToldInv
    <3>. QED
      BY <1>3, <3>1, <3>2 DEF User, OpenNew, OpenEdit, RetryLoad, Type, SubmitBlank, Copy, Dismiss, Leave
  <2>. QED
    BY <1>1, <2>1, <2>2 DEF FormsInv
<1>4. ASSUME NEW v \in Visit, LoadEnds(v)
      PROVE  FormsInv'
  BY <1>1, <1>4, LoadEndsKeepsVisits DEF LoadEnds, vars, FormsInv, ToldInv
<1>5. ASSUME NEW v \in Visit, NEW r \in Request, SubmitEnds(v, r)
      PROVE  FormsInv'
  <2>1. /\ UNCHANGED << vars, by >> /\ Awaits(v, r) /\ pc[r] # "idle"
        /\ told' = [told EXCEPT ![r] = told'[r]] /\ told'[r] \in {"failed", "401", "201", "200"}
        /\ told'[r] = "201" => resp[r] = "201"
    <3>1. Awaits(v, r)
      BY <1>5 DEF SubmitEnds, SubmitFails, SubmitUnauthorized, CreateEnds, SaveEnds
    <3>. QED
      BY <1>5, <3>1, AwaitedIsTheLast
      DEF SubmitEnds, SubmitFails, SubmitUnauthorized, CreateEnds, SaveEnds, FormsInv, FormsTypeOK
  <2>2. op' = op /\ \A s \in Request : told'[s] = told[s] \/ told[s] = None
    BY <2>1 DEF vars, Awaits, FormsInv, FormsTypeOK
  <2>3. \A s \in Request : ToldInv(s)'
    BY <2>1, <2>2 DEF vars, FormsInv, FormsTypeOK, ToldInv
  <2>4. \A w \in Visit : VisitInv(w)'
    <3>1. CASE SubmitUnauthorized(v, r) \/ SaveEnds(v, r)
      BY <2>1, <2>2, <3>1, NavigateKeepsVisits DEF SubmitUnauthorized, SaveEnds, Dashboard
    <3>. QED
      BY <1>5, <3>1, SubmitFailsKeepsVisits, CreateEndsKeepsVisits DEF SubmitEnds
  <2>. QED
    BY <1>1, <2>3, <2>4 DEF FormsInv
<1>6. CASE SignIn
  <2>1. ASSUME NEW w \in Visit
        PROVE  VisitInv(w)'
    BY <1>6, VisitElsewhere, FormsAssumption DEF SignIn, vars
  <2>. QED
    BY <1>1, <1>6, <2>1 DEF SignIn, vars, FormsInv, ToldInv
<1>. QED
  BY <1>2, <1>3, <1>4, <1>5, <1>6 DEF FormsNext, RevokeOnList, OtherSends, Served, AtRest, formVars, pageVars

LEMMA FormsInvInit == FormsInit => FormsInv
<1> SUFFICES ASSUME FormsInit PROVE FormsInv
  OBVIOUS
<1> USE FormsAssumption
<1>1. TypeOK /\ AdminInv
  BY AdminInvInit DEF FormsInit
<1>2. Unopened \in FormSet /\ Unopened.created = None /\ ~ Unopened.submitting /\ Unopened.page = None
  BY DEF Unopened, FormSet, Key
<1>3. FormsTypeOK
  BY <1>1, <1>2 DEF FormsInit, FormsTypeOK
<1>4. \A r \in Request : ToldInv(r)
  BY DEF FormsInit, ToldInv, None
<1>5. ASSUME NEW v \in Visit PROVE VisitInv(v)
  <2>1. form[v] = Unopened /\ at # v /\ \A r \in Request : by[r] # v
    BY DEF FormsInit
  <2>. QED
    BY <1>2, <2>1 DEF VisitInv, Untold, None
<1>. QED
  BY <1>1, <1>3, <1>4, <1>5 DEF FormsInv

(* What the theorems rest on.                                              *)
LEMMA FormsInvHolds == FormsSpec => []FormsInv
BY FormsInvInit, FormsInvStep, PTL DEF FormsSpec

LEMMA AtMostOne ==
  ASSUME NEW S, \A x, y \in S : x = y
  PROVE  Cardinality(S) <= 1
<1>1. CASE S = {}
  BY <1>1, FS_EmptySet
<1>2. ASSUME NEW x \in S
      PROVE  Cardinality(S) <= 1
  <2>1. S = {x}
    BY <1>2
  <2>. QED
    BY <2>1, FS_Singleton
<1>. QED
  BY <1>1, <1>2

-----------------------------------------------------------------------------
(* Every variable of the two forms and of the endpoints they call stays in *)
(* its type, for any administrators and faults: a row's columns, the       *)
(* status of an answer, the React state of a page.                         *)
THEOREM TypeCorrect == FormsSpec => []FormsTypeOK
<1>1. FormsInv => FormsTypeOK
  BY DEF FormsInv
<1>. QED
  BY <1>1, FormsInvHolds, PTL

(* Revoke's WHERE revoked_at IS NULL: of any number of administrators who  *)
(* revoke a key one is answered 204, and whoever is answered 204, or 404   *)
(* for a key of the list, is right that the key is revoked.                *)
THEOREM KeyIsRevokedOnce == FormsSpec => []RevokedOnce
<1>1. ASSUME FormsInv, NEW k \in Key
      PROVE  /\ Cardinality({r \in RevokesOf(k) : resp[r] = "204"}) <= 1
             /\ k # Unknown => \A r \in RevokesOf(k) : resp[r] \in {"204", "404"} => keys[k].revoked
  <2>1. RevocationInv
    BY <1>1 DEF FormsInv, AdminInv
  <2>2. \A r, s \in {x \in RevokesOf(k) : resp[x] = "204"} : r = s
    BY <2>1 DEF RevocationInv, RevokesOf
  <2>3. Cardinality({r \in RevokesOf(k) : resp[r] = "204"}) <= 1
    BY <2>2, AtMostOne
  <2>4. \A r \in RevokesOf(k) : r \in Request /\ op[r].kind = "revoke" /\ op[r].key = k
    BY DEF RevokesOf
  <2>. QED
    BY <2>1, <2>3, <2>4 DEF RevocationInv
<1>2. FormsInv => RevokedOnce
  BY <1>1 DEF RevokedOnce
<1>. QED
  BY <1>2, FormsInvHolds, PTL

(* "This cannot be undone": no create, edit or revocation, in any order    *)
(* and with any of them reported as failed, brings a revoked key back or   *)
(* gives a key another secret.                                             *)
THEOREM RevocationCannotBeUndone == FormsSpec => RevocationIsFinal
<1> DEFINE Final ==
      \A k \in Key : Exists(k) =>
        (keys[k].revoked => keys[k].revoked') /\ keys[k].secret' = keys[k].secret
<1>1. FormsInv /\ [FormsNext]_formVars => [Final]_vars
  <2> SUFFICES ASSUME FormsInv, [FormsNext]_formVars PROVE Final \/ UNCHANGED vars
    OBVIOUS
  <2>0. AdminStep /\ TypeOK /\ AdminInv
    BY FormsStepIsAdminStep DEF FormsInv, FormsTypeOK
  <2>1. ASSUME NEW r \in Request, Handle(r)
        PROVE  Final
    BY <2>0, <2>1, HandleChanges
  <2>2. ASSUME NEW r \in Request, NEW o \in OpSet, Receive(r, o)
        PROVE  Final
    BY <2>2 DEF Receive
  <2>. QED
    BY <2>0, <2>1, <2>2 DEF AdminStep
<1>. QED
  BY <1>1, FormsInvHolds, PTL DEF FormsSpec, RevocationIsFinal

(* Update writes both columns of a row at once: while every edit is one of *)
(* the page's, which sends both, a row is what one administrator sent, not *)
(* a mixture of two edits that overlapped between GetByID and UPDATE.      *)
THEOREM RowsAreOneEdit == FormsSpec => []WholeFormWins
<1>1. ASSUME FormsInv, NEW k \in Key, last[k] # "none",
             \A r \in Request : op[r].kind = "patch" => Omitted \notin {op[r].name, op[r].persona}
      PROVE  keys[k].name = op[last[k]].name /\ keys[k].persona = Normalize(op[last[k]].persona)
  <2>1. RowInv(k) /\ last[k] \in Request
    BY <1>1 DEF FormsInv, FormsTypeOK, TypeOK, AdminInv
  <2>. QED
    BY <1>1, <2>1 DEF RowInv
<1>2. FormsInv => WholeFormWins
  BY <1>1 DEF WholeFormWins
<1>. QED
  BY <1>2, FormsInvHolds, PTL

(* The create page disables its button while a request is awaited and      *)
(* replaces the form by the panel: however fast it is submitted, left and  *)
(* opened again, of the keys it made at most one was not reported to it as *)
(* failed, and at most one was shown.                                      *)
THEOREM FormMakesOneKey == FormsSpec => []OneKeyPerForm
<1>1. ASSUME FormsInv, NEW v \in Visit
      PROVE  /\ Cardinality({r \in MadeBy(v) : told[r] # "failed"}) <= 1
             /\ Cardinality({r \in MadeBy(v) : told[r] = "201"}) <= 1
  <2>1. \A r, s \in Untold(v) : r = s
    BY <1>1 DEF FormsInv, VisitInv
  <2>2. \A r, s \in {x \in MadeBy(v) : told[x] # "failed"} : r = s
    BY <2>1 DEF MadeBy, Untold
  <2>3. \A r, s \in {x \in MadeBy(v) : told[x] = "201"} : r = s
    BY <2>1 DEF MadeBy, Untold
  <2>. QED
    BY <2>2, <2>3, AtMostOne
<1>2. FormsInv => OneKeyPerForm
  BY <1>1 DEF OneKeyPerForm
<1>. QED
  BY <1>2, FormsInvHolds, PTL

(* The 201 of the create endpoint is the only place the secret is: the     *)
(* page that gets it shows the secret of the key that the server stored,   *)
(* until it is left, and then it is gone from the tab.                     *)
THEOREM SecretIsOnScreen == FormsSpec => []SecretOnScreen
<1>1. ASSUME FormsInv, NEW v \in Visit
      PROVE  LET mine == {r \in MadeBy(v) : told[r] = "201"}
             IN  IF at = v /\ mine # {}
                 THEN form[v].view = "created" /\ \A r \in mine : form[v].created = keys[r].secret
                 ELSE form[v].created = None
  <2> DEFINE mine == {r \in MadeBy(v) : told[r] = "201"}
  <2>1. VisitInv(v) /\ form[v].view \in {None, "loading", "notfound", "error", "form", "created"}
    BY <1>1 DEF FormsInv, FormsTypeOK, FormSet
  <2>2. ASSUME NEW r \in mine, at = v
        PROVE  form[v].view = "created" /\ form[v].created = keys[r].secret
    <3>1. r \in Untold(v) /\ r \in Request /\ told[r] = "201" /\ by[r] = v /\ Exists(r)
      BY <2>2 DEF MadeBy, Untold
    <3>2. form[v].view \notin {"loading", "notfound", "error", None}
      BY <2>1, <2>2, <3>1 DEF VisitInv
    <3>3. form[v].view # "form"
      BY <2>1, <2>2, <3>1 DEF VisitInv, None
    <3>4. form[v].view = "created"
      BY <2>1, <3>2, <3>3
    <3>5. form[v].created = r
      BY <2>1, <2>2, <3>1, <3>4 DEF VisitInv
    <3>6. keys[r].secret = r
      BY <1>1, <3>1 DEF FormsInv, AdminInv, RowInv, Exists, Key
    <3>. QED
      BY <3>4, <3>5, <3>6
  <2>3. ASSUME at = v, mine = {}
        PROVE  form[v].created = None
    <3>1. CASE form[v].view = "created"
      <4>1. PICK r \in Request : Untold(v) = {r} /\ told[r] = "201"
        BY <2>1, <2>3, <3>1 DEF VisitInv
      <4>2. by[r] = v /\ Exists(r)
        BY <1>1, <4>1 DEF Untold, FormsInv, ToldInv, AdminInv, SentOp
      <4>. QED
        BY <2>3, <4>1, <4>2 DEF MadeBy
    <3>. QED
      BY <2>1, <2>3, <3>1 DEF VisitInv
  <2>4. at # v => form[v].created = None
    BY <2>1 DEF VisitInv
  <2>. QED
    BY <2>2, <2>3, <2>4
<1>2. FormsInv => SecretOnScreen
  BY <1>1 DEF SecretOnScreen
<1>. QED
  BY <1>2, FormsInvHolds, PTL

(* handleSubmit disables the inputs before it sends: while an answer is    *)
(* awaited the form still shows what was sent, so that nothing typed is    *)
(* lost when the answer takes the user away.                               *)
THEOREM EditsAreSaved == FormsSpec => []SaveKeepsEdits
<1>1. FormsInv => SaveKeepsEdits
  BY DEF FormsInv, VisitInv, SaveKeepsEdits
<1>. QED
  BY <1>1, FormsInvHolds, PTL
-----------------------------------------------------------------------------
(* The endpoints by themselves, sent anything that can be sent. *)
Endpoints == INSTANCE AdminKeys WITH Op <- OpSet

(* The instance has the same operators: none of them depends on Op.        *)
LEMMA EndpointsAreThese ==
  /\ Init <=> Endpoints!Init
  /\ \A r : Handle(r) <=> Endpoints!Handle(r)
  /\ \A r, o : Receive(r, o) <=> Endpoints!Receive(r, o)
  /\ vars = Endpoints!vars /\ OpSet = Endpoints!OpSet
<1>1. /\ Omitted = Endpoints!Omitted /\ Blank = Endpoints!Blank
      /\ NoPersona = Endpoints!NoPersona /\ Unknown = Endpoints!Unknown
  BY DEF Omitted, Endpoints!Omitted, Blank, Endpoints!Blank, NoPersona, Endpoints!NoPersona,
         Unknown, Endpoints!Unknown
<1>2. Key = Endpoints!Key /\ vars = Endpoints!vars /\ NoRow = Endpoints!NoRow
  BY <1>1 DEF Key, Endpoints!Key, vars, Endpoints!vars, NoRow, Endpoints!NoRow
<1>3. OpSet = Endpoints!OpSet /\ NoOp = Endpoints!NoOp /\ FirstLabel = Endpoints!FirstLabel
  BY <1>1, <1>2 DEF OpSet, Endpoints!OpSet, NoOp, Endpoints!NoOp, FirstLabel, Endpoints!FirstLabel
<1>4. Init <=> Endpoints!Init
  BY <1>2, <1>3 DEF Init, Endpoints!Init
<1>5. \A r, s, t : /\ Goto(r, s, t) <=> Endpoints!Goto(r, s, t)
                   /\ Respond(r, s) <=> Endpoints!Respond(r, s)
                   /\ Reported(r, s) <=> Endpoints!Reported(r, s)
  BY DEF Goto, Endpoints!Goto, Respond, Endpoints!Respond, Reported, Endpoints!Reported
<1>6. /\ \A k : (Exists(k) <=> Endpoints!Exists(k)) /\ (Revocable(k) <=> Endpoints!Revocable(k))
      /\ \A r : BadName(r) <=> Endpoints!BadName(r)
      /\ \A p : Normalize(p) = Endpoints!Normalize(p)
  BY <1>1 DEF Exists, Endpoints!Exists, Revocable, Endpoints!Revocable, BadName, Endpoints!BadName,
              Normalize, Endpoints!Normalize
<1>7. \A r, row : Edited(r, row) = Endpoints!Edited(r, row)
  BY <1>1, <1>6 DEF Edited, Endpoints!Edited, MergedName, Endpoints!MergedName,
                    MergedPersona, Endpoints!MergedPersona
<1>8. \A r, o : Receive(r, o) <=> Endpoints!Receive(r, o)
  BY <1>1, <1>5, <1>6 DEF Receive, Endpoints!Receive
<1>9. ASSUME NEW r PROVE Handle(r) <=> Endpoints!Handle(r)
  <2>1. /\ Unauthorized(r) <=> Endpoints!Unauthorized(r)
        /\ Refuse(r) <=> Endpoints!Refuse(r)
        /\ List(r) <=> Endpoints!List(r)
    BY <1>5, <1>6 DEF Unauthorized, Endpoints!Unauthorized, Refuse, Endpoints!Refuse,
                      List, Endpoints!List
  <2>2. Create(r) <=> Endpoints!Create(r)
    BY <1>5, <1>6 DEF Create, Endpoints!Create
  <2>3. GetByID(r) <=> Endpoints!GetByID(r)
    BY <1>5, <1>6 DEF GetByID, Endpoints!GetByID
  <2>4. Update(r) <=> Endpoints!Update(r)
    BY <1>2, <1>5, <1>7 DEF Update, Endpoints!Update
  <2>5. (Revoke(r) <=> Endpoints!Revoke(r)) /\ (NotFound(r) <=> Endpoints!NotFound(r))
    BY <1>5, <1>6 DEF Revoke, Endpoints!Revoke, NotFound, Endpoints!NotFound
  <2>6. StoreFails(r) <=> Endpoints!StoreFails(r)
    BY <1>2, <1>5, <1>6 DEF StoreFails, Endpoints!StoreFails
  <2>. QED
    BY <2>1, <2>2, <2>3, <2>4, <2>5, <2>6 DEF Handle, Endpoints!Handle
<1>. QED
  BY <1>2, <1>3, <1>4, <1>8, <1>9

(* Whatever the two pages and other clients do, in any number of visits,   *)
(* the endpoints of internal/admin behave as they do by themselves: what   *)
(* is shown of the endpoints alone holds behind the forms.                 *)
THEOREM FormsUseEndpoints == FormsSpec => Endpoints!Spec
<1>1. FormsInit => Endpoints!Init
  BY EndpointsAreThese DEF FormsInit
<1>2. FormsInv /\ [FormsNext]_formVars => [Endpoints!Next]_(Endpoints!vars)
  <2> SUFFICES ASSUME FormsInv, [FormsNext]_formVars
               PROVE  Endpoints!Next \/ UNCHANGED Endpoints!vars
    OBVIOUS
  <2>1. AdminStep
    BY FormsStepIsAdminStep DEF FormsInv
  <2>2. ASSUME NEW r \in Request, Handle(r) PROVE Endpoints!Next
    BY <2>2, EndpointsAreThese DEF Endpoints!Next
  <2>3. ASSUME NEW r \in Request, NEW o \in OpSet, Receive(r, o) PROVE Endpoints!Next
    BY <2>3, EndpointsAreThese DEF Endpoints!Next
  <2>4. CASE UNCHANGED vars
    BY <2>4, EndpointsAreThese DEF vars, Endpoints!vars
  <2> QED BY <2>1, <2>2, <2>3, <2>4 DEF AdminStep
<1> QED BY <1>1, <1>2, FormsInvHolds, PTL DEF FormsSpec, Endpoints!Spec
=============================================================================
