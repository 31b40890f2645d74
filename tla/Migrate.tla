------------------------------ MODULE Migrate ------------------------------
(***************************************************************************)
(* internal/db/migrate: Up and Down, run by cmd/migrate and, when          *)
(* AUTO_MIGRATE is set, by every server that starts.  Nothing keeps two    *)
(* runs apart: each reads schema_migrations once and then sends one script *)
(* per version, a transaction of the migration's SQL and its bookkeeping   *)
(* row.  A script goes on in the database when its run is killed or its    *)
(* context ends.  A run knows the files its binary was built with: those   *)
(* of the last release, or of the directory as Create has left it.         *)
(*                                                                         *)
(* The up files create objects and fail where they exist, but for the      *)
(* extensions; the down files are DROP ... IF EXISTS and fail while        *)
(* something depends on the object.                                        *)
(***************************************************************************)
EXTENDS Naturals, FiniteSets, Sequences

CONSTANTS
  Run,      \* runs of the tool
  Last,     \* the versions are 1..Last; Last is the second in which Create is run
  Slug,     \* the names it is given
  Needs,    \* Needs[v]: the versions whose objects those of v refer to
  Tolerant, \* the versions whose up file is CREATE ... IF NOT EXISTS
  Command,  \* what is run: 0 for an Up, n for a Down of n steps
  Faults    \* "error": a statement fails; "timeout": a run gives up on a script

Version == 1..Last

ASSUME MigrateAssumption ==
  /\ Last \in Nat \ {0}
  /\ Needs \in [Version -> SUBSET Version] /\ \A v \in Version : \A u \in Needs[v] : u < v
  /\ Tolerant \subseteq Version
  /\ Command \subseteq Nat
  /\ Faults \subseteq {"error", "timeout"}

VARIABLES
  files,    \* the directory of migrations
  known,    \* the versions that Load returned to each run
  embedded, \* auxiliary: the versions its files name
  steps,    \* the command of each run
  book,     \* schema_migrations
  schema,   \* the versions whose objects exist
  pc,       \* "idle", "ready", "waiting", "ok" or "failed"
  todo,     \* the versions the run still has to apply or revert, in order
  script,   \* the version whose script the database is running for the run, 0 for none
  done,     \* the versions the run reports
  disturbed \* auxiliary: something failed by itself, or a Down was run

vars == << files, known, embedded, steps, book, schema, pc, todo, script, done, disturbed >>

loaded == << known, embedded >>

File == [v : Version, name : Slug \cup {"released"}, dir : {"up", "down"}]
Pair(v, name) == {[v |-> v, name |-> name, dir |-> d] : d \in {"up", "down"}}
Released == UNION {Pair(v, "released") : v \in 1..(Last - 1)}

TypeOK ==
  /\ files \subseteq File
  /\ known \in [Run -> SUBSET Version] /\ embedded \in [Run -> SUBSET Version]
  /\ steps \in [Run -> Command \cup {0}] /\ disturbed \in BOOLEAN
  /\ book \subseteq Version /\ schema \subseteq Version
  /\ pc \in [Run -> {"idle", "ready", "waiting", "ok", "failed"}]
  /\ todo \in [Run -> Seq(Version)]
  /\ script \in [Run -> 0..Last]
  /\ done \in [Run -> SUBSET Version]

Init ==
  /\ files = Released
  /\ known = [r \in Run |-> {}] /\ embedded = [r \in Run |-> {}]
  /\ steps = [r \in Run |-> 0] /\ disturbed = FALSE
  /\ book = {} /\ schema = {}
  /\ pc = [r \in Run |-> "idle"]
  /\ todo = [r \in Run |-> << >>]
  /\ script = [r \in Run |-> 0]
  /\ done = [r \in Run |-> {}]

IsUp(r) == steps[r] = 0

-----------------------------------------------------------------------------
(***************************************************************************)
(* Create: two files, named after the second and the name it is given, one *)
(* after the other; the second may fail, or never be written.              *)
(***************************************************************************)
CreateUp(n) ==
  /\ files' = files \cup {f \in Pair(Last, n) : f.dir = "up"}
  /\ UNCHANGED << loaded, steps, book, schema, pc, todo, script, done, disturbed >>

CreateDown(n) ==
  /\ \E f \in files : f.v = Last /\ f.name = n
  /\ files' = files \cup Pair(Last, n)
  /\ UNCHANGED << loaded, steps, book, schema, pc, todo, script, done, disturbed >>

(* Load: a file without its pair, or two names for one version, is an      *)
(* error.                                                                  *)
VersionsIn(b) == {f.v : f \in b}
Conflicting(b) == \E f, g \in b : f.v = g.v /\ f.name # g.name
Unpaired(b) == \E f \in b : ~ \E g \in b : g.v = f.v /\ g.dir # f.dir
Migrations(b) == {v \in VersionsIn(b) : \E f \in b : Pair(v, f.name) \subseteq b}

(* Mutant: A version without its down file skipped instead of refused. *)
LoadsWhatItCan(b) ==
  ~ Conflicting(b)

Loads(b) == ~ Conflicting(b) /\ ~ Unpaired(b)

-----------------------------------------------------------------------------
(* The members of a set of versions in increasing order. *)
Ascending(S) == [i \in 1..Cardinality(S) |-> CHOOSE v \in S : Cardinality({u \in S : u < v}) = i - 1]
Newest(S, n) == [i \in 1..(IF n < Cardinality(S) THEN n ELSE Cardinality(S)) |->
                   Ascending(S)[Cardinality(S) + 1 - i]]

(* A run by a binary built with the files b: Load, ensureBookkeeping and   *)
(* the one read of the applied versions.                                   *)
Start(r, b) ==
  /\ pc[r] = "idle" /\ Loads(b)
  /\ pc' = [pc EXCEPT ![r] = "ready"]
  /\ known' = [known EXCEPT ![r] = Migrations(b)]
  /\ embedded' = [embedded EXCEPT ![r] = VersionsIn(b)]
  /\ \E n \in Command :
       /\ steps' = [steps EXCEPT ![r] = n]
       /\ todo' = [todo EXCEPT ![r] = IF n = 0 THEN Ascending(known'[r] \ book) ELSE Newest(book, n)]
       /\ disturbed' = (disturbed \/ n # 0)
  /\ UNCHANGED << files, book, schema, script, done >>

LoadFails(r, b) ==
  /\ pc[r] = "idle" /\ ~ Loads(b)
  /\ pc' = [pc EXCEPT ![r] = "failed"]
  /\ UNCHANGED << files, loaded, steps, book, schema, todo, script, done, disturbed >>

(* Either statement fails: so does a CREATE TABLE IF NOT EXISTS that races *)
(* with the one of another run.                                            *)
StartFails(r) ==
  /\ \/ (\E s \in Run \ {r} : known[s] # {}) /\ UNCHANGED disturbed
     \/ "error" \in Faults /\ disturbed' = TRUE
  /\ pc[r] = "idle"
  /\ pc' = [pc EXCEPT ![r] = "failed"]
  /\ UNCHANGED << files, loaded, steps, book, schema, todo, script, done >>

(* The loop: send the next script, or return. *)
Send(r) ==
  /\ pc[r] = "ready" /\ todo[r] # << >> /\ Head(todo[r]) \in known[r]
  /\ pc' = [pc EXCEPT ![r] = "waiting"]
  /\ script' = [script EXCEPT ![r] = Head(todo[r])]
  /\ UNCHANGED << files, loaded, steps, book, schema, todo, done, disturbed >>

(* Down: "applied version has no migration file to roll back". *)
NoFile(r) ==
  /\ pc[r] = "ready" /\ todo[r] # << >> /\ Head(todo[r]) \notin known[r]
  /\ pc' = [pc EXCEPT ![r] = "failed"] /\ todo' = [todo EXCEPT ![r] = << >>]
  /\ UNCHANGED << files, loaded, steps, disturbed, book, schema, script, done >>

Return(r) ==
  /\ pc[r] = "ready" /\ todo[r] = << >>
  /\ pc' = [pc EXCEPT ![r] = "ok"]
  /\ UNCHANGED << files, loaded, steps, disturbed, book, schema, todo, script, done >>

(* Mutant: A try-lock that a failed run leaves behind. *)
FitsAlone(r, v) ==
  IF IsUp(r)
  THEN /\ (v \in schema => v \in Tolerant) /\ v \notin book /\ Needs[v] \subseteq schema
       /\ \A s \in Run \ {r} : pc[s] \notin {"waiting", "failed"}
  ELSE \A u \in schema : v \notin Needs[u]

(***************************************************************************)
(* The transaction of wrapTx.  CREATE and the primary key refuse a version *)
(* that is there, and CREATE one whose objects refer to missing ones; DROP *)
(* IF EXISTS and DELETE accept one that is not there.                      *)
(***************************************************************************)
Fits(r, v) ==
  IF IsUp(r) THEN (v \in schema => v \in Tolerant) /\ v \notin book /\ Needs[v] \subseteq schema
  ELSE \A u \in schema : v \notin Needs[u]

Transaction(r, v) ==
  /\ schema' = IF IsUp(r) THEN schema \cup {v} ELSE schema \ {v}
  /\ book' = IF IsUp(r) THEN book \cup {v} ELSE book \ {v}

(* The script commits; a run that still waits goes on to the next. *)
Commit(r) ==
  LET v == script[r]
  IN  /\ v # 0 /\ Fits(r, v)
      /\ Transaction(r, v)
      /\ script' = [script EXCEPT ![r] = 0]
      /\ IF pc[r] = "waiting"
         THEN /\ pc' = [pc EXCEPT ![r] = "ready"]
              /\ todo' = [todo EXCEPT ![r] = Tail(@)]
              /\ done' = [done EXCEPT ![r] = @ \cup {v}]
         ELSE UNCHANGED << pc, todo, done >>
      /\ UNCHANGED << files, loaded, steps, disturbed >>

(* The script fails and leaves nothing; a run that waits for it returns. *)
Abort(r) ==
  /\ script[r] # 0
  /\ \/ ~ Fits(r, script[r]) /\ UNCHANGED disturbed
     \/ "error" \in Faults /\ disturbed' = TRUE
  /\ script' = [script EXCEPT ![r] = 0]
  /\ pc' = [pc EXCEPT ![r] = "failed"] /\ todo' = [todo EXCEPT ![r] = << >>]
  /\ UNCHANGED << files, loaded, steps, book, schema, done >>

(* The 60 s of the command line are over, or the process is killed. *)
GiveUp(r) ==
  /\ "timeout" \in Faults
  /\ pc[r] = "waiting" /\ script[r] # 0
  /\ pc' = [pc EXCEPT ![r] = "failed"] /\ todo' = [todo EXCEPT ![r] = << >>]
  /\ disturbed' = TRUE
  /\ UNCHANGED << files, loaded, steps, book, schema, script, done >>

Finished == (\A r \in Run : pc[r] \in {"ok", "failed"} /\ script[r] = 0) /\ UNCHANGED vars

Step(r) ==
  \/ \E b \in {Released, files} : Start(r, b) \/ LoadFails(r, b)
  \/ StartFails(r) \/ Send(r) \/ NoFile(r) \/ Return(r) \/ Commit(r) \/ Abort(r) \/ GiveUp(r)
Next == Finished \/ (\E r \in Run : Step(r)) \/ \E n \in Slug : CreateUp(n) \/ CreateDown(n)

Spec == Init /\ [][Next]_vars

(* A run that was started goes on, and the database ends every script. *)
FairSpec == Spec /\ \A r \in Run : WF_vars(Send(r) \/ NoFile(r) \/ Return(r) \/ Commit(r) \/ Abort(r))

-----------------------------------------------------------------------------
(* wrapTx: "nothing (including the bookkeeping row) is committed" when a   *)
(* script fails: what is recorded is what is there, whoever is killed      *)
(* when.  An Up that returns without an error leaves every migration it    *)
(* has a file of applied, unless a Down undoes it, and no two Ups report   *)
(* the same one.                                                           *)
OnlyUps == \A r \in Run : IsUp(r)
UpIsComplete ==
  /\ book = schema
  /\ OnlyUps =>
       /\ \A r \in Run : pc[r] = "ok" => embedded[r] \subseteq book
       /\ \A r, s \in Run : r # s => done[r] \cap done[s] = {}

(* Ups that race for a migration cannot all lose, whichever releases they  *)
(* are of: one of them ends without an error unless something fails by     *)
(* itself.                                                                 *)
SomeoneFinishes == (\E r \in Run : pc[r] = "ready") ~> (disturbed \/ \E r \in Run : pc[r] = "ok")
=============================================================================
