--------------------------- MODULE MigrateProofs ---------------------------
(***************************************************************************)
(* What Migrate promises, for any number of runs, releases, Creates and    *)
(* failures, and any dependencies between the migrations.                  *)
(***************************************************************************)
EXTENDS Migrate, FunctionTheorems, FiniteSetTheorems, TLAPS

-----------------------------------------------------------------------------
(* Ascending: the rank of a version in a set, the number of smaller ones,  *)
(* takes every value below the size of the set once.                       *)
Below(S, v) == {u \in S : u < v}

LEMMA FiniteVersions ==
  ASSUME NEW S \in SUBSET Version
  PROVE  IsFiniteSet(S) /\ Cardinality(S) \in Nat
<1>1. Last \in Int
  BY MigrateAssumption
<1>2. IsFiniteSet(Version)
  BY <1>1, FS_Interval DEF Version
<1>. QED
  BY <1>2, FS_Subset, FS_CardinalityType

LEMMA RankGrows ==
  ASSUME NEW S \in SUBSET Version, NEW v \in S, NEW w \in S, v < w
  PROVE  Cardinality(Below(S, v)) < Cardinality(Below(S, w))
<1>1. IsFiniteSet(S)
  BY FiniteVersions
<1>2. v \in Nat /\ w \in Nat /\ \A u \in S : u \in Nat
  BY DEF Version
<1>3. Below(S, v) \subseteq Below(S, w) /\ v \in Below(S, w) /\ v \notin Below(S, v)
  <2>1. ASSUME NEW u \in S, u < v PROVE u < w
    BY <1>2, <2>1
  <2>2. ~ (v < v)
    BY <1>2
  <2>. QED
    BY <2>1, <2>2 DEF Below
<1>4. IsFiniteSet(Below(S, w)) /\ IsFiniteSet(Below(S, v))
  BY <1>1, FS_Subset DEF Below
<1>5. Cardinality(Below(S, v)) \in Nat /\ Cardinality(Below(S, w)) \in Nat
  BY <1>4, FS_CardinalityType
<1>6. /\ Cardinality(Below(S, v)) <= Cardinality(Below(S, w))
      /\ Cardinality(Below(S, w)) = Cardinality(Below(S, v)) => Below(S, w) = Below(S, v)
  BY <1>3, <1>4, FS_Subset
<1>. QED
  BY <1>3, <1>5, <1>6

LEMMA RankIsOnto ==
  ASSUME NEW S \in SUBSET Version
  PROVE  /\ Cardinality(S) \in Nat
         /\ \A v \in S : Cardinality(Below(S, v)) \in 0..(Cardinality(S) - 1)
         /\ \A v, w \in S : Cardinality(Below(S, v)) = Cardinality(Below(S, w)) => v = w
         /\ \A i \in 0..(Cardinality(S) - 1) : \E v \in S : Cardinality(Below(S, v)) = i
<1> DEFINE n == Cardinality(S)
           T == 0..(n - 1)
           rank == [v \in S |-> Cardinality(Below(S, v))]
<1>1. IsFiniteSet(S) /\ n \in Nat
  BY FiniteVersions
<1>2. ASSUME NEW v \in S PROVE Cardinality(Below(S, v)) \in T
  <2>1. v \in Nat /\ ~ (v < v)
    BY DEF Version
  <2>2. Below(S, v) \in SUBSET S /\ v \notin Below(S, v)
    BY <2>1 DEF Below
  <2>3. IsFiniteSet(Below(S, v)) /\ Cardinality(Below(S, v)) \in Nat
    BY <1>1, <2>2, FS_Subset, FS_CardinalityType
  <2>4. Cardinality(Below(S, v)) <= n /\ (n = Cardinality(Below(S, v)) => S = Below(S, v))
    BY <1>1, <2>2, FS_Subset
  <2>. QED
    BY <1>1, <2>2, <2>3, <2>4
<1>3. ASSUME NEW v \in S, NEW w \in S, Cardinality(Below(S, v)) = Cardinality(Below(S, w))
      PROVE  v = w
  <2>1. v \in Nat /\ w \in Nat
    BY DEF Version
  <2>2. /\ Cardinality(Below(S, v)) \in Nat
        /\ v < w => Cardinality(Below(S, v)) < Cardinality(Below(S, w))
        /\ w < v => Cardinality(Below(S, w)) < Cardinality(Below(S, v))
    BY <1>2, RankGrows
  <2>. QED
    BY <1>3, <2>1, <2>2
<1>4. rank \in Injection(S, T)
  BY <1>2, <1>3 DEF Injection, IsInjective
<1>5. IsFiniteSet(T) /\ Cardinality(T) = n
  BY <1>1, FS_Interval
<1>6. rank \in Surjection(S, T)
  BY <1>4, <1>5, FS_Injection
<1>7. \A i \in T : \E v \in S : rank[v] = i
  BY <1>6 DEF Surjection
<1>. QED
  BY <1>1, <1>2, <1>3, <1>7

(* The versions an Up has to apply are those and no others, whatever their *)
(* number; a Down takes some of those that are recorded.                   *)
LEMMA AscendingLists ==
  ASSUME NEW S \in SUBSET Version
  PROVE  /\ Ascending(S) \in Seq(Version) /\ Len(Ascending(S)) = Cardinality(S)
         /\ \A v \in S : \E i \in 1..Len(Ascending(S)) : Ascending(S)[i] = v
<1> DEFINE n == Cardinality(S)
<1>1. n \in Nat
  BY RankIsOnto
<1>2. ASSUME NEW i \in 1..n
      PROVE  Ascending(S)[i] \in S /\ Cardinality(Below(S, Ascending(S)[i])) = i - 1
  <2>1. i - 1 \in 0..(n - 1)
    BY <1>1
  <2>2. \E v \in S : Cardinality(Below(S, v)) = i - 1
    BY <2>1, RankIsOnto
  <2>3. Ascending(S)[i] = CHOOSE v \in S : Cardinality(Below(S, v)) = i - 1
    BY DEF Ascending, Below
  <2>. QED
    BY <2>2, <2>3
<1>3. Ascending(S) \in [1..n -> Version]
  <2> DEFINE at(i) == CHOOSE v \in S : Cardinality({u \in S : u < v}) = i - 1
  <2>1. Ascending(S) = [i \in 1..n |-> at(i)]
    BY DEF Ascending
  <2>. HIDE DEF at
  <2>2. \A i \in 1..n : at(i) = Ascending(S)[i]
    BY <2>1
  <2>3. \A i \in 1..n : at(i) \in Version
    BY <1>2, <2>2
  <2>. QED
    BY <2>1, <2>3
<1>4. Ascending(S) \in Seq(Version) /\ Len(Ascending(S)) = n
  BY <1>1, <1>3
<1>5. ASSUME NEW v \in S PROVE \E i \in 1..n : Ascending(S)[i] = v
  <2> DEFINE i == Cardinality(Below(S, v)) + 1
  <2>1. Cardinality(Below(S, v)) \in 0..(n - 1)
    BY RankIsOnto
  <2>2. i \in 1..n /\ i - 1 = Cardinality(Below(S, v))
    BY <1>1, <2>1
  <2>. HIDE DEF i
  <2>3. Ascending(S)[i] \in S /\ Cardinality(Below(S, Ascending(S)[i])) = Cardinality(Below(S, v))
    BY <1>2, <2>2
  <2>4. Ascending(S)[i] = v
    BY <2>3, RankIsOnto
  <2>. QED
    BY <2>2, <2>4
<1>. QED
  BY <1>4, <1>5

LEMMA NewestLists ==
  ASSUME NEW S \in SUBSET Version, NEW n \in Nat
  PROVE  Newest(S, n) \in Seq(Version)
<1> DEFINE c == Cardinality(S)
           m == IF n < c THEN n ELSE c
<1>1. c \in Nat /\ m \in Nat /\ m <= c
  BY RankIsOnto
<1>2. \A i \in 1..m : c + 1 - i \in 1..c
  BY <1>1
<1>3. Ascending(S) \in Seq(Version) /\ Len(Ascending(S)) = c
  BY AscendingLists
<1>4. \A i \in 1..m : Ascending(S)[c + 1 - i] \in Version
  BY <1>2, <1>3
<1>5. Newest(S, n) = [i \in 1..m |-> Ascending(S)[c + 1 - i]]
  BY DEF Newest
<1>. HIDE DEF c, m
<1>. QED
  BY <1>1, <1>4, <1>5

-----------------------------------------------------------------------------
(* While every run is an Up, a run that goes on has each version of its    *)
(* files recorded or still to do, and what it reports is recorded.         *)
RunInv(r) ==
  /\ pc[r] = "idle" => steps[r] = 0
  /\ pc[r] = "waiting" => todo[r] # << >> /\ script[r] = Head(todo[r])
  /\ pc[r] = "ok" => todo[r] = << >>
  /\ OnlyUps =>
       /\ done[r] \subseteq book
       /\ pc[r] \in {"ready", "waiting", "ok"} =>
            \A v \in embedded[r] : v \in book \/ \E i \in 1..Len(todo[r]) : todo[r][i] = v

Apart == OnlyUps => \A r, s \in Run : r # s => done[r] \cap done[s] = {}

MigrateInv == TypeOK /\ book = schema /\ (\A r \in Run : RunInv(r)) /\ Apart

(* Files that Load accepts are complete: each version they name is one of  *)
(* its migrations.                                                         *)
LEMMA LoadIsComplete ==
  ASSUME NEW b \in SUBSET File, Loads(b)
  PROVE  Migrations(b) = VersionsIn(b) /\ VersionsIn(b) \subseteq Version
<1>1. ASSUME NEW f \in b
      PROVE  f.v \in Version /\ Pair(f.v, f.name) \subseteq b
  <2>1. f \in File
    OBVIOUS
  <2>2. PICK g \in b : g.v = f.v /\ g.dir # f.dir
    BY DEF Loads, Unpaired
  <2>3. g.name = f.name /\ g \in File
    BY <2>2 DEF Loads, Conflicting
  <2>4. /\ f = [v |-> f.v, name |-> f.name, dir |-> f.dir]
        /\ g = [v |-> f.v, name |-> f.name, dir |-> g.dir]
        /\ f.dir \in {"up", "down"} /\ g.dir \in {"up", "down"}
    BY <2>1, <2>2, <2>3 DEF File
  <2>5. \A d \in {"up", "down"} : d = f.dir \/ d = g.dir
    BY <2>2, <2>4
  <2>6. \A d \in {"up", "down"} : [v |-> f.v, name |-> f.name, dir |-> d] \in b
    BY <2>4, <2>5
  <2>. QED
    BY <2>1, <2>6 DEF File, Pair
<1>. QED
  BY <1>1 DEF Migrations, VersionsIn

LEMMA FilesAreNamed ==
  /\ Released \subseteq File
  /\ \A n \in Slug : Pair(Last, n) \subseteq File
<1>1. \A v \in 1..(Last - 1) : v \in Version
  BY MigrateAssumption DEF Version
<1>2. Last \in Version
  BY MigrateAssumption DEF Version
<1>3. \A v \in Version, n \in Slug \cup {"released"} : Pair(v, n) \subseteq File
  BY DEF Pair, File
<1>. QED
  BY <1>1, <1>2, <1>3 DEF Released

(* A run that is not concerned keeps what is true of it while the records  *)
(* grow, and so do all that take no part in a step of the database.        *)
LEMMA RunKept ==
  ASSUME NEW s \in Run, RunInv(s), OnlyUps' => OnlyUps /\ book \subseteq book',
         pc'[s] = pc[s], steps'[s] = steps[s], todo'[s] = todo[s], script'[s] = script[s],
         embedded'[s] = embedded[s], done'[s] = done[s]
  PROVE  RunInv(s)'
BY DEF RunInv

LEMMA StartKeeps ==
  ASSUME MigrateInv, NEW r \in Run, NEW b \in SUBSET File, Start(r, b)
  PROVE  MigrateInv'
<1>0. TypeOK /\ RunInv(r) /\ Apart /\ book = schema
  BY DEF MigrateInv
<1>1. PICK n \in Command :
        /\ steps' = [steps EXCEPT ![r] = n]
        /\ todo' = [todo EXCEPT ![r] = IF n = 0 THEN Ascending(known'[r] \ book) ELSE Newest(book, n)]
        /\ disturbed' = (disturbed \/ n # 0)
  BY DEF Start
<1>2. /\ pc[r] = "idle" /\ pc' = [pc EXCEPT ![r] = "ready"]
      /\ known' = [known EXCEPT ![r] = Migrations(b)]
      /\ embedded' = [embedded EXCEPT ![r] = VersionsIn(b)]
      /\ UNCHANGED << files, book, schema, script, done >> /\ Loads(b)
  BY DEF Start
<1>3. /\ known'[r] = VersionsIn(b) /\ embedded'[r] = VersionsIn(b) /\ VersionsIn(b) \subseteq Version
      /\ steps'[r] = n /\ pc'[r] = "ready" /\ n \in Nat
      /\ todo'[r] = IF n = 0 THEN Ascending(known'[r] \ book) ELSE Newest(book, n)
  BY <1>0, <1>1, <1>2, LoadIsComplete, MigrateAssumption DEF TypeOK
<1>4. known'[r] \ book \in SUBSET Version /\ book \in SUBSET Version
  BY <1>0, <1>3 DEF TypeOK
<1>5. todo'[r] \in Seq(Version)
  BY <1>3, <1>4, AscendingLists, NewestLists
<1>6. TypeOK'
  <2>1. todo' \in [Run -> Seq(Version)]
    BY <1>0, <1>1, <1>5 DEF TypeOK
  <2>2. disturbed' \in BOOLEAN
    BY <1>1
  <2>3. steps' \in [Run -> Command \cup {0}]
    BY <1>0, <1>1 DEF TypeOK
  <2>4. known' \in [Run -> SUBSET Version] /\ embedded' \in [Run -> SUBSET Version]
    BY <1>0, <1>2, <1>3, LoadIsComplete DEF TypeOK
  <2>5. pc' \in [Run -> {"idle", "ready", "waiting", "ok", "failed"}]
    BY <1>0, <1>2 DEF TypeOK
  <2>. QED
    BY <1>0, <1>2, <2>1, <2>2, <2>3, <2>4, <2>5 DEF TypeOK
<1>7. OnlyUps' => OnlyUps /\ n = 0
  BY <1>0, <1>1, <1>2, <1>3 DEF OnlyUps, IsUp, RunInv, TypeOK
<1>8. ASSUME NEW s \in Run
      PROVE  RunInv(s)'
  <2>1. CASE s # r
    BY <1>0, <1>1, <1>2, <1>7, <2>1, RunKept DEF MigrateInv, TypeOK
  <2>2. CASE s = r
    <3>1. n = 0 => \A v \in VersionsIn(b) : v \in book \/ \E i \in 1..Len(todo'[r]) : todo'[r][i] = v
      BY <1>3, <1>4, AscendingLists
    <3>2. OnlyUps' => done'[r] \subseteq book'
      BY <1>0, <1>2, <1>7 DEF RunInv
    <3>. QED
      BY <1>2, <1>3, <1>7, <2>2, <3>1, <3>2 DEF RunInv
  <2>. QED
    BY <2>1, <2>2
<1>9. Apart'
  BY <1>0, <1>2, <1>7 DEF Apart
<1>. QED
  BY <1>0, <1>2, <1>6, <1>8, <1>9 DEF MigrateInv

(* wrapTx: the objects and the record come and go together. *)
LEMMA CommitKeeps ==
  ASSUME MigrateInv, NEW r \in Run, Commit(r)
  PROVE  MigrateInv'
<1> DEFINE v == script[r]
<1>0. TypeOK /\ RunInv(r) /\ Apart /\ book = schema
  BY DEF MigrateInv
<1>1. /\ v # 0 /\ Fits(r, v) /\ Transaction(r, v)
      /\ script' = [script EXCEPT ![r] = 0]
      /\ UNCHANGED << files, loaded, steps, disturbed >>
      /\ \/ /\ pc[r] = "waiting" /\ pc' = [pc EXCEPT ![r] = "ready"]
            /\ todo' = [todo EXCEPT ![r] = Tail(@)] /\ done' = [done EXCEPT ![r] = @ \cup {v}]
         \/ pc[r] # "waiting" /\ UNCHANGED << pc, todo, done >>
  BY DEF Commit
<1>2. v \in Version
  BY <1>0, <1>1, MigrateAssumption DEF TypeOK, Version
<1> HIDE DEF v
<1>3. book' = schema' /\ book' \subseteq Version /\ schema' \subseteq Version
  BY <1>0, <1>1, <1>2 DEF Transaction, TypeOK
<1>4. pc[r] = "waiting" => todo[r] \in Seq(Version) /\ todo[r] # << >> /\ v = Head(todo[r])
  BY <1>0 DEF RunInv, TypeOK, v
<1>5. TypeOK'
  <2>1. todo' \in [Run -> Seq(Version)]
    <3>1. todo \in [Run -> Seq(Version)]
      BY <1>0 DEF TypeOK
    <3>2. CASE pc[r] = "waiting"
      <4>1. Tail(todo[r]) \in Seq(Version) /\ todo' = [todo EXCEPT ![r] = Tail(todo[r])]
        BY <1>1, <1>4, <3>2
      <4>. QED
        BY <3>1, <4>1
    <3>. QED
      BY <1>1, <3>1, <3>2
  <2>2. pc' \in [Run -> {"idle", "ready", "waiting", "ok", "failed"}]
    BY <1>0, <1>1 DEF TypeOK
  <2>3. done' \in [Run -> SUBSET Version]
    <3>1. done \in [Run -> SUBSET Version] /\ done[r] \cup {v} \in SUBSET Version
      BY <1>0, <1>2 DEF TypeOK
    <3>2. done' = done \/ done' = [done EXCEPT ![r] = done[r] \cup {v}]
      BY <1>1
    <3>. QED
      BY <3>1, <3>2
  <2>4. script' \in [Run -> 0..Last]
    <3>1. script \in [Run -> 0..Last] /\ 0 \in 0..Last
      BY <1>0, MigrateAssumption DEF TypeOK
    <3>. QED
      BY <1>1, <3>1
  <2>. QED
    BY <1>0, <1>1, <1>3, <2>1, <2>2, <2>3, <2>4 DEF TypeOK, loaded
<1>6. OnlyUps' => OnlyUps /\ book' = book \cup {v} /\ v \notin book
  BY <1>1 DEF OnlyUps, IsUp, Fits, Transaction
<1>7. ASSUME NEW s \in Run
      PROVE  RunInv(s)'
  <2>1. CASE s # r
    <3>1. RunInv(s) /\ pc'[s] = pc[s] /\ steps'[s] = steps[s] /\ todo'[s] = todo[s] /\ script'[s] = script[s]
          /\ embedded'[s] = embedded[s] /\ done'[s] = done[s]
      BY <1>0, <1>1, <2>1 DEF MigrateInv, TypeOK, loaded
    <3>. QED
      BY <1>6, <3>1, RunKept
  <2>2. CASE s = r /\ pc[r] = "waiting"
    <3>1. pc'[r] = "ready" /\ todo'[r] = Tail(todo[r]) /\ done'[r] = done[r] \cup {v} /\ embedded'[r] = embedded[r]
      BY <1>0, <1>1, <2>2 DEF TypeOK, loaded
    <3>2. ASSUME OnlyUps', NEW u \in embedded[r], u \notin book'
          PROVE  \E i \in 1..Len(todo'[r]) : todo'[r][i] = u
      <4>1. PICK i \in 1..Len(todo[r]) : todo[r][i] = u
        BY <1>0, <1>6, <2>2, <3>2 DEF RunInv
      <4>2. u # v
        BY <1>6, <3>2
      <4>3. i # 1
        BY <1>4, <2>2, <4>1, <4>2
      <4>4. i - 1 \in 1..Len(Tail(todo[r])) /\ Tail(todo[r])[i - 1] = u
        BY <1>4, <2>2, <4>1, <4>3
      <4>. QED
        BY <3>1, <4>4
    <3>3. OnlyUps' => done'[r] \subseteq book'
      BY <1>0, <1>6, <3>1 DEF RunInv
    <3>. QED
      BY <2>2, <3>1, <3>2, <3>3 DEF RunInv
  <2>3. CASE s = r /\ pc[r] # "waiting"
    BY <1>0, <1>1, <1>6, <2>3 DEF RunInv, loaded
  <2>. QED
    BY <2>1, <2>2, <2>3
<1>8. Apart'
  <2> SUFFICES ASSUME OnlyUps', NEW s \in Run, NEW t \in Run, s # t PROVE done'[s] \cap done'[t] = {}
    BY DEF Apart
  <2>1. done[s] \cap done[t] = {} /\ v \notin done[s] /\ v \notin done[t]
    BY <1>0, <1>6 DEF Apart, MigrateInv, RunInv
  <2>2. done' = done \/ done' = [done EXCEPT ![r] = done[r] \cup {v}]
    BY <1>1
  <2>3. ASSUME NEW x \in Run PROVE done'[x] = done[x] \/ (x = r /\ done'[x] = done[x] \cup {v})
    <3>1. done \in [Run -> SUBSET Version]
      BY <1>0 DEF TypeOK
    <3>2. CASE done' = [done EXCEPT ![r] = done[r] \cup {v}]
      BY <3>1, <3>2
    <3>. QED
      BY <2>2, <3>2
  <2>4. /\ done'[s] = done[s] \/ (s = r /\ done'[s] = done[s] \cup {v})
        /\ done'[t] = done[t] \/ (t = r /\ done'[t] = done[t] \cup {v})
    BY <2>3
  <2>5. CASE done'[s] = done[s]
    BY <2>1, <2>4, <2>5
  <2>6. CASE s = r /\ done'[s] = done[s] \cup {v}
    BY <2>1, <2>4, <2>6
  <2>. QED
    BY <2>4, <2>5, <2>6
<1>. QED
  BY <1>3, <1>5, <1>7, <1>8 DEF MigrateInv

(* The steps that leave the records alone. *)
LEMMA OtherStepKeeps ==
  ASSUME MigrateInv, NEW r \in Run,
         \/ (\E b \in SUBSET File : LoadFails(r, b)) \/ StartFails(r) \/ Send(r) \/ NoFile(r) \/ Return(r)
         \/ Abort(r) \/ GiveUp(r)
  PROVE  MigrateInv'
<1> USE MigrateAssumption
<1>0. TypeOK /\ RunInv(r) /\ Apart /\ book = schema
  BY DEF MigrateInv
<1>1. /\ UNCHANGED << files, loaded, steps, book, schema, done >> /\ disturbed' \in BOOLEAN
      /\ \A s \in Run : s # r => pc'[s] = pc[s] /\ todo'[s] = todo[s] /\ script'[s] = script[s]
  BY <1>0 DEF LoadFails, StartFails, Send, NoFile, Return, Abort, GiveUp, TypeOK
<1>2. \/ pc'[r] = "failed"
      \/ /\ pc[r] = "ready" /\ pc'[r] = "waiting" /\ todo'[r] = todo[r] /\ todo[r] # << >>
         /\ script'[r] = Head(todo[r])
      \/ pc[r] = "ready" /\ pc'[r] = "ok" /\ todo'[r] = todo[r] /\ todo[r] = << >>
  BY <1>0 DEF LoadFails, StartFails, Send, NoFile, Return, Abort, GiveUp, TypeOK
<1>3. TypeOK'
  <2>1. pc' \in [Run -> {"idle", "ready", "waiting", "ok", "failed"}]
    BY <1>0 DEF LoadFails, StartFails, Send, NoFile, Return, Abort, GiveUp, TypeOK
  <2>3. todo' \in [Run -> Seq(Version)]
    <3>1. todo \in [Run -> Seq(Version)] /\ << >> \in Seq(Version)
      BY <1>0 DEF TypeOK
    <3>2. todo' = todo \/ todo' = [todo EXCEPT ![r] = << >>]
      BY DEF LoadFails, StartFails, Send, NoFile, Return, Abort, GiveUp
    <3>. QED
      BY <3>1, <3>2
  <2>2. script' \in [Run -> 0..Last]
    <3>1. CASE Send(r)
      <4>1. todo[r] \in Seq(Version) /\ todo[r] # << >>
        BY <1>0, <3>1 DEF Send, TypeOK
      <4>2. Head(todo[r]) \in 0..Last
        BY <4>1 DEF Version
      <4>. QED
        BY <1>0, <3>1, <4>2 DEF Send, TypeOK
    <3>2. CASE ~ Send(r)
      <4>1. script' = script \/ script' = [script EXCEPT ![r] = 0]
        BY <3>2 DEF LoadFails, StartFails, NoFile, Return, Abort, GiveUp
      <4>2. script \in [Run -> 0..Last] /\ 0 \in 0..Last
        BY <1>0 DEF TypeOK
      <4>. QED
        BY <4>1, <4>2
    <3>. QED
      BY <3>1, <3>2
  <2>. QED
    BY <1>0, <1>1, <2>1, <2>2, <2>3 DEF TypeOK, loaded
<1>4. OnlyUps' <=> OnlyUps
  BY <1>1 DEF OnlyUps, IsUp
<1>5. ASSUME NEW s \in Run
      PROVE  RunInv(s)'
  <2>1. CASE s # r
    BY <1>1, <1>4, <2>1, RunKept DEF MigrateInv, loaded
  <2>2. CASE s = r
    BY <1>0, <1>1, <1>2, <1>4, <2>2 DEF RunInv, loaded
  <2>. QED
    BY <2>1, <2>2
<1>6. Apart'
  BY <1>0, <1>1, <1>4 DEF Apart
<1>. QED
  BY <1>0, <1>1, <1>3, <1>5, <1>6 DEF MigrateInv

LEMMA MigrateInvStep == MigrateInv /\ [Next]_vars => MigrateInv'
<1> SUFFICES ASSUME MigrateInv, [Next]_vars PROVE MigrateInv'
  OBVIOUS
<1>1. ASSUME NEW r \in Run, Step(r)
      PROVE  MigrateInv'
  <2>1. Released \in SUBSET File /\ files \in SUBSET File
    BY FilesAreNamed DEF MigrateInv, TypeOK
  <2>. QED
    BY <1>1, <2>1, StartKeeps, CommitKeeps, OtherStepKeeps DEF Step
<1>2. CASE /\ files' \subseteq File
           /\ UNCHANGED << loaded, steps, book, schema, pc, todo, script, done, disturbed >>
  <2>1. TypeOK'
    BY <1>2 DEF MigrateInv, TypeOK, loaded
  <2>2. (\A r \in Run : RunInv(r)') /\ Apart'
    BY <1>2 DEF MigrateInv, RunInv, Apart, OnlyUps, IsUp, loaded
  <2>. QED
    BY <1>2, <2>1, <2>2 DEF MigrateInv
<1>3. ASSUME NEW n \in Slug, CreateUp(n) \/ CreateDown(n)
      PROVE  MigrateInv'
  <2>1. files \subseteq File /\ Pair(Last, n) \subseteq File
    BY FilesAreNamed DEF MigrateInv, TypeOK
  <2>. QED
    BY <1>2, <1>3, <2>1 DEF CreateUp, CreateDown
<1>4. CASE UNCHANGED vars
  <2>1. files' \subseteq File
    BY <1>4 DEF vars, MigrateInv, TypeOK
  <2>2. UNCHANGED << loaded, steps, book, schema, pc, todo, script, done, disturbed >>
    BY <1>4 DEF vars, loaded
  <2>. QED
    BY <1>2, <2>1, <2>2
<1>. QED
  BY <1>1, <1>3, <1>4 DEF Next, Finished

LEMMA MigrateInvInit == Init => MigrateInv
<1> SUFFICES ASSUME Init PROVE MigrateInv
  OBVIOUS
<1> USE MigrateAssumption
<1>1. << >> \in Seq(Version)
  OBVIOUS
<1>2. TypeOK
  <2>1. todo \in [Run -> Seq(Version)]
    BY <1>1 DEF Init
  <2>2. script \in [Run -> 0..Last]
    <3>1. 0 \in 0..Last
      OBVIOUS
    <3>. QED
      BY <3>1 DEF Init
  <2>3. known \in [Run -> SUBSET Version] /\ embedded \in [Run -> SUBSET Version] /\ done \in [Run -> SUBSET Version]
    BY DEF Init
  <2>4. steps \in [Run -> Command \cup {0}] /\ pc \in [Run -> {"idle", "ready", "waiting", "ok", "failed"}]
    BY DEF Init
  <2>. QED
    BY <2>1, <2>2, <2>3, <2>4, FilesAreNamed DEF Init, TypeOK
<1>3. (\A r \in Run : RunInv(r)) /\ Apart
  BY DEF Init, RunInv, Apart
<1>. QED
  BY <1>2, <1>3 DEF Init, MigrateInv

(* What the theorems rest on. *)
LEMMA MigrateInvHolds == Spec => []MigrateInv
BY MigrateInvInit, MigrateInvStep, PTL DEF Spec

-----------------------------------------------------------------------------
(* The directory, the two tables and every run keep their types; in        *)
(* particular the versions of a run are listed without gaps, whatever is   *)
(* recorded already.                                                       *)
THEOREM TypeCorrect == Spec => []TypeOK
<1>1. MigrateInv => TypeOK
  BY DEF MigrateInv
<1>. QED
  BY <1>1, MigrateInvHolds, PTL

(* wrapTx puts the bookkeeping row in the transaction of the script: what  *)
(* is recorded is what is there, whoever fails or is killed when.  Up      *)
(* returns without an error only when every version of its files is        *)
(* recorded, and the primary key of schema_migrations lets one of several  *)
(* runs report a version, as long as no Down undoes it.                    *)
THEOREM UpsAreComplete == Spec => []UpIsComplete
<1>1. ASSUME MigrateInv, OnlyUps, NEW r \in Run, pc[r] = "ok"
      PROVE  embedded[r] \subseteq book
  <2>1. RunInv(r) /\ todo[r] = << >>
    BY <1>1 DEF MigrateInv, RunInv
  <2>2. ~ \E i \in 1..Len(todo[r]) : todo[r][i] \in embedded[r]
    BY <2>1
  <2>. QED
    BY <1>1, <2>1, <2>2 DEF RunInv
<1>2. MigrateInv => UpIsComplete
  BY <1>1 DEF MigrateInv, Apart, UpIsComplete
<1>. QED
  BY <1>2, MigrateInvHolds, PTL
=============================================================================
