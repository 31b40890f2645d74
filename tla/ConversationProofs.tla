------------------------- MODULE ConversationProofs -------------------------
(***************************************************************************)
(* What the pure operators of module Messages guarantee for every history, *)
(* every incoming turn and every cap, and proofs about module              *)
(* Conversation, for any number of turns, sessions, texts and inputs.      *)
(***************************************************************************)
EXTENDS Conversation, WellFoundedInduction, FunctionTheorems, FiniteSetTheorems,
        SequenceTheorems, TLAPS

-----------------------------------------------------------------------------
(* A non-empty set of naturals with an upper bound has a largest element:  *)
(* the intervals x..b for x in the set are finite, and strict inclusion of *)
(* finite sets is well founded.                                            *)
LEMMA BoundedMaximum ==
  ASSUME NEW b \in Nat, NEW T, T \subseteq 0..b, T # {}
  PROVE  \E x \in T : \A y \in T : y <= x
<1> DEFINE S == 0..b
           U == {x..b : x \in T}
<1>1. IsFiniteSet(S)
  BY FS_Interval
<1>2. IsWellFoundedOn(StrictSubsetOrdering(S), FiniteSubsetsOf(S))
  BY FS_StrictSubsetOrderingWellFounded
<1>3. U \subseteq FiniteSubsetsOf(S) /\ U # {}
  <2>1. ASSUME NEW x \in T PROVE x..b \in FiniteSubsetsOf(S)
    <3>1. x..b \subseteq S
      OBVIOUS
    <3>2. IsFiniteSet(x..b)
      BY <1>1, <3>1, FS_Subset
    <3> QED BY <3>1, <3>2 DEF FiniteSubsetsOf
  <2> QED BY <2>1
<1>4. PICK u \in U : \A v \in U : ~ (<<v, u>> \in StrictSubsetOrdering(S))
  BY <1>2, <1>3, WFMin
<1>5. PICK x \in T : u = x..b
  BY <1>4
<1>6. ASSUME NEW y \in T, ~(y <= x) PROVE FALSE
  <2>1. y..b \subseteq x..b /\ x \in x..b /\ x \notin y..b
    BY <1>6
  <2>2. y..b \in U
    OBVIOUS
  <2>3. <<y..b, u>> \in StrictSubsetOrdering(S)
    BY <2>1, <1>5 DEF StrictSubsetOrdering
  <2> QED BY <2>2, <2>3, <1>4
<1> QED BY <1>6

(* A non-empty set of naturals with an upper bound has a least element. *)
LEMMA BoundedMinimum ==
  ASSUME NEW b \in Nat, NEW T, T \subseteq 0..b, T # {}
  PROVE  \E x \in T : \A y \in T : x <= y
<1> DEFINE U == {b - x : x \in T}
<1>1. U \subseteq 0..b /\ U # {}
  <2>1. \A x \in T : b - x \in 0..b
    OBVIOUS
  <2> QED BY <2>1
<1>2. PICK u \in U : \A v \in U : v <= u
  BY <1>1, BoundedMaximum
<1>3. PICK x \in T : u = b - x
  BY <1>2
<1>4. ASSUME NEW y \in T PROVE x <= y
  <2>1. b - y \in U /\ b - y <= u
    BY <1>2
  <2> QED BY <2>1, <1>3
<1> QED BY <1>4

(* The loop of dropOverlap always has an answer, and it is the largest one. *)
LEMMA LongestOverlapIsMaximal ==
  ASSUME NEW M, NEW history \in Seq(M), NEW offered \in Seq(M)
  PROVE  LET k == LongestOverlap(history, offered)
         IN  /\ k \in Overlaps(history, offered)
             /\ \A j \in Overlaps(history, offered) : j <= k
             /\ k \in Nat /\ k <= Len(history) /\ k <= Len(offered)
<1> DEFINE T == Overlaps(history, offered)
<1>1. T \subseteq 0..Len(history)
  BY DEF Overlaps
<1>2. 0 \in T
  <2>1. SubSeq(history, Len(history) - 0 + 1, Len(history)) = << >> /\ SubSeq(offered, 1, 0) = << >>
    OBVIOUS
  <2> QED BY <2>1 DEF Overlaps
<1>3. \E x \in T : \A y \in T : y <= x
  BY <1>1, <1>2, BoundedMaximum, LenProperties
<1>4. LongestOverlap(history, offered) \in T /\ \A j \in T : j <= LongestOverlap(history, offered)
  BY <1>3 DEF LongestOverlap
<1> QED BY <1>4 DEF Overlaps

(* The last k messages of history are the first k incoming ones: the test  *)
(* dropOverlap makes for each k.                                           *)
LoopMatch(history, offered, k) ==
  \A i \in 1..k : history[Len(history) - k + i] = offered[i]

(* The test of the loop, message by message, accepts the numbers in        *)
(* Overlaps.                                                               *)
LEMMA OverlapsAreMatches ==
  ASSUME NEW M, NEW history \in Seq(M), NEW offered \in Seq(M),
         NEW k \in 0..Len(history), k <= Len(offered)
  PROVE  k \in Overlaps(history, offered) <=> LoopMatch(history, offered, k)
<1> DEFINE old == SubSeq(history, Len(history) - k + 1, Len(history))
           new == SubSeq(offered, 1, k)
<1>1. old \in Seq(M) /\ Len(old) = k /\ \A i \in 1..k : old[i] = history[Len(history) - k + i]
  OBVIOUS
<1>2. new \in Seq(M) /\ Len(new) = k /\ \A i \in 1..k : new[i] = offered[i]
  OBVIOUS
<1>3. k \in Overlaps(history, offered) <=> old = new
  BY DEF Overlaps
<1> HIDE DEF old, new
<1>4. (old = new) <=> \A i \in 1..k : old[i] = new[i]
  BY <1>1, <1>2, SeqEqual
<1> QED BY <1>1, <1>2, <1>3, <1>4 DEF LoopMatch

(* f answers the loop of dropOverlap, started at any k up to n. *)
AnswersLoop(f, history, offered, n) ==
  f = [k \in 0..n |->
         IF k = 0 THEN offered
         ELSE IF \A i \in 1..k : history[Len(history) - k + i] = offered[i]
              THEN SubSeq(offered, k + 1, Len(offered))
              ELSE f[k - 1]]

(* The loop of dropOverlap is well defined: some function satisfies the    *)
(* recursive equation, the one that drops, for each k, the longest overlap *)
(* of at most k messages.                                                  *)
LEMMA LoopIsDefined ==
  ASSUME NEW M, NEW history \in Seq(M), NEW offered \in Seq(M),
         NEW n \in Nat, n <= Len(history), n <= Len(offered)
  PROVE  \E f : AnswersLoop(f, history, offered, n)
<1> DEFINE At(k) == {j \in 0..k : j = 0 \/ LoopMatch(history, offered, j)}
           Best(k) == CHOOSE j \in At(k) : \A i \in At(k) : i <= j
           f == [k \in 0..n |-> SubSeq(offered, Best(k) + 1, Len(offered))]
<1>1. ASSUME NEW k \in 0..n
      PROVE  Best(k) \in At(k) /\ \A i \in At(k) : i <= Best(k)
  <2>1. At(k) \subseteq 0..k /\ 0 \in At(k) /\ k \in Nat
    OBVIOUS
  <2>2. \E j \in At(k) : \A i \in At(k) : i <= j
    BY <2>1, BoundedMaximum
  <2> QED BY <2>2
<1>2. ASSUME NEW k \in 0..n
      PROVE  f[k] = IF k = 0 THEN offered
                    ELSE IF \A i \in 1..k : history[Len(history) - k + i] = offered[i]
                         THEN SubSeq(offered, k + 1, Len(offered))
                         ELSE f[k - 1]
  <2> HIDE DEF Best
  <2>1. CASE k = 0
    <3>1. Best(k) = 0
      BY <1>1, <2>1
    <3>2. SubSeq(offered, 1, Len(offered)) = offered
      OBVIOUS
    <3> QED BY <2>1, <3>1, <3>2
  <2>2. CASE k # 0 /\ LoopMatch(history, offered, k)
    <3>1. k \in At(k)
      BY <2>2
    <3>2. Best(k) = k
      BY <1>1, <3>1
    <3> QED BY <2>2, <3>2 DEF LoopMatch
  <2>3. CASE k # 0 /\ ~ LoopMatch(history, offered, k)
    <3>1. k - 1 \in 0..n
      BY <2>3
    <3>2. At(k) = At(k - 1)
      BY <2>3, <3>1
    <3>3. Best(k) = Best(k - 1)
      BY <3>2 DEF Best
    <3> QED BY <2>3, <3>1, <3>3 DEF LoopMatch
  <2> QED BY <2>1, <2>2, <2>3
<1> HIDE DEF Best
<1>3. AnswersLoop(f, history, offered, n)
  BY <1>2 DEF AnswersLoop
<1> QED BY <1>3

(* Whatever the history and the incoming messages, the loop that counts    *)
(* down from the shorter length stops at the longest overlap: the largest  *)
(* k at which the two agree, with no shorter repetition preferred to it.   *)
THEOREM LoopFindsLongestOverlap ==
  ASSUME NEW M, NEW history \in Seq(M), NEW offered \in Seq(M)
  PROVE  OverlapLoop(history, offered) = DropOverlap(history, offered)
<1> DEFINE n == IF Len(offered) < Len(history) THEN Len(offered) ELSE Len(history)
           drop == CHOOSE g : AnswersLoop(g, history, offered, n)
           m == LongestOverlap(history, offered)
<1>1. OverlapLoop(history, offered) = drop[n]
  BY DEF OverlapLoop, AnswersLoop
<1>2. n \in Nat /\ n <= Len(history) /\ n <= Len(offered)
  OBVIOUS
<1>3. AnswersLoop(drop, history, offered, n)
  <2> HIDE DEF n
  <2>1. \E g : AnswersLoop(g, history, offered, n)
    BY <1>2, LoopIsDefined
  <2> QED BY <2>1
<1> HIDE DEF drop
<1>4. \A k \in 0..n : drop[k] = IF k = 0 THEN offered
                                ELSE IF LoopMatch(history, offered, k)
                                     THEN SubSeq(offered, k + 1, Len(offered))
                                     ELSE drop[k - 1]
  BY <1>3 DEF AnswersLoop, LoopMatch
<1>5. /\ m \in Overlaps(history, offered)
      /\ \A j \in Overlaps(history, offered) : j <= m
      /\ m \in 0..n
  BY LongestOverlapIsMaximal
<1> HIDE DEF m, n
<1>6. drop[m] = SubSeq(offered, m + 1, Len(offered))
  <2>1. m = 0 => SubSeq(offered, m + 1, Len(offered)) = offered
    OBVIOUS
  <2>2. LoopMatch(history, offered, m)
    BY <1>2, <1>5, OverlapsAreMatches
  <2> QED BY <1>4, <1>5, <2>1, <2>2
<1>7. ASSUME NEW k \in 0..n, m < k
      PROVE  drop[k] = drop[k - 1]
  <2>1. k \in 0..Len(history) /\ k <= Len(offered) /\ k # 0
    BY <1>2, <1>5, <1>7
  <2>2. k \notin Overlaps(history, offered)
    BY <1>5, <1>7
  <2>3. ~ LoopMatch(history, offered, k)
    BY <2>1, <2>2, OverlapsAreMatches
  <2> QED BY <1>4, <2>1, <2>3
<1>8. drop[n] = drop[m]
  <2> DEFINE Wrong == {k \in 0..n : m <= k /\ drop[k] # drop[m]}
  <2>1. ASSUME Wrong # {} PROVE FALSE
    <3>1. PICK k \in Wrong : \A j \in Wrong : k <= j
      BY <1>2, <2>1, BoundedMinimum
    <3>2. m < k /\ k \in 0..n /\ k - 1 \in 0..n /\ m <= k - 1
      BY <1>2, <1>5, <3>1
    <3>3. k - 1 \notin Wrong
      BY <3>1, <3>2
    <3> QED BY <1>7, <3>1, <3>2, <3>3
  <2> QED BY <1>2, <1>5, <2>1
<1>9. DropOverlap(history, offered) = SubSeq(offered, m + 1, Len(offered))
  BY DEF DropOverlap, m
<1> QED BY <1>1, <1>6, <1>8, <1>9

(* dropOverlap returns a tail of its input: it never invents, reorders or  *)
(* repeats a message.                                                      *)
THEOREM DropOverlapIsTail ==
  ASSUME NEW M, NEW history \in Seq(M), NEW offered \in Seq(M)
  PROVE  LET k == LongestOverlap(history, offered)
             added == DropOverlap(history, offered)
         IN  /\ added \in Seq(M)
             /\ Len(added) = Len(offered) - k
             /\ \A i \in 1..Len(added) : added[i] = offered[k + i]
<1>1. LongestOverlap(history, offered) \in 0..Len(offered)
  BY LongestOverlapIsMaximal
<1> DEFINE k == LongestOverlap(history, offered)
<1>2. DropOverlap(history, offered) = SubSeq(offered, k + 1, Len(offered))
  BY DEF DropOverlap
<1> HIDE DEF k
<1>3. k \in 0..Len(offered)
  BY <1>1 DEF k
<1> DEFINE added == SubSeq(offered, k + 1, Len(offered))
<1>4. added \in Seq(M) /\ Len(added) = Len(offered) - k
  BY <1>3
<1>5. \A i \in 1..Len(added) : added[i] = offered[k + i]
  BY <1>3, <1>4
<1> QED BY <1>2, <1>4, <1>5 DEF k

(* Because a stored history ends with a reply, the caller's new user       *)
(* message is never dropped as an echo.                                    *)
THEOREM UserTurnKept ==
  ASSUME NEW M, NEW history \in Seq(M), NEW offered \in Seq(M), EndsWithReply(history)
  PROVE  KeepsUserTurn(history, offered)
<1> DEFINE k == LongestOverlap(history, offered)
           added == DropOverlap(history, offered)
<1> SUFFICES ASSUME offered # << >>, LastOf(offered).role = "user"
             PROVE  added # << >> /\ LastOf(added) = LastOf(offered)
  BY DEF KeepsUserTurn
<1>1. k \in Overlaps(history, offered) /\ k \in Nat /\ k <= Len(history) /\ k <= Len(offered)
  BY LongestOverlapIsMaximal
<1>2. k # Len(offered)
  <2> SUFFICES ASSUME k = Len(offered) PROVE FALSE
    OBVIOUS
  <2>1. k > 0
    BY <1>1, EmptySeq
  <2>2. SubSeq(history, Len(history) - k + 1, Len(history)) = SubSeq(offered, 1, k)
    BY <1>1 DEF Overlaps
  <2>3. SubSeq(history, Len(history) - k + 1, Len(history))[k] = history[Len(history)]
    BY <1>1, <2>1
  <2>4. SubSeq(offered, 1, k)[k] = offered[Len(offered)]
    BY <1>1, <2>1
  <2>5. history # << >>
    BY <1>1, <2>1
  <2> QED BY <2>2, <2>3, <2>4, <2>5 DEF EndsWithReply, LastOf
<1>3. Len(added) = Len(offered) - k /\ \A i \in 1..Len(added) : added[i] = offered[k + i]
  BY DropOverlapIsTail
<1>4. added # << >> /\ LastOf(added) = LastOf(offered)
  BY <1>1, <1>2, <1>3 DEF LastOf
<1> QED BY <1>4

(* Re-sending stored messages before a new user turn stores nothing twice  *)
(* and loses nothing.                                                      *)
THEOREM ResendIsExact ==
  ASSUME NEW M, NEW history \in Seq(M), EndsWithReply(history), NEW turn \in M, turn.role = "user"
  PROVE  ResendAddsOnlyTurn(history, turn)
<1> SUFFICES ASSUME NEW k \in 0..Len(history)
             PROVE  DropOverlap(history, LastMessages(history, k) \o << turn >>) = << turn >>
  BY DEF ResendAddsOnlyTurn
<1> DEFINE window == LastMessages(history, k)
           offered == window \o << turn >>
<1>1. window \in Seq(M) /\ Len(window) = k
  BY DEF LastMessages
<1>2. offered \in Seq(M) /\ Len(offered) = k + 1 /\ offered[k + 1] = turn
  BY <1>1
<1>3. SubSeq(offered, 1, k) = window
  BY <1>1, <1>2
<1> HIDE DEF offered
<1>4. k \in Overlaps(history, offered)
  <2>1. SubSeq(history, Len(history) - k + 1, Len(history)) = window
    BY DEF LastMessages
  <2>2. k <= Len(offered)
    BY <1>2
  <2> HIDE DEF window
  <2> QED BY <2>1, <2>2, <1>3 DEF Overlaps
<1>5. LongestOverlap(history, offered) = k
  <2> DEFINE j == LongestOverlap(history, offered)
  <2>1. j \in Overlaps(history, offered) /\ k <= j /\ j \in Nat /\ j <= Len(history) /\ j <= k + 1
    BY <1>2, <1>4, LongestOverlapIsMaximal
  <2>2. ASSUME j = k + 1 PROVE FALSE
    <3>1. SubSeq(history, Len(history) - j + 1, Len(history)) = SubSeq(offered, 1, j)
      BY <2>1 DEF Overlaps
    <3>2. SubSeq(history, Len(history) - j + 1, Len(history))[j] = history[Len(history)]
      BY <2>1, <2>2
    <3>3. SubSeq(offered, 1, j)[j] = turn
      BY <1>2, <2>2
    <3>4. history # << >>
      BY <2>1, <2>2
    <3> QED BY <3>1, <3>2, <3>3, <3>4 DEF EndsWithReply, LastOf
  <2> QED BY <2>1, <2>2
<1>6. SubSeq(offered, k + 1, k + 1) = << turn >>
  <2> DEFINE rest == SubSeq(offered, k + 1, k + 1)
  <2>1. rest \in Seq(M) /\ Len(rest) = 1 /\ rest[1] = turn
    BY <1>2
  <2>2. \A i \in 1..Len(rest) : rest[i] = << turn >>[i]
    BY <2>1
  <2>3. << turn >> \in Seq(M) /\ Len(<< turn >>) = 1
    OBVIOUS
  <2> HIDE DEF rest
  <2>4. rest = << turn >>
    BY <2>1, <2>2, <2>3, SeqEqual
  <2> QED BY <2>4 DEF rest
<1>7. DropOverlap(history, offered) = << turn >>
  BY <1>2, <1>5, <1>6 DEF DropOverlap
<1> QED BY <1>7 DEF offered

(* The cap drops only the oldest history, never a new message, and no more *)
(* of the history than it has to.                                          *)
THEOREM CapIsTight ==
  ASSUME NEW M, NEW history \in Seq(M), NEW offered \in Seq(M), NEW maxHistory \in Nat
  PROVE  ContextFits(history, offered, maxHistory)
<1> DEFINE added == DropOverlap(history, offered)
           kept  == CapHistory(history, added, maxHistory)
           over  == Len(history) + Len(added) - maxHistory
<1>1. added \in Seq(M) /\ Len(added) \in Nat
  BY DropOverlapIsTail
<1>2. \A d \in 0..Len(history) : Len(SubSeq(history, d + 1, Len(history))) = Len(history) - d
  OBVIOUS
<1> HIDE DEF added
<1>3. \E d \in 0..Len(history) :
         /\ kept = SubSeq(history, d + 1, Len(history))
         /\ (d = 0 /\ over <= 0) \/ (d = Len(history) /\ over > d) \/ (d = over /\ over > 0)
  <2>1. CASE over <= 0
    <3>1. kept = SubSeq(history, 0 + 1, Len(history))
      BY <1>1, <2>1, SubSeqFull DEF CapHistory
    <3> QED BY <2>1, <3>1
  <2>2. CASE over > Len(history)
    <3>1. kept = SubSeq(history, Len(history) + 1, Len(history))
      BY <1>1, <2>2 DEF CapHistory
    <3> QED BY <2>2, <3>1
  <2>3. CASE over > 0 /\ over <= Len(history)
    <3>1. kept = SubSeq(history, over + 1, Len(history))
      <4>1. ~(over <= 0) /\ ~(over > Len(history))
        BY <1>1, <2>3
      <4> HIDE DEF over
      <4> QED BY <4>1 DEF CapHistory, over
    <3>2. over \in 0..Len(history) /\ over > 0
      BY <1>1, <2>3
    <3> HIDE DEF kept, over
    <3> QED BY <3>1, <3>2
  <2> QED BY <1>1, <2>1, <2>2, <2>3
<1> HIDE DEF kept
<1>4. PICK d \in 0..Len(history) :
         /\ kept = SubSeq(history, d + 1, Len(history))
         /\ (d = 0 /\ over <= 0) \/ (d = Len(history) /\ over > d) \/ (d = over /\ over > 0)
  BY <1>3
<1>5. Len(kept) = Len(history) - d
  BY <1>2, <1>4
<1>6. kept = LastMessages(history, Len(kept))
  <2>1. Len(history) - Len(kept) + 1 = d + 1
    BY <1>5
  <2> QED BY <1>4, <2>1 DEF LastMessages
<1>7. Len(kept) + Len(added) <= maxHistory \/ Len(kept) = 0
  BY <1>1, <1>4, <1>5
<1>8. Len(kept) = 0 => kept = << >>
  BY <1>4, <1>5, SubSeqEmpty
<1>9. Len(kept) < Len(history) => Len(kept) + Len(added) >= maxHistory
  BY <1>1, <1>4, <1>5
<1> QED BY <1>6, <1>7, <1>8, <1>9 DEF ContextFits, added, kept

(* The upstream context is a sequence of messages and ends with the new    *)
(* user message.                                                           *)
LEMMA ContextEndsWithUserTurn ==
  ASSUME NEW M, NEW history \in Seq(M), EndsWithReply(history),
         NEW offered \in Seq(M), offered # << >>, NEW maxHistory \in Nat
  PROVE  /\ AssembleContext(<< >>, history, offered, maxHistory) \in Seq(M)
         /\ LastOf(offered).role = "user" =>
              LastOf(AssembleContext(<< >>, history, offered, maxHistory)) = LastOf(offered)
<1> DEFINE added == DropOverlap(history, offered)
           kept  == CapHistory(history, added, maxHistory)
<1>1. added \in Seq(M)
  BY DropOverlapIsTail
<1>2. LastOf(offered).role = "user" => added # << >> /\ LastOf(added) = LastOf(offered)
  BY UserTurnKept DEF KeepsUserTurn
<1> HIDE DEF added
<1>3. kept \in Seq(M)
  <2>1. \A i \in Int : i >= 1 => SubSeq(history, i, Len(history)) \in Seq(M)
    OBVIOUS
  <2>2. CASE Len(history) + Len(added) - maxHistory <= 0
    BY <2>2 DEF CapHistory
  <2>3. CASE ~(Len(history) + Len(added) - maxHistory <= 0)
    <3>1. Len(history) + Len(added) - maxHistory + 1 >= 1 /\ Len(history) + 1 >= 1
      BY <1>1, <2>3
    <3> QED BY <1>1, <2>1, <2>3, <3>1 DEF CapHistory
  <2> QED BY <2>2, <2>3
<1> HIDE DEF kept
<1>4. AssembleContext(<< >>, history, offered, maxHistory) = kept \o added
  <2>1. AssembleContext(<< >>, history, offered, maxHistory) = << >> \o kept \o added
    BY DEF AssembleContext, added, kept
  <2> QED BY <1>1, <1>3, <2>1, ConcatEmptySeq
<1>5. added # << >> => LastOf(kept \o added) = LastOf(added)
  BY <1>1, <1>3 DEF LastOf
<1> QED BY <1>1, <1>2, <1>3, <1>4, <1>5, ConcatProperties

(* An exchange ends with the reply, and the new user message is right      *)
(* before it.                                                              *)
LEMMA ExchangeEndsWithReply ==
  ASSUME NEW M, NEW history \in Seq(M), EndsWithReply(history),
         NEW offered \in Seq(M), offered # << >>, NEW reply \in M
  PROVE  /\ Exchange(history, offered, reply) \in Seq(M)
         /\ Exchange(history, offered, reply) # << >>
         /\ LastOf(Exchange(history, offered, reply)) = reply
         /\ LastOf(offered).role = "user" =>
              /\ Len(Exchange(history, offered, reply)) > 1
              /\ Exchange(history, offered, reply)[Len(Exchange(history, offered, reply)) - 1] = LastOf(offered)
<1> DEFINE added == DropOverlap(history, offered)
<1>1. added \in Seq(M)
  BY DropOverlapIsTail
<1>2. LastOf(offered).role = "user" => added # << >> /\ LastOf(added) = LastOf(offered)
  BY UserTurnKept DEF KeepsUserTurn
<1>3. Exchange(history, offered, reply) = Append(added, reply)
  BY DEF Exchange
<1> HIDE DEF added
<1>4. Append(added, reply) \in Seq(M) /\ Append(added, reply) # << >> /\ LastOf(Append(added, reply)) = reply
  BY <1>1 DEF LastOf
<1>5. added # << >> => Len(Append(added, reply)) > 1 /\ Append(added, reply)[Len(Append(added, reply)) - 1] = LastOf(added)
  BY <1>1, EmptySeq DEF LastOf
<1> QED BY <1>2, <1>3, <1>4, <1>5

-----------------------------------------------------------------------------
(* ORDER BY created_at, id on a finite set of rows. *)

LEMMA BeforeIsStrictOrder ==
  ASSUME NEW r \in Row, NEW s \in Row, NEW u \in Row
  PROVE  /\ ~Before(r, r)
         /\ Before(r, s) => ~Before(s, r)
         /\ (Before(r, s) /\ Before(s, u)) => Before(r, u)
<1>1. r.ts \in Nat /\ s.ts \in Nat /\ u.ts \in Nat
  BY DEF Row
<1>2. r.id \in Nat /\ s.id \in Nat /\ u.id \in Nat
  BY ConvAssumption DEF Row
<1> QED BY <1>1, <1>2 DEF Before

(* A non-empty finite set of rows has a latest row. *)
LEMMA LatestRow ==
  ASSUME NEW R \in SUBSET Row, IsFiniteSet(R), R # {}
  PROVE  \E r \in R : \A s \in R : ~Before(r, s)
<1> DEFINE Later(r) == {s \in R : Before(r, s)}
           U == {Later(r) : r \in R}
<1>1. IsWellFoundedOn(StrictSubsetOrdering(R), FiniteSubsetsOf(R))
  BY FS_StrictSubsetOrderingWellFounded
<1>2. U \subseteq FiniteSubsetsOf(R) /\ U # {}
  <2>1. ASSUME NEW r \in R PROVE Later(r) \in FiniteSubsetsOf(R)
    <3>1. Later(r) \subseteq R
      OBVIOUS
    <3> QED BY <3>1, FS_Subset DEF FiniteSubsetsOf
  <2> QED BY <2>1
<1>3. PICK u \in U : \A v \in U : ~ (<<v, u>> \in StrictSubsetOrdering(R))
  BY <1>1, <1>2, WFMin
<1>4. PICK r \in R : u = Later(r)
  BY <1>3
<1>5. ASSUME NEW s \in R, Before(r, s) PROVE FALSE
  <2>1. Later(s) \subseteq Later(r)
    <3> SUFFICES ASSUME NEW x \in R, Before(s, x) PROVE Before(r, x)
      OBVIOUS
    <3> QED BY <1>5, BeforeIsStrictOrder
  <2>2. s \in Later(r) /\ s \notin Later(s)
    BY <1>5, BeforeIsStrictOrder
  <2>3. <<Later(s), u>> \in StrictSubsetOrdering(R)
    BY <2>1, <2>2, <1>4 DEF StrictSubsetOrdering
  <2>4. Later(s) \in U
    OBVIOUS
  <2> QED BY <2>3, <2>4, <1>3
<1> QED BY <1>5

(* In a totally ordered finite set of n rows, for every i < n there is a   *)
(* row with exactly i rows before it.                                      *)
LEMMA RankExists ==
  ASSUME NEW R \in SUBSET Row, IsFiniteSet(R),
         \A r, s \in R : r # s => Before(r, s) \/ Before(s, r)
  PROVE  \A i \in 0..(Cardinality(R) - 1) : \E r \in R : Cardinality(Earlier(r, R)) = i
<1> DEFINE n == Cardinality(R)
           Ranked(i) == \E r \in R : Cardinality(Earlier(r, R)) = i
           T == {i \in 0..(n - 1) : ~Ranked(i)}
<1> SUFFICES ASSUME T # {} PROVE FALSE
  OBVIOUS
<1>1. n \in Nat /\ n > 0
  BY FS_CardinalityType
<1>2. PICK i \in T : \A j \in T : j <= i
  <2>1. n - 1 \in Nat
    BY <1>1
  <2>2. T \subseteq 0..(n - 1)
    OBVIOUS
  <2> QED BY <2>1, <2>2, BoundedMaximum
<1>3. CASE i = n - 1
  <2>1. R # {}
    BY <1>1, FS_EmptySet
  <2>2. PICK r \in R : \A s \in R : ~Before(r, s)
    BY <2>1, LatestRow
  <2>3. Earlier(r, R) = R \ {r}
    BY <2>2, BeforeIsStrictOrder DEF Earlier
  <2>4. Cardinality(R \ {r}) = n - 1
    BY FS_RemoveElement
  <2> QED BY <1>3, <2>3, <2>4
<1>4. CASE i # n - 1
  <2>1. i + 1 \in 0..(n - 1) /\ i + 1 \notin T
    BY <1>1, <1>2, <1>4
  <2>2. PICK r \in R : Cardinality(Earlier(r, R)) = i + 1
    BY <2>1
  <2> DEFINE P == Earlier(r, R)
  <2>3. P \in SUBSET R /\ P \in SUBSET Row /\ IsFiniteSet(P)
    BY FS_Subset DEF Earlier
  <2>4. i \in Nat /\ Cardinality(P) = i + 1
    BY <2>1, <2>2, <1>1
  <2> HIDE DEF P
  <2>a. P # {}
    BY <2>4, FS_EmptySet
  <2>5. PICK p \in P : \A s \in P : ~Before(p, s)
    BY <2>3, <2>a, LatestRow
  <2>6. Earlier(p, R) = P \ {p}
    <3>1. ASSUME NEW s \in R, Before(s, p) PROVE s \in P \ {p}
      <4>1. Before(p, r) /\ p \in R
        BY DEF Earlier, P
      <4> QED BY <3>1, <4>1, BeforeIsStrictOrder DEF Earlier, P
    <3>2. ASSUME NEW s \in P \ {p} PROVE s \in R /\ Before(s, p)
      BY <2>3, <2>5
    <3> QED BY <3>1, <3>2 DEF Earlier
  <2>7. Cardinality(P \ {p}) = i
    <3>1. Cardinality(P \ {p}) = Cardinality(P) - 1
      BY <2>3, FS_RemoveElement
    <3> QED BY <2>4, <3>1
  <2>8. p \in R
    BY <2>3
  <2> QED BY <2>6, <2>7, <2>8
<1> QED BY <1>3, <1>4

-----------------------------------------------------------------------------
(* What LoadHistory returns. *)

LEMMA RowsOfFinite ==
  ASSUME NEW c, TypeOK, IsFiniteSet(rows)
  PROVE  /\ RowsOf(c) \in SUBSET Row /\ IsFiniteSet(RowsOf(c))
         /\ Cardinality(RowsOf(c)) \in Nat
<1>1. RowsOf(c) \in SUBSET rows
  BY DEF RowsOf
<1>2. IsFiniteSet(RowsOf(c))
  BY <1>1, FS_Subset
<1> QED BY <1>1, <1>2, FS_CardinalityType DEF TypeOK

(* LoadHistory is a sequence of messages with one entry per row of the     *)
(* conversation, the i-th being the row with i-1 rows before it.           *)
LEMMA LoadHistoryIsSeq ==
  ASSUME NEW c, TypeOK, IsFiniteSet(rows), RowsOrdered
  PROVE  /\ LoadHistory(c) \in Seq(Message)
         /\ Len(LoadHistory(c)) = Cardinality(RowsOf(c))
         /\ \A i \in 1..Cardinality(RowsOf(c)) : \E r \in RowsOf(c) :
              LoadHistory(c)[i] = r.msg /\ Cardinality(Earlier(r, RowsOf(c))) = i - 1
<1> DEFINE R == RowsOf(c)
           n == Cardinality(R)
           nth(i) == CHOOSE r \in R : Cardinality(Earlier(r, R)) = i - 1
<1>1. R \in SUBSET Row /\ IsFiniteSet(R) /\ n \in Nat
  BY RowsOfFinite
<1>2. \A r, s \in R : r # s => Before(r, s) \/ Before(s, r)
  BY DEF RowsOf, RowsOrdered
<1>3. \A i \in 0..(n - 1) : \E r \in R : Cardinality(Earlier(r, R)) = i
  BY <1>1, <1>2, RankExists
<1>4. ASSUME NEW i \in 1..n
      PROVE  nth(i) \in R /\ Cardinality(Earlier(nth(i), R)) = i - 1
  <2>1. i - 1 \in 0..(n - 1)
    BY <1>1
  <2>2. \E r \in R : Cardinality(Earlier(r, R)) = i - 1
    BY <1>3, <2>1
  <2> QED BY <2>2
<1>5. LoadHistory(c) = [i \in 1..n |-> nth(i).msg]
  BY DEF LoadHistory
<1> HIDE DEF nth, n, R
<1>6. \A i \in 1..n : nth(i).msg \in Message
  BY <1>1, <1>4 DEF Row
<1>7. LoadHistory(c) \in Seq(Message) /\ Len(LoadHistory(c)) = n
  BY <1>1, <1>5, <1>6
<1>8. \A i \in 1..n : LoadHistory(c)[i] = nth(i).msg
  BY <1>5
<1> QED BY <1>4, <1>7, <1>8 DEF R, n

(* The row read last is the last of its exchange: a model's reply. *)
LEMMA HistoryEnds ==
  ASSUME NEW c, StoreInv
  PROVE  EndsWithReply(LoadHistory(c))
<1> DEFINE R == RowsOf(c)
           n == Cardinality(R)
<1> USE DEF StoreInv
<1> SUFFICES ASSUME LoadHistory(c) # << >>
             PROVE  LastOf(LoadHistory(c)).role = "assistant"
  BY DEF EndsWithReply
<1>1. LoadHistory(c) \in Seq(Message) /\ Len(LoadHistory(c)) = n
  BY LoadHistoryIsSeq
<1>2. R \in SUBSET Row /\ IsFiniteSet(R) /\ n \in Nat
  BY RowsOfFinite
<1>3. n > 0
  BY <1>1, <1>2, EmptySeq
<1>4. PICK r \in R : LoadHistory(c)[n] = r.msg /\ Cardinality(Earlier(r, R)) = n - 1
  BY <1>2, <1>3, LoadHistoryIsSeq
<1>5. Earlier(r, R) = R \ {r}
  <2>1. Cardinality(R \ {r}) = n - 1 /\ IsFiniteSet(R \ {r})
    BY <1>2, FS_RemoveElement
  <2>2. Earlier(r, R) \in SUBSET (R \ {r})
    BY <1>2, BeforeIsStrictOrder DEF Earlier
  <2> QED BY <1>4, <2>1, <2>2, FS_Subset
<1>6. r \in rows /\ r \in Row /\ r.turn \in Turn
  BY DEF RowsOf, TypeOK, Row
<1>7. r.pos \in 1..Len(batch[r.turn]) /\ r.msg = batch[r.turn][r.pos] /\ Saved(r.turn)
  BY <1>6 DEF RowsMatchBatch
<1>8. batch[r.turn] \in Seq(Message) /\ Len(batch[r.turn]) \in Nat /\ base[r.turn] \in Nat
  BY <1>6 DEF TypeOK
<1>9. ASSUME r.pos # Len(batch[r.turn]) PROVE FALSE
  <2>1. r.pos + 1 \in 1..Len(batch[r.turn])
    BY <1>7, <1>8, <1>9
  <2>2. PICK s \in rows : s.turn = r.turn /\ s.pos = r.pos + 1
    BY <1>6, <1>7, <2>1 DEF SavedIsWhole
  <2>3. s \in R
    BY <2>2 DEF RowsOf
  <2>4. s.ts = base[r.turn] + r.pos /\ r.ts = base[r.turn] + (r.pos - 1)
    <3>1. s.ts = base[s.turn] + (s.pos - 1) /\ r.ts = base[r.turn] + (r.pos - 1)
      BY <1>6 DEF RowsMatchBatch
    <3> QED BY <1>7, <1>8, <2>2, <3>1
  <2>5. s.ts > r.ts
    BY <1>7, <1>8, <2>4
  <2>6. s # r /\ Before(s, r)
    BY <1>5, <2>3, <2>5, <1>7, <1>8, <2>4 DEF Earlier
  <2> QED BY <2>5, <2>6, <1>7, <1>8, <2>4 DEF Before
<1>10. batch[r.turn] # << >>
  BY <1>7, <1>8
<1>11. LastOf(batch[r.turn]).role = "assistant"
  BY <1>6, <1>10 DEF BatchEndsWithReply, EndsWithReply
<1> QED BY <1>1, <1>4, <1>7, <1>9, <1>11 DEF LastOf

(* Lemma ExchangeEndsWithReply for the messages of this module. *)
LEMMA ExchangeFacts ==
  ASSUME NEW h \in Seq(Message), EndsWithReply(h), NEW in \in Seq(Message), in # << >>, NEW a \in Message
  PROVE  /\ Exchange(h, in, a) \in Seq(Message) /\ Exchange(h, in, a) # << >>
         /\ LastOf(Exchange(h, in, a)) = a
         /\ LastOf(in).role = "user" =>
              /\ Len(Exchange(h, in, a)) > 1
              /\ Exchange(h, in, a)[Len(Exchange(h, in, a)) - 1] = LastOf(in)
BY ExchangeEndsWithReply

-----------------------------------------------------------------------------
(* The store invariant holds of every behaviour. *)

StorePart ==
  /\ IsFiniteSet(rows)
  /\ RowsMatchBatch
  /\ SavedIsWhole
  /\ RowsOrdered

LEMMA StoreInvInit == Init => StoreInv
<1> SUFFICES ASSUME Init PROVE StoreInv
  OBVIOUS
<1> USE ConvAssumption DEF Init
<1>1. TypeOK
  BY EmptySeq DEF TypeOK
<1>2. IsFiniteSet(rows)
  BY FS_EmptySet
<1>3. RowsMatchBatch /\ RowsOrdered
  BY DEF RowsMatchBatch, RowsOrdered
<1>4. SavedIsWhole
  BY DEF SavedIsWhole, Saved
<1>5. BatchEndsWithReply /\ InputPresent
  BY DEF BatchEndsWithReply, EndsWithReply, InputPresent
<1> QED BY <1>1, <1>2, <1>3, <1>4, <1>5 DEF StoreInv

(* A step that commits nothing keeps the saved exchanges as they are. *)
LEMMA StoreFrame ==
  ASSUME StoreInv, rows' = rows, commitNo' = commitNo,
         \A t \in Turn : Saved(t) => /\ base'[t] = base[t] /\ batch'[t] = batch[t]
                                     /\ pc'[t] \in {"done", "failed"}
  PROVE  StorePart'
<1> USE DEF StoreInv
<1>1. \A r \in rows : r.turn \in Turn /\ Saved(r.turn)
  BY DEF TypeOK, Row, RowsMatchBatch
<1>2. RowsMatchBatch'
  BY <1>1 DEF RowsMatchBatch, Saved
<1>3. SavedIsWhole'
  BY DEF SavedIsWhole, Saved
<1>4. RowsOrdered'
  BY DEF RowsOrdered, Before
<1> QED BY <1>2, <1>3, <1>4 DEF StorePart

(* A commit adds one whole exchange. *)
LEMMA StoreApply ==
  ASSUME StoreInv, NEW t \in Turn, pc[t] \in {"bumped", "limbo"}, Apply(t),
         NEW dest \in {"done", "failed"}, pc' = [pc EXCEPT ![t] = dest],
         batch' = batch, base' = base
  PROVE  StorePart' /\ rows' \subseteq Row /\ commitNo' \in [Turn -> Nat]
<1> USE DEF StoreInv
<1> DEFINE n == Len(batch[t])
<1>1. PICK ids \in [1..n -> Id] :
         /\ \A i \in 1..n, r \in RowsOf(ConvOf[t]) : r.ts = base[t] + (i - 1) => r.id # ids[i]
         /\ rows' = rows \cup {NewRow(t, i, ids[i]) : i \in 1..n}
  BY DEF Apply
<1> DEFINE new(i) == NewRow(t, i, ids[i])
           N == {new(i) : i \in 1..n}
<1>2. batch[t] \in Seq(Message) /\ n \in Nat /\ base[t] \in Nat
  BY DEF TypeOK
<1>3. \A i \in 1..n : /\ new(i) \in Row
                      /\ new(i).turn = t /\ new(i).pos = i /\ new(i).ts = base[t] + (i - 1)
                      /\ new(i).id = ids[i] /\ new(i).msg = batch[t][i]
  BY <1>2 DEF NewRow, Row
<1> HIDE DEF new
<1>4. rows' = rows \cup N /\ rows' \subseteq Row
  <2>1. rows' = rows \cup N
    BY <1>1 DEF new
  <2> QED BY <2>1, <1>3 DEF TypeOK
<1>5. IsFiniteSet(rows')
  <2>1. IsFiniteSet(1..n)
    <3>1. 1 \in Int /\ n \in Int
      BY <1>2
    <3> HIDE DEF n
    <3> QED BY <3>1, FS_Interval
  <2> DEFINE f == [i \in 1..n |-> new(i)]
  <2>2. f \in Surjection(1..n, N)
    BY DEF Surjection
  <2>3. IsFiniteSet(N)
    BY <2>1, <2>2, FS_Surjection
  <2> QED BY <1>4, <2>3, FS_Union
<1>6. /\ commitNo' \in [Turn -> Nat]
      /\ commitNo'[t] > 0
      /\ \A u \in Turn : u # t => commitNo'[u] = commitNo[u]
  <2> DEFINE S == {u \in Turn : commitNo[u] > 0}
  <2>1. commitNo' = [commitNo EXCEPT ![t] = 1 + Cardinality(S)]
    BY DEF Apply
  <2>2. S \in SUBSET Turn
    OBVIOUS
  <2>3. Cardinality(S) \in Nat
    BY <2>2, ConvAssumption, FS_Subset, FS_CardinalityType
  <2> HIDE DEF S
  <2> QED BY <2>1, <2>3 DEF TypeOK
<1>7. \A r \in rows : r.turn \in Turn /\ r.turn # t
  <2>1. ~Saved(t)
    BY DEF SavedIsWhole
  <2> QED BY <2>1 DEF TypeOK, Row, RowsMatchBatch
<1>8. RowsMatchBatch'
  <2> SUFFICES ASSUME NEW r \in rows'
               PROVE  /\ Saved(r.turn)' /\ r.pos \in 1..Len(batch[r.turn])
                      /\ r.ts = base[r.turn] + (r.pos - 1) /\ r.msg = batch[r.turn][r.pos]
    BY DEF RowsMatchBatch
  <2>1. CASE r \in rows
    BY <2>1, <1>6, <1>7 DEF RowsMatchBatch, Saved
  <2>2. CASE r \in N
    <3>1. PICK i \in 1..n : r = new(i)
      BY <2>2
    <3> QED BY <3>1, <1>3, <1>6 DEF Saved
  <2> QED BY <2>1, <2>2, <1>4
<1>9. SavedIsWhole'
  <2> SUFFICES ASSUME NEW u \in Turn, Saved(u)'
               PROVE  /\ pc'[u] \in {"done", "failed"}
                      /\ batch[u] # << >>
                      /\ \A i \in 1..Len(batch[u]) : \E r \in rows' : r.turn = u /\ r.pos = i
    BY DEF SavedIsWhole
  <2>1. CASE u = t
    <3>1. pc'[t] = dest
      BY DEF TypeOK
    <3>2. ASSUME NEW i \in 1..n PROVE \E r \in rows' : r.turn = t /\ r.pos = i
      <4>1. new(i) \in rows'
        BY <1>4
      <4> QED BY <4>1, <1>3
    <3> QED BY <2>1, <3>1, <3>2 DEF BatchEndsWithReply
  <2>2. CASE u # t
    <3>1. Saved(u)
      BY <2>2, <1>6 DEF Saved
    <3>2. pc'[u] = pc[u]
      BY <2>2 DEF TypeOK
    <3> QED BY <3>1, <3>2, <1>4 DEF SavedIsWhole
  <2> QED BY <2>1, <2>2
<1>10. RowsOrdered'
  <2> SUFFICES ASSUME NEW r \in rows', NEW s \in rows', ConvOf[r.turn] = ConvOf[s.turn], r # s
               PROVE  Before(r, s) \/ Before(s, r)
    BY DEF RowsOrdered, Before
  <2>0. r \in Row /\ s \in Row /\ r.ts \in Nat /\ s.ts \in Nat /\ r.id \in Nat /\ s.id \in Nat
    BY <1>4, ConvAssumption DEF Row
  <2>1. CASE r \in rows /\ s \in rows
    BY <2>1 DEF RowsOrdered
  <2>2. CASE r \in N /\ s \in N
    <3>1. PICK i \in 1..n : r = new(i)
      BY <2>2
    <3>2. PICK j \in 1..n : s = new(j)
      BY <2>2
    <3>3. i # j
      BY <3>1, <3>2
    <3> QED BY <3>1, <3>2, <3>3, <1>2, <1>3 DEF Before
  <2>3. ASSUME NEW x \in rows, NEW i \in 1..n, ConvOf[x.turn] = ConvOf[t], x \in Row
        PROVE  x.ts # new(i).ts \/ x.id # new(i).id
    BY <2>3, <1>1, <1>3 DEF RowsOf
  <2>4. CASE r \in rows /\ s \in N
    <3>1. PICK i \in 1..n : s = new(i)
      BY <2>4
    <3>2. r.ts # s.ts \/ r.id # s.id
      BY <2>0, <2>3, <2>4, <3>1, <1>3
    <3> QED BY <3>2, <2>0 DEF Before
  <2>5. CASE s \in rows /\ r \in N
    <3>1. PICK i \in 1..n : r = new(i)
      BY <2>5
    <3>2. r.ts # s.ts \/ r.id # s.id
      BY <2>0, <2>3, <2>5, <3>1, <1>3
    <3> QED BY <3>2, <2>0 DEF Before
  <2> QED BY <1>4, <2>1, <2>2, <2>4, <2>5
<1> QED BY <1>4, <1>5, <1>6, <1>8, <1>9, <1>10 DEF StorePart

(* The turn's state outside the store: every action writes well-typed data *)
(* and an exchange ends with its reply.                                    *)
LEMMA StoreInvNext == StoreInv /\ [Next]_vars => StoreInv'
<1> SUFFICES ASSUME StoreInv, [Next]_vars PROVE StoreInv'
  OBVIOUS
<1> USE DEF StoreInv
<1>0. \A t \in Turn : Saved(t) => pc[t] \in {"done", "failed"}
  BY DEF SavedIsWhole
<1>a. \A t \in Turn : ConvOf[t] \in Conv
  BY ConvAssumption
<1>1. CASE UNCHANGED vars
  <2>1. StorePart'
    BY <1>1, <1>0, StoreFrame DEF vars
  <2>2. TypeOK' /\ BatchEndsWithReply' /\ InputPresent'
    BY <1>1 DEF vars, TypeOK, BatchEndsWithReply, InputPresent
  <2> QED BY <2>1, <2>2 DEF StorePart
<1>2. CASE Tick
  <2>1. StorePart'
    BY <1>2, <1>0, StoreFrame DEF Tick
  <2>2. TypeOK' /\ BatchEndsWithReply' /\ InputPresent'
    BY <1>2 DEF Tick, TypeOK, BatchEndsWithReply, InputPresent
  <2> QED BY <2>1, <2>2 DEF StorePart
<1>3. ASSUME NEW t \in Turn, Assemble(t) PROVE StoreInv'
  <2> DEFINE history == LoadHistory(ConvOf[t])
  <2>1. PICK in \in Input :
          /\ incoming' = [incoming EXCEPT ![t] = in]
          /\ fresh' = [fresh EXCEPT ![t] = DropOverlap(history, in)]
          /\ sent' = [sent EXCEPT ![t] = AssembleContext(<< >>, history, in, MaxHistory)]
    BY <1>3 DEF Assemble
  <2>2. history \in Seq(Message) /\ EndsWithReply(history) /\ in \in Seq(Message) /\ in # << >> /\ MaxHistory \in Nat
    BY LoadHistoryIsSeq, HistoryEnds, ConvAssumption
  <2> HIDE DEF history
  <2>3. DropOverlap(history, in) \in Seq(Message) /\ AssembleContext(<< >>, history, in, MaxHistory) \in Seq(Message)
    BY <2>2, DropOverlapIsTail, ContextEndsWithUserTurn
  <2>4. StorePart'
    BY <1>3, <1>0, StoreFrame DEF Assemble, Goto, TypeOK
  <2>5. TypeOK'
    BY <1>3, <2>1, <2>2, <2>3 DEF Assemble, Goto, TypeOK
  <2>6. BatchEndsWithReply' /\ InputPresent'
    BY <1>3, <2>1, <2>2 DEF Assemble, Goto, TypeOK, BatchEndsWithReply, InputPresent
  <2> QED BY <2>4, <2>5, <2>6 DEF StorePart
<1>4. ASSUME NEW t \in Turn, Abandon(t) PROVE StoreInv'
  <2>1. StorePart'
    BY <1>4, <1>0, StoreFrame DEF Abandon, Goto, TypeOK
  <2>2. TypeOK' /\ BatchEndsWithReply' /\ InputPresent'
    BY <1>4 DEF Abandon, Goto, TypeOK, BatchEndsWithReply, InputPresent
  <2> QED BY <2>1, <2>2 DEF StorePart
<1>5. ASSUME NEW t \in Turn, PersistLoad(t) PROVE StoreInv'
  <2> DEFINE history == LoadHistory(ConvOf[t])
  <2>1. PICK reply \in Content :
          batch' = [batch EXCEPT ![t] = Exchange(history, incoming[t], Assistant(reply))]
    BY <1>5 DEF PersistLoad
  <2>2. history \in Seq(Message) /\ EndsWithReply(history) /\ incoming[t] \in Seq(Message) /\ incoming[t] # << >>
    BY <1>5, LoadHistoryIsSeq, HistoryEnds DEF TypeOK, InputPresent, PersistLoad, Goto
  <2>3. Assistant(reply) \in Message /\ Assistant(reply).role = "assistant"
    BY DEF Assistant, Message
  <2> HIDE DEF history
  <2> DEFINE e == Exchange(history, incoming[t], Assistant(reply))
  <2>4. e \in Seq(Message) /\ e # << >> /\ EndsWithReply(e)
    <3>1. e \in Seq(Message) /\ e # << >> /\ LastOf(e) = Assistant(reply)
      BY <2>2, <2>3, ExchangeFacts
    <3> QED BY <2>3, <3>1 DEF EndsWithReply
  <2> HIDE DEF e
  <2>5. batch' = [batch EXCEPT ![t] = e]
    BY <2>1 DEF e
  <2>6. StorePart'
    BY <1>5, <1>0, <2>5, StoreFrame DEF PersistLoad, Goto, TypeOK
  <2>7. TypeOK'
    BY <1>5, <2>4, <2>5 DEF PersistLoad, Goto, TypeOK
  <2>8. BatchEndsWithReply' /\ InputPresent'
    BY <1>5, <2>4, <2>5 DEF PersistLoad, Goto, TypeOK, BatchEndsWithReply, InputPresent
  <2> QED BY <2>6, <2>7, <2>8 DEF StorePart
<1>6. ASSUME NEW t \in Turn, BeginTx(t) PROVE StoreInv'
  <2>1. StorePart'
    BY <1>6, <1>0, StoreFrame DEF BeginTx, Goto, TypeOK
  <2>2. TypeOK' /\ BatchEndsWithReply' /\ InputPresent'
    BY <1>6 DEF BeginTx, Goto, TypeOK, BatchEndsWithReply, InputPresent
  <2> QED BY <2>1, <2>2 DEF StorePart
<1>7. ASSUME NEW t \in Turn, Bump(t) PROVE StoreInv'
  <2>1. StorePart'
    BY <1>7, <1>0, StoreFrame DEF Bump, Goto, TypeOK
  <2>2. TypeOK' /\ BatchEndsWithReply' /\ InputPresent'
    BY <1>7, <1>a DEF Bump, Goto, TypeOK, BatchEndsWithReply, InputPresent
  <2> QED BY <2>1, <2>2 DEF StorePart
<1>8. ASSUME NEW t \in Turn, Commit(t) PROVE StoreInv'
  <2>1. StorePart' /\ rows' \subseteq Row /\ commitNo' \in [Turn -> Nat]
    BY <1>8, StoreApply DEF Commit, Goto
  <2>2. TypeOK' /\ BatchEndsWithReply' /\ InputPresent'
    BY <1>8, <1>a, <2>1 DEF Commit, Goto, Release, TypeOK, BatchEndsWithReply, InputPresent
  <2> QED BY <2>1, <2>2 DEF StorePart
<1>9. ASSUME NEW t \in Turn, Fail(t) PROVE StoreInv'
  <2>1. StorePart'
    BY <1>9, <1>0, StoreFrame DEF Fail, TypeOK
  <2>2. TypeOK' /\ BatchEndsWithReply' /\ InputPresent'
    BY <1>9, <1>a DEF Fail, Release, TypeOK, BatchEndsWithReply, InputPresent
  <2> QED BY <2>1, <2>2 DEF StorePart
<1>10. ASSUME NEW t \in Turn, LoseAck(t) PROVE StoreInv'
  <2>1. StorePart'
    BY <1>10, <1>0, StoreFrame DEF LoseAck, Goto, TypeOK
  <2>2. TypeOK' /\ BatchEndsWithReply' /\ InputPresent'
    BY <1>10 DEF LoseAck, Goto, TypeOK, BatchEndsWithReply, InputPresent
  <2> QED BY <2>1, <2>2 DEF StorePart
<1>11. ASSUME NEW t \in Turn, LimboCommits(t) PROVE StoreInv'
  <2>1. StorePart' /\ rows' \subseteq Row /\ commitNo' \in [Turn -> Nat]
    BY <1>11, StoreApply DEF LimboCommits, Goto
  <2>2. TypeOK' /\ BatchEndsWithReply' /\ InputPresent'
    BY <1>11, <1>a, <2>1 DEF LimboCommits, Goto, Release, TypeOK, BatchEndsWithReply, InputPresent
  <2> QED BY <2>1, <2>2 DEF StorePart
<1>12. ASSUME NEW t \in Turn, LimboAborts(t) PROVE StoreInv'
  <2>1. StorePart'
    BY <1>12, <1>0, StoreFrame DEF LimboAborts, Goto, TypeOK
  <2>2. TypeOK' /\ BatchEndsWithReply' /\ InputPresent'
    BY <1>12, <1>a DEF LimboAborts, Goto, Release, TypeOK, BatchEndsWithReply, InputPresent
  <2> QED BY <2>1, <2>2 DEF StorePart
<1> QED BY <1>1, <1>2, <1>3, <1>4, <1>5, <1>6, <1>7, <1>8, <1>9, <1>10, <1>11, <1>12
        DEF Next, Step, Finished

(* However turns interleave, fail or lose their answers, the rows of every *)
(* conversation are whole exchanges in a total order.                      *)
THEOREM StoreCorrect == Spec => []StoreInv
BY StoreInvInit, StoreInvNext, PTL DEF Spec

(* Type correctness. *)
THEOREM TypeCorrect == Spec => []TypeOK
<1>1. StoreInv => TypeOK
  BY DEF StoreInv
<1> QED BY StoreCorrect, <1>1, PTL

(* AppendMessages is atomic: every turn has all the rows of its exchange,  *)
(* stamped in their order, or none.                                        *)
THEOREM ExchangesIntact == Spec => []ExchangeIntact
<1>1. ASSUME StoreInv PROVE ExchangeIntact
  <2> USE <1>1 DEF StoreInv
  <2> SUFFICES ASSUME NEW t \in Turn
               PROVE  /\ {r.pos : r \in RowsOfTurn(t)} = IF Saved(t) THEN 1..Len(batch[t]) ELSE {}
                      /\ \A r \in RowsOfTurn(t) : r.ts = base[t] + (r.pos - 1) /\ r.msg = batch[t][r.pos]
    BY DEF ExchangeIntact
  <2>1. \A r \in RowsOfTurn(t) : /\ Saved(t) /\ r.pos \in 1..Len(batch[t])
                                 /\ r.ts = base[t] + (r.pos - 1) /\ r.msg = batch[t][r.pos]
    BY DEF RowsOfTurn, RowsMatchBatch
  <2>2. Saved(t) => \A i \in 1..Len(batch[t]) : \E r \in RowsOfTurn(t) : r.pos = i
    BY DEF RowsOfTurn, SavedIsWhole
  <2> QED BY <2>1, <2>2
<1> QED BY StoreCorrect, <1>1, PTL

(* Whatever is interleaved, a history that LoadHistory returns ends with a *)
(* model's reply.                                                          *)
THEOREM HistoriesEndWithReply == Spec => []HistoryEndsWithReply
<1>1. StoreInv => HistoryEndsWithReply
  BY HistoryEnds DEF HistoryEndsWithReply
<1> QED BY StoreCorrect, <1>1, PTL

(* On every history a session can come to hold, whatever of it the caller  *)
(* sends again before its own messages, the overlap the other theorems     *)
(* reason about is the one the loop of dropOverlap finds.                  *)
THEOREM OverlapsAreTheLoops == Spec => []OverlapIsTheLoop
<1>1. StoreInv => OverlapIsTheLoop
  <2> SUFFICES ASSUME StoreInv, NEW c \in Conv,
                      NEW echo \in Resent(LoadHistory(c)) \cup {<< >>},
                      NEW in \in Input \cup {<< >>}
               PROVE  DropOverlap(LoadHistory(c), echo \o in) = OverlapLoop(LoadHistory(c), echo \o in)
    BY DEF OverlapIsTheLoop
  <2> DEFINE h == LoadHistory(c)
  <2>1. h \in Seq(Message)
    BY LoadHistoryIsSeq DEF StoreInv
  <2> HIDE DEF h
  <2>2. \A k \in 1..Len(h) : SubSeq(h, k, Len(h)) \in Seq(Message)
    BY <2>1
  <2>3. echo \in Seq(Message)
    <3>1. << >> \in Seq(Message)
      OBVIOUS
    <3>2. echo \in {SubSeq(h, k, Len(h)) : k \in 1..Len(h)} \/ echo = << >>
      BY DEF Resent, h
    <3> QED BY <2>2, <3>1, <3>2
  <2>4. in \in Seq(Message)
    <3>1. << >> \in Seq(Message) /\ Input \subseteq Seq(Message)
      BY ConvAssumption
    <3> QED BY <3>1
  <2>5. echo \o in \in Seq(Message)
    BY <2>3, <2>4
  <2> QED BY <2>1, <2>5, LoopFindsLongestOverlap DEF h
<1> QED BY StoreCorrect, <1>1, PTL

(* The user's message is the last one the model sees and is stored right   *)
(* before the reply, whatever other turns do between the two loads.        *)
UserTurnInv == StoreInv /\ ContextEndsWithTurn /\ UserTurnStored

LEMMA UserTurnNext == UserTurnInv /\ [Next]_vars => (ContextEndsWithTurn /\ UserTurnStored)'
<1> SUFFICES ASSUME UserTurnInv, [Next]_vars PROVE (ContextEndsWithTurn /\ UserTurnStored)'
  OBVIOUS
<1> USE DEF UserTurnInv, StoreInv
<1>1. CASE UNCHANGED << incoming, sent, batch >> /\ \A t \in Turn : pc[t] = "idle" => pc'[t] = "idle"
  BY <1>1 DEF ContextEndsWithTurn, UserTurnStored
<1>2. ASSUME NEW t \in Turn, Assemble(t) PROVE (ContextEndsWithTurn /\ UserTurnStored)'
  <2> DEFINE history == LoadHistory(ConvOf[t])
  <2>1. PICK in \in Input :
          /\ incoming' = [incoming EXCEPT ![t] = in]
          /\ sent' = [sent EXCEPT ![t] = AssembleContext(<< >>, history, in, MaxHistory)]
    BY <1>2 DEF Assemble
  <2>2. history \in Seq(Message) /\ EndsWithReply(history) /\ in \in Seq(Message) /\ in # << >> /\ MaxHistory \in Nat
    BY LoadHistoryIsSeq, HistoryEnds, ConvAssumption
  <2> HIDE DEF history
  <2>3. LastOf(in).role = "user" => LastOf(AssembleContext(<< >>, history, in, MaxHistory)) = LastOf(in)
    BY <2>2, ContextEndsWithUserTurn
  <2>4. pc[t] = "idle" /\ batch' = batch /\ batch[t] = << >> /\ \A u \in Turn : u # t => pc'[u] = pc[u]
    BY <1>2 DEF Assemble, Goto, BatchEndsWithReply, TypeOK
  <2>5. incoming'[t] = in /\ sent'[t] = AssembleContext(<< >>, history, in, MaxHistory)
    BY <2>1 DEF TypeOK
  <2>6. \A u \in Turn : u # t => incoming'[u] = incoming[u] /\ sent'[u] = sent[u]
    BY <2>1 DEF TypeOK
  <2>7. ContextEndsWithTurn'
    BY <2>3, <2>4, <2>5, <2>6 DEF ContextEndsWithTurn
  <2>8. UserTurnStored'
    BY <2>4, <2>6 DEF UserTurnStored
  <2> QED BY <2>7, <2>8
<1>3. ASSUME NEW t \in Turn, PersistLoad(t) PROVE (ContextEndsWithTurn /\ UserTurnStored)'
  <2> DEFINE history == LoadHistory(ConvOf[t])
  <2>1. PICK reply \in Content :
          batch' = [batch EXCEPT ![t] = Exchange(history, incoming[t], Assistant(reply))]
    BY <1>3 DEF PersistLoad
  <2>2. history \in Seq(Message) /\ EndsWithReply(history) /\ incoming[t] \in Seq(Message) /\ incoming[t] # << >>
    BY <1>3, LoadHistoryIsSeq, HistoryEnds DEF TypeOK, InputPresent, PersistLoad, Goto
  <2>3. Assistant(reply) \in Message
    BY DEF Assistant, Message
  <2> HIDE DEF history
  <2> DEFINE e == Exchange(history, incoming[t], Assistant(reply))
  <2>4. LastOf(incoming[t]).role = "user" => Len(e) > 1 /\ e[Len(e) - 1] = LastOf(incoming[t])
    <3> DEFINE in == incoming[t]
               a == Assistant(reply)
    <3>1. in \in Seq(Message) /\ in # << >> /\ a \in Message
      BY <2>2, <2>3
    <3> HIDE DEF in, a
    <3>2. LastOf(in).role = "user" => /\ Len(Exchange(history, in, a)) > 1
                                     /\ Exchange(history, in, a)[Len(Exchange(history, in, a)) - 1] = LastOf(in)
      BY <2>2, <3>1, ExchangeFacts
    <3> QED BY <3>2 DEF in, a
  <2> HIDE DEF e
  <2>5. batch'[t] = e /\ \A u \in Turn : u # t => batch'[u] = batch[u]
    BY <2>1 DEF e, TypeOK
  <2>6. UNCHANGED << incoming, sent >> /\ pc[t] = "calling" /\ \A u \in Turn : u # t => pc'[u] = pc[u]
    BY <1>3 DEF PersistLoad, Goto, TypeOK
  <2>7. LastOf(incoming[t]).role = "user" => LastOf(sent[t]) = LastOf(incoming[t])
    BY <2>6 DEF ContextEndsWithTurn
  <2>8. ContextEndsWithTurn'
    BY <2>6, <2>7 DEF ContextEndsWithTurn
  <2>9. UserTurnStored'
    BY <2>4, <2>5, <2>6, <2>7 DEF UserTurnStored
  <2> QED BY <2>8, <2>9
<1>4. ASSUME NEW t \in Turn, Step(t), ~Assemble(t), ~PersistLoad(t)
      PROVE  UNCHANGED << incoming, sent, batch >> /\ \A u \in Turn : pc[u] = "idle" => pc'[u] = "idle"
  BY <1>4 DEF Step, Abandon, BeginTx, Bump, Commit, Fail, LoseAck, LimboCommits, LimboAborts, Goto, TypeOK
<1>5. CASE Tick \/ UNCHANGED vars
  BY <1>1, <1>5 DEF Tick, vars
<1> QED BY <1>1, <1>2, <1>3, <1>4, <1>5 DEF Next, Finished

THEOREM UserTurnsStored == Spec => []UserTurnStored
<1>1. Init => ContextEndsWithTurn /\ UserTurnStored
  BY DEF Init, ContextEndsWithTurn, UserTurnStored
<1>2. Init => UserTurnInv
  BY <1>1, StoreInvInit DEF UserTurnInv
<1>3. UserTurnInv /\ [Next]_vars => UserTurnInv'
  BY StoreInvNext, UserTurnNext DEF UserTurnInv
<1>4. UserTurnInv => UserTurnStored
  BY DEF UserTurnInv
<1> QED BY <1>2, <1>3, <1>4, PTL DEF Spec

-----------------------------------------------------------------------------
(* Whatever turns overlap: what a turn sends and stores is its own, and    *)
(* the row lock is held by a transaction that is under way.                *)

(* The new messages end both what the caller sent and what the model is    *)
(* sent, which exceeds the cap only if they do.                            *)
LEMMA AddedEndsContext ==
  ASSUME NEW M, NEW history \in Seq(M), NEW offered \in Seq(M), NEW maxHistory \in Nat
  PROVE  LET added == DropOverlap(history, offered)
             context == AssembleContext(<< >>, history, offered, maxHistory)
         IN  /\ added \in Tails(offered)
             /\ added \in Tails(context)
             /\ Len(context) <= maxHistory \/ context = added
<1> DEFINE added == DropOverlap(history, offered)
           kept  == CapHistory(history, added, maxHistory)
<1>1. added \in Seq(M) /\ added \in Tails(offered)
  <2>1. LongestOverlap(history, offered) \in 0..Len(offered)
    BY LongestOverlapIsMaximal
  <2> QED BY <2>1, DropOverlapIsTail DEF Tails, DropOverlap
<1>2. /\ kept = LastMessages(history, Len(kept))
      /\ (Len(kept) + Len(added) <= maxHistory) \/ kept = << >>
  BY CapIsTight DEF ContextFits
<1>3. AssembleContext(<< >>, history, offered, maxHistory) = << >> \o kept \o added
  BY DEF AssembleContext
<1> HIDE DEF added
<1>4. kept \in Seq(M)
  <2>1. \A i \in Int : i >= 1 => SubSeq(history, i, Len(history)) \in Seq(M)
    OBVIOUS
  <2>2. CASE Len(history) + Len(added) - maxHistory <= 0
    BY <2>2 DEF CapHistory
  <2>3. CASE ~(Len(history) + Len(added) - maxHistory <= 0)
    <3>1. Len(history) + Len(added) - maxHistory + 1 >= 1 /\ Len(history) + 1 >= 1
      BY <1>1, <2>3
    <3> QED BY <1>1, <2>1, <2>3, <3>1 DEF CapHistory
  <2> QED BY <2>2, <2>3
<1> HIDE DEF kept
<1> DEFINE context == kept \o added
<1>5. /\ context \in Seq(M) /\ Len(context) = Len(kept) + Len(added)
      /\ \A i \in 1..Len(added) : context[Len(kept) + i] = added[i]
  BY <1>1, <1>4
<1>6. AssembleContext(<< >>, history, offered, maxHistory) = context
  BY <1>1, <1>3, <1>4, ConcatEmptySeq
<1>7. kept = << >> => context = added
  BY <1>1, ConcatEmptySeq
<1>8. added \in Tails(context)
  <2> HIDE DEF context
  <2>1. Len(kept) \in 0..Len(context) /\ Len(added) \in Nat
    BY <1>1, <1>4, <1>5
  <2> DEFINE k == Len(kept)
             rest == SubSeq(context, k + 1, Len(context))
  <2>2. k \in 0..Len(context)
    BY <2>1
  <2> HIDE DEF k
  <2>3. rest \in Seq(M) /\ Len(rest) = Len(context) - k /\ \A i \in 1..Len(rest) : rest[i] = context[k + i]
    BY <1>5, <2>2
  <2>4. Len(rest) = Len(added) /\ \A i \in 1..Len(added) : rest[i] = added[i]
    BY <1>5, <2>1, <2>3 DEF k
  <2> HIDE DEF rest
  <2>5. rest = added
    BY <1>1, <2>3, <2>4
  <2> QED BY <2>2, <2>5 DEF Tails, rest
<1> HIDE DEF context
<1> QED BY <1>1, <1>2, <1>5, <1>6, <1>7, <1>8 DEF added

OwnTurn == StoredIsOwn /\ ContextIsCapped

(* Only the two loads touch them. *)
LEMMA OwnTurnNext == StoreInv /\ OwnTurn /\ [Next]_vars => OwnTurn'
<1> SUFFICES ASSUME StoreInv, OwnTurn, [Next]_vars PROVE OwnTurn'
  OBVIOUS
<1> USE DEF StoreInv, OwnTurn
<1>1. CASE UNCHANGED << incoming, fresh, sent, batch >>
  BY <1>1 DEF StoredIsOwn, ContextIsCapped, Tails
<1>2. ASSUME NEW t \in Turn, Assemble(t) PROVE OwnTurn'
  <2> DEFINE history == LoadHistory(ConvOf[t])
  <2>1. PICK in \in Input :
          /\ incoming' = [incoming EXCEPT ![t] = in]
          /\ fresh' = [fresh EXCEPT ![t] = DropOverlap(history, in)]
          /\ sent' = [sent EXCEPT ![t] = AssembleContext(<< >>, history, in, MaxHistory)]
    BY <1>2 DEF Assemble
  <2>2. history \in Seq(Message) /\ in \in Seq(Message) /\ MaxHistory \in Nat
    BY LoadHistoryIsSeq, ConvAssumption
  <2> HIDE DEF history
  <2> DEFINE added == DropOverlap(history, in)
             context == AssembleContext(<< >>, history, in, MaxHistory)
  <2>3. /\ added \in Tails(in) /\ added \in Tails(context)
        /\ Len(context) <= MaxHistory \/ context = added
    BY <2>2, AddedEndsContext
  <2> HIDE DEF added, context
  <2>4. batch' = batch /\ batch[t] = << >>
    BY <1>2 DEF Assemble, Goto, BatchEndsWithReply
  <2>5. incoming'[t] = in /\ fresh'[t] = added /\ sent'[t] = context
    BY <2>1 DEF TypeOK, added, context
  <2>6. \A u \in Turn : u # t => incoming'[u] = incoming[u] /\ fresh'[u] = fresh[u] /\ sent'[u] = sent[u]
    BY <2>1 DEF TypeOK
  <2>7. StoredIsOwn'
    BY <2>4, <2>6 DEF StoredIsOwn
  <2>8. ContextIsCapped'
    <3>1. ASSUME NEW u \in Turn
          PROVE  /\ fresh'[u] \in Tails(incoming'[u]) /\ fresh'[u] \in Tails(sent'[u])
                 /\ Len(sent'[u]) <= MaxHistory \/ sent'[u] = fresh'[u]
      <4>1. CASE u = t
        BY <2>3, <2>5, <4>1
      <4>2. CASE u # t
        BY <2>6, <4>2 DEF ContextIsCapped
      <4> QED BY <4>1, <4>2
    <3> QED BY <3>1 DEF ContextIsCapped, Tails
  <2> QED BY <2>7, <2>8
<1>3. ASSUME NEW t \in Turn, PersistLoad(t) PROVE OwnTurn'
  <2> DEFINE history == LoadHistory(ConvOf[t])
  <2>1. PICK reply \in Content :
          batch' = [batch EXCEPT ![t] = Exchange(history, incoming[t], Assistant(reply))]
    BY <1>3 DEF PersistLoad
  <2>2. history \in Seq(Message) /\ incoming[t] \in Seq(Message) /\ MaxHistory \in Nat
    BY LoadHistoryIsSeq, ConvAssumption DEF TypeOK
  <2> HIDE DEF history
  <2> DEFINE added == DropOverlap(history, incoming[t])
             answer == Assistant(reply)
  <2>3. added \in Tails(incoming[t]) /\ added \in Seq(Message)
    BY <2>2, AddedEndsContext, DropOverlapIsTail
  <2>4. answer \in Message
    BY DEF Assistant, Message
  <2>5. batch'[t] = Append(added, answer) /\ \A u \in Turn : u # t => batch'[u] = batch[u]
    BY <2>1 DEF Exchange, TypeOK
  <2> HIDE DEF added, answer
  <2>6. LastOf(Append(added, answer)) = answer
    BY <2>3, <2>4 DEF LastOf
  <2>7. UNCHANGED << incoming, fresh, sent >>
    BY <1>3 DEF PersistLoad
  <2>8. ASSUME NEW u \in Turn, batch'[u] # << >>
        PROVE  \E own \in Tails(incoming[u]) : batch'[u] = Append(own, LastOf(batch'[u]))
    <3>1. CASE u = t
      BY <2>3, <2>5, <2>6, <3>1
    <3>2. CASE u # t
      BY <2>5, <2>8, <3>2 DEF StoredIsOwn
    <3> QED BY <3>1, <3>2
  <2>9. StoredIsOwn'
    BY <2>7, <2>8 DEF StoredIsOwn, Tails
  <2>10. ContextIsCapped'
    BY <2>7 DEF ContextIsCapped, Tails
  <2> QED BY <2>9, <2>10
<1>4. ASSUME NEW t \in Turn, Step(t), ~Assemble(t), ~PersistLoad(t)
      PROVE  UNCHANGED << incoming, fresh, sent, batch >>
  BY <1>4 DEF Step, Abandon, BeginTx, Bump, Commit, Fail, LoseAck, LimboCommits, LimboAborts
<1>5. CASE Tick \/ UNCHANGED vars
  BY <1>1, <1>5 DEF Tick, vars
<1> QED BY <1>1, <1>2, <1>3, <1>4, <1>5 DEF Next, Finished

LEMMA OwnTurnHolds == Spec => []OwnTurn
<1>1. Init => OwnTurn
  <2> SUFFICES ASSUME Init PROVE OwnTurn
    OBVIOUS
  <2>1. << >> \in Tails(<< >>)
    BY DEF Tails
  <2>2. MaxHistory \in Nat
    BY ConvAssumption
  <2> QED BY <2>1, <2>2 DEF Init, OwnTurn, StoredIsOwn, ContextIsCapped
<1>2. StoreInv /\ OwnTurn /\ [Next]_vars => StoreInv' /\ OwnTurn'
  BY StoreInvNext, OwnTurnNext
<1> QED BY <1>1, <1>2, StoreInvInit, PTL DEF Spec

(* PersistExchange: even when turns overlap, and what is stored is not     *)
(* what was sent, an exchange is the latest of the caller's own messages   *)
(* and the reply.                                                          *)
THEOREM TurnsStoreTheirOwn == Spec => []StoredIsOwn
<1>1. OwnTurn => StoredIsOwn
  BY DEF OwnTurn
<1> QED BY <1>1, OwnTurnHolds, PTL

(* AssembleContext: whatever history the overlapping turns have made, the  *)
(* model is sent at most maxHistory messages, or the new messages alone.   *)
THEOREM ContextsAreCapped == Spec => []ContextIsCapped
<1>1. OwnTurn => ContextIsCapped
  BY DEF OwnTurn
<1> QED BY <1>1, OwnTurnHolds, PTL

LockInv == LockHeld /\ LockHasHolder

(* The lock changes hands only through a free one. *)
LEMMA LockNext == TypeOK /\ LockInv /\ [Next]_vars => LockInv'
<1> SUFFICES ASSUME TypeOK, LockInv, [Next]_vars PROVE LockInv'
  OBVIOUS
<1> USE NoTurnAssumption DEF TypeOK, LockInv
<1>a. \A t \in Turn : ConvOf[t] \in Conv
  BY ConvAssumption
<1>1. ASSUME NEW t \in Turn, NEW to \in {"calling", "failed", "loaded", "inserting"},
             pc[t] \in {"idle", "calling", "loaded"}, pc' = [pc EXCEPT ![t] = to], UNCHANGED lock
      PROVE  LockInv'
  BY <1>1 DEF LockHeld, LockHasHolder
<1>2. ASSUME NEW t \in Turn, Bump(t) PROVE LockInv'
  <2>0. /\ pc[t] = "inserting" /\ \A u \in Turn : pc'[u] = IF u = t THEN "bumped" ELSE pc[u]
        /\ lock[ConvOf[t]] = NoTurn
        /\ \A c \in Conv : lock'[c] = IF c = ConvOf[t] THEN t ELSE lock[c]
    BY <1>2, <1>a DEF Bump, Goto
  <2> DEFINE c == ConvOf[t]
  <2>1. c \in Conv /\ t # NoTurn /\ \A u \in Turn : ConvOf[u] = c => pc[u] \notin {"bumped", "limbo"}
    BY <1>a, <2>0 DEF LockHeld
  <2>2. ASSUME NEW u \in Turn PROVE pc'[u] \in {"bumped", "limbo"} <=> lock'[ConvOf[u]] = u
    BY <1>a, <2>0, <2>1, <2>2 DEF LockHeld
  <2>3. ASSUME NEW d \in Conv, lock'[d] # NoTurn
        PROVE  pc'[lock'[d]] \in {"bumped", "limbo"} /\ ConvOf[lock'[d]] = d
    <3>1. CASE d = c
      BY <2>0, <2>1, <3>1
    <3>2. CASE d # c
      BY <2>0, <2>1, <2>3, <3>2 DEF LockHasHolder
    <3> QED BY <3>1, <3>2
  <2>4. LockHeld' /\ LockHasHolder'
    BY <2>2, <2>3 DEF LockHeld, LockHasHolder
  <2> QED BY <2>4
<1>3. ASSUME NEW t \in Turn, NEW to \in {"done", "failed"},
             pc[t] \in {"loaded", "inserting", "bumped", "limbo"}, pc' = [pc EXCEPT ![t] = to], Release(t)
      PROVE  LockInv'
  <2>0. /\ \A u \in Turn : pc'[u] = IF u = t THEN to ELSE pc[u]
        /\ \A c \in Conv : lock'[c] = IF c = ConvOf[t] /\ lock[c] = t THEN NoTurn ELSE lock[c]
    BY <1>3, <1>a DEF Release
  <2>1. LockHeld'
    BY <1>3, <1>a, <2>0 DEF LockHeld
  <2>2. LockHasHolder'
    BY <1>3, <1>a, <2>0 DEF LockHasHolder
  <2> QED BY <2>1, <2>2
<1>4. ASSUME NEW t \in Turn, LoseAck(t) PROVE LockInv'
  <2>0. pc[t] = "bumped" /\ (\A u \in Turn : pc'[u] = IF u = t THEN "limbo" ELSE pc[u]) /\ lock' = lock
    BY <1>4 DEF LoseAck, Goto
  <2> QED BY <2>0 DEF LockHeld, LockHasHolder
<1>5. CASE Tick \/ UNCHANGED vars
  BY <1>5 DEF Tick, vars, LockHeld, LockHasHolder
<1>6. ASSUME NEW t \in Turn, Assemble(t) \/ Abandon(t) \/ PersistLoad(t) \/ BeginTx(t) PROVE LockInv'
  BY <1>1, <1>6 DEF Assemble, Abandon, PersistLoad, BeginTx, Goto
<1>7. ASSUME NEW t \in Turn, Commit(t) \/ Fail(t) \/ LimboCommits(t) \/ LimboAborts(t) PROVE LockInv'
  BY <1>3, <1>7 DEF Commit, Fail, LimboCommits, LimboAborts, Goto
<1> QED BY <1>2, <1>4, <1>5, <1>6, <1>7 DEF Next, Step, Finished

(* UPDATE conversations: however turns interleave, fail and lose their     *)
(* answers, the row of a conversation is locked exactly while one of its   *)
(* transactions is between the UPDATE and its end: two never are, and no   *)
(* turn that ended leaves a lock behind.                                   *)
THEOREM RowLocksAreHeld == Spec => [](LockHeld /\ LockHasHolder)
<1>1. Init => LockInv
  BY NoTurnAssumption, ConvAssumption DEF Init, LockInv, LockHeld, LockHasHolder
<1>2. StoreInv /\ LockInv /\ [Next]_vars => StoreInv' /\ LockInv'
  BY StoreInvNext, LockNext DEF StoreInv
<1>3. LockInv => LockHeld /\ LockHasHolder
  BY DEF LockInv
<1> QED BY <1>1, <1>2, <1>3, StoreInvInit, PTL DEF Spec

(* Every row is stamped before now, as its INSERT has returned.            *)
Past == RowsInPast /\ StampsInPast

(* A commit makes visible what was stamped when its rows were inserted.    *)
LEMMA PastApply ==
  ASSUME StoreInv, Past, NEW t \in Turn, pc[t] \in {"bumped", "limbo"}, Apply(t),
         NEW dest \in {"done", "failed"}, pc' = [pc EXCEPT ![t] = dest],
         batch' = batch, base' = base, clock' = clock
  PROVE  Past'
<1> USE DEF StoreInv, Past
<1> DEFINE n == Len(batch[t])
<1>1. n \in Nat /\ base[t] \in Nat /\ clock \in Nat /\ base[t] + n <= clock
  BY DEF TypeOK, StampsInPast
<1>2. \A r \in rows' : r \in rows \/ r.ts \in base[t]..(base[t] + n - 1)
  <2>1. PICK ids \in [1..n -> Id] : rows' = rows \cup {NewRow(t, i, ids[i]) : i \in 1..n}
    BY DEF Apply
  <2>2. \A i \in 1..n : NewRow(t, i, ids[i]).ts \in base[t]..(base[t] + n - 1)
    BY <1>1 DEF NewRow
  <2> QED BY <2>1, <2>2
<1>3. RowsInPast'
  BY <1>1, <1>2 DEF RowsInPast
<1>4. StampsInPast'
  BY DEF StampsInPast, TypeOK
<1> QED BY <1>3, <1>4

(* An append takes the row's lock when the clock is past its rows, and its *)
(* batch and its base do not change from there.                            *)
LEMMA PastNext == StoreInv /\ Past /\ [Next]_vars => Past'
<1> SUFFICES ASSUME StoreInv, Past, [Next]_vars PROVE Past'
  OBVIOUS
<1> USE DEF Past
<1>a. TypeOK
  BY DEF StoreInv
<1>b. clock \in Nat /\ (\A r \in rows : r.ts \in Nat) /\ \A t \in Turn : base[t] \in Nat /\ Len(batch[t]) \in Nat
  BY <1>a DEF TypeOK, Row
<1>1. ASSUME UNCHANGED << rows, clock >>,
             \A t \in Turn : pc'[t] \in {"bumped", "limbo"} =>
               /\ pc[t] \in {"bumped", "limbo"} \/ base[t] + Len(batch[t]) <= clock
               /\ base'[t] = base[t] /\ batch'[t] = batch[t]
      PROVE  Past'
  BY <1>1 DEF RowsInPast, StampsInPast
<1>2. CASE Tick
  BY <1>2, <1>b DEF Tick, RowsInPast, StampsInPast
<1>3. ASSUME NEW t \in Turn, Assemble(t) \/ Abandon(t) \/ PersistLoad(t) \/ BeginTx(t) PROVE Past'
  <2>1. UNCHANGED << rows, clock >> /\ pc'[t] \notin {"bumped", "limbo"}
    BY <1>3, <1>a DEF Assemble, Abandon, PersistLoad, BeginTx, Goto, TypeOK
  <2>2. \A u \in Turn : u # t => pc'[u] = pc[u] /\ base'[u] = base[u] /\ batch'[u] = batch[u]
    BY <1>3, <1>a DEF Assemble, Abandon, PersistLoad, BeginTx, Goto, TypeOK
  <2> QED BY <1>1, <2>1, <2>2
<1>4. ASSUME NEW t \in Turn, Bump(t) PROVE Past'
  <2>1. UNCHANGED << rows, clock, base, batch >> /\ clock >= base[t] + Len(batch[t])
    BY <1>4 DEF Bump
  <2>2. \A u \in Turn : u # t => pc'[u] = pc[u]
    BY <1>4, <1>a DEF Bump, Goto, TypeOK
  <2>3. base[t] + Len(batch[t]) <= clock
    BY <1>b, <2>1
  <2> QED BY <1>1, <2>1, <2>2, <2>3
<1>5. ASSUME NEW t \in Turn, LoseAck(t) \/ Fail(t) \/ LimboAborts(t) PROVE Past'
  <2>1. UNCHANGED << rows, clock, base, batch >>
    BY <1>5 DEF LoseAck, Fail, LimboAborts
  <2>2. \A u \in Turn : pc'[u] \in {"bumped", "limbo"} => pc[u] \in {"bumped", "limbo"}
    BY <1>5, <1>a DEF LoseAck, Fail, LimboAborts, Goto, TypeOK
  <2> QED BY <1>1, <2>1, <2>2
<1>6. ASSUME NEW t \in Turn, Commit(t) \/ LimboCommits(t) PROVE Past'
  BY <1>6, PastApply DEF Commit, LimboCommits, Goto
<1>7. CASE UNCHANGED vars
  BY <1>1, <1>7 DEF vars
<1> QED BY <1>2, <1>3, <1>4, <1>5, <1>6, <1>7 DEF Next, Step, Finished

(* LoadHistory, oldest first, under any interleaving and any failures: an  *)
(* exchange that was committed before an append began is read before it.   *)
THEOREM LaterAppendsFollow == Spec => AppendsFollow
<1>1. Init => Past
  BY DEF Init, Past, RowsInPast, StampsInPast
<1>2. StoreInv /\ Past /\ [Next]_vars => StoreInv' /\ Past'
  BY StoreInvNext, PastNext
<1>3. StoreInv /\ Past => \A t \in Turn : BeginTx(t) => \A r \in RowsOf(ConvOf[t]) : r.ts < base'[t]
  BY DEF StoreInv, Past, TypeOK, BeginTx, RowsInPast, RowsOf
<1> QED BY <1>1, <1>2, <1>3, StoreInvInit, PTL DEF Spec, AppendsFollow

-----------------------------------------------------------------------------
(* One turn at a time: the history is read in commit order. *)

LEMMA SerialInit == Init => SerialInv
<1> SUFFICES ASSUME Init PROVE SerialInv
  OBVIOUS
<1>1. LockHeld /\ OneActive /\ RowsInPast /\ StampsInPast /\ StampsFollowRows /\ StampsFollowLimbo /\ CommitStamps
  BY ConvAssumption, NoTurnAssumption
     DEF Init, LockHeld, OneActive, Active, RowsInPast, StampsInPast, StampsFollowRows, StampsFollowLimbo, CommitStamps
<1>2. CommitNumbers
  <2>1. {u \in Turn : commitNo[u] > 0} = {}
    BY DEF Init
  <2> QED BY <2>1, FS_EmptySet DEF Init, CommitNumbers
<1> QED BY <1>1, <1>2 DEF SerialInv

(* A commit appends: its rows carry later timestamps than every row of the *)
(* conversation, and earlier ones than any transaction yet to commit.      *)
LEMMA SerialApply ==
  ASSUME StoreInv, SerialInv, NEW t \in Turn, pc[t] \in {"bumped", "limbo"}, Apply(t), Release(t),
         NEW dest \in {"done", "failed"}, pc' = [pc EXCEPT ![t] = dest],
         batch' = batch, base' = base, clock' = clock
  PROVE  SerialInv'
<1> USE DEF StoreInv, SerialInv
<1> DEFINE n == Len(batch[t])
<1>1. n \in Nat /\ base[t] \in Nat /\ clock \in Nat /\ base[t] + n <= clock
  BY DEF TypeOK, StampsInPast
<1>2. ~Saved(t) /\ commitNo[t] = 0
  <2>1. ~Saved(t)
    BY DEF SavedIsWhole
  <2>2. commitNo[t] \in Nat
    BY DEF TypeOK
  <2> QED BY <2>1, <2>2 DEF Saved
<1>3. \A r \in rows' : r \in rows \/ (r.turn = t /\ r.ts \in base[t]..(base[t] + n - 1))
  <2>1. PICK ids \in [1..n -> Id] : rows' = rows \cup {NewRow(t, i, ids[i]) : i \in 1..n}
    BY DEF Apply
  <2>2. \A i \in 1..n : /\ NewRow(t, i, ids[i]).turn = t
                        /\ NewRow(t, i, ids[i]).ts \in base[t]..(base[t] + n - 1)
    BY <1>1 DEF NewRow
  <2> QED BY <2>1, <2>2
<1>4. \A r \in rows : r.turn \in Turn /\ r.turn # t /\ r.ts \in Nat
  BY <1>2 DEF RowsMatchBatch, Row, TypeOK
<1>5. \A u \in Turn : pc'[u] = IF u = t THEN dest ELSE pc[u]
  BY DEF TypeOK
<1>6. lock[ConvOf[t]] = t
  BY DEF LockHeld
<1>7. LockHeld'
  <2>1. \A u \in Turn : lock'[ConvOf[u]] = IF ConvOf[u] = ConvOf[t] THEN NoTurn ELSE lock[ConvOf[u]]
    BY <1>6, ConvAssumption DEF Release, TypeOK
  <2> QED BY <1>5, <1>6, <2>1, NoTurnAssumption DEF LockHeld
<1>8. OneActive'
  BY <1>5 DEF OneActive, Active
<1>9. RowsInPast'
  BY <1>1, <1>3, <1>4 DEF RowsInPast
<1>10. StampsInPast' /\ StampsFollowLimbo'
  BY <1>5 DEF StampsInPast, StampsFollowLimbo
<1>11. StampsFollowRows'
  <2> SUFFICES ASSUME NEW u \in Turn, NEW r \in rows', Stamped(u)', ConvOf[r.turn] = ConvOf[u]
               PROVE  r.ts < base[u]
    BY DEF StampsFollowRows
  <2>1. u # t /\ pc[u] = pc'[u] /\ Stamped(u)
    BY <1>5 DEF Stamped
  <2>2. CASE r \in rows
    BY <2>1, <2>2 DEF StampsFollowRows
  <2>3. CASE r.turn = t /\ r.ts \in base[t]..(base[t] + n - 1)
    <3>1. pc[u] = "inserting"
      BY <1>6, <2>1, <2>3 DEF Stamped, LockHeld
    <3>2. pc[t] = "limbo"
      BY <2>1, <2>3, <3>1 DEF OneActive, Active
    <3>3. base[t] + n <= base[u] /\ base[u] \in Nat
      BY <2>3, <3>1, <3>2 DEF StampsFollowLimbo, TypeOK
    <3> QED BY <1>1, <2>3, <3>3
  <2> QED BY <1>3, <2>2, <2>3
<1>12. /\ commitNo'[t] = 1 + Cardinality({u \in Turn : commitNo[u] > 0})
       /\ \A u \in Turn : u # t => commitNo'[u] = commitNo[u]
       /\ Cardinality({u \in Turn : commitNo[u] > 0}) \in Nat
       /\ {u \in Turn : commitNo'[u] > 0} = {u \in Turn : commitNo[u] > 0} \cup {t}
  <2> DEFINE S == {u \in Turn : commitNo[u] > 0}
  <2>1. S \in SUBSET Turn
    OBVIOUS
  <2>2. Cardinality(S) \in Nat
    BY <2>1, ConvAssumption, FS_Subset, FS_CardinalityType
  <2>3. commitNo' = [commitNo EXCEPT ![t] = 1 + Cardinality(S)]
    BY DEF Apply
  <2>4. commitNo'[t] = 1 + Cardinality(S) /\ \A u \in Turn : u # t => commitNo'[u] = commitNo[u]
    BY <2>3 DEF TypeOK
  <2>5. {u \in Turn : commitNo'[u] > 0} = S \cup {t}
    BY <2>2, <2>4
  <2> QED BY <2>2, <2>4, <2>5
<1>13. CommitNumbers'
  <2> DEFINE S == {u \in Turn : commitNo[u] > 0}
             S1 == {u \in Turn : commitNo'[u] > 0}
  <2>1. S \in SUBSET Turn /\ t \notin S
    BY <1>2
  <2>2. IsFiniteSet(S)
    BY <2>1, ConvAssumption, FS_Subset
  <2>3. Cardinality(S1) = Cardinality(S) + 1
    BY <1>12, <2>1, <2>2, FS_AddElement
  <2>4. \A u \in Turn : commitNo[u] <= Cardinality(S) /\ commitNo[u] \in Nat
    BY DEF CommitNumbers, TypeOK
  <2> HIDE DEF S, S1
  <2>5. \A u \in Turn : commitNo'[u] <= Cardinality(S1)
    BY <1>12, <2>3, <2>4 DEF S
  <2> QED BY <2>5 DEF CommitNumbers, S1
<1>14. CommitStamps'
  <2> SUFFICES ASSUME NEW r \in rows', NEW s \in rows', ConvOf[r.turn] = ConvOf[s.turn],
                      commitNo'[r.turn] < commitNo'[s.turn]
               PROVE  r.ts < s.ts
    BY DEF CommitStamps
  <2>1. \A u \in Turn : commitNo[u] \in Nat /\ commitNo[u] < commitNo'[t]
    <3> DEFINE m == Cardinality({u \in Turn : commitNo[u] > 0})
    <3>1. \A u \in Turn : commitNo[u] \in Nat /\ commitNo[u] <= m
      BY DEF CommitNumbers, TypeOK
    <3>2. m \in Nat /\ commitNo'[t] = 1 + m
      BY <1>12
    <3> HIDE DEF m
    <3> QED BY <3>1, <3>2
  <2>2. CASE r \in rows /\ s \in rows
    BY <1>4, <1>12, <2>2 DEF CommitStamps
  <2>3. CASE r \in rows /\ s.turn = t /\ s.ts \in base[t]..(base[t] + n - 1)
    <3>1. r.ts < base[t]
      BY <2>3 DEF StampsFollowRows, Stamped
    <3> QED BY <1>1, <1>4, <2>3, <3>1
  <2>4. CASE r.turn = t /\ s \in rows
    <3>1. s.turn \in Turn /\ s.turn # t
      BY <1>4, <2>4
    <3>2. commitNo'[t] < commitNo[s.turn] /\ commitNo[s.turn] < commitNo'[t]
      BY <1>12, <2>1, <2>4, <3>1
    <3> QED BY <3>1, <3>2, <2>1, <1>12
  <2>5. CASE r.turn = t /\ s.turn = t
    BY <2>5, <1>12
  <2> QED BY <1>3, <2>2, <2>3, <2>4, <2>5
<1> QED BY <1>7, <1>8, <1>9, <1>10, <1>11, <1>13, <1>14

LEMMA SerialNext ==
  ASSUME OneAtATime, StoreInv, SerialInv, [Next]_vars
  PROVE  SerialInv'
<1> USE DEF StoreInv, SerialInv
<1>a. \A t \in Turn : ConvOf[t] \in Conv
  BY ConvAssumption
<1>b. \A t \in Turn : base[t] \in Nat /\ Len(batch[t]) \in Nat
  BY DEF TypeOK
<1>c. clock \in Nat /\ \A r \in rows : r.ts \in Nat
  BY DEF TypeOK, Row
(* Steps that commit nothing: only the turn's own entries change. *)
<1>d. ASSUME rows' = rows, commitNo' = commitNo PROVE CommitNumbers' /\ CommitStamps'
  BY <1>d DEF CommitNumbers, CommitStamps
<1>1. CASE UNCHANGED vars
  BY <1>1, <1>d DEF vars, LockHeld, OneActive, Active, RowsInPast, StampsInPast, StampsFollowRows, StampsFollowLimbo, Stamped
<1>2. CASE Tick
  <2>1. LockHeld' /\ OneActive' /\ StampsFollowRows' /\ StampsFollowLimbo'
    BY <1>2 DEF Tick, LockHeld, OneActive, Active, StampsFollowRows, StampsFollowLimbo, Stamped
  <2>2. RowsInPast' /\ StampsInPast'
    BY <1>2, <1>b, <1>c DEF Tick, RowsInPast, StampsInPast
  <2>3. CommitNumbers' /\ CommitStamps'
    BY <1>2, <1>d DEF Tick
  <2> QED BY <2>1, <2>2, <2>3
<1>3. ASSUME NEW t \in Turn, Assemble(t) PROVE SerialInv'
  <2>0. pc[t] = "idle" /\ \A u \in Turn : pc'[u] = IF u = t THEN "calling" ELSE pc[u]
    BY <1>3 DEF Assemble, Goto, TypeOK
  <2>1. OneActive'
    BY <1>3, <2>0 DEF Assemble, OneActive, Active
  <2>2. LockHeld' /\ RowsInPast' /\ StampsInPast' /\ StampsFollowRows' /\ StampsFollowLimbo'
    BY <1>3, <2>0 DEF Assemble, LockHeld, RowsInPast, StampsInPast, StampsFollowRows, StampsFollowLimbo, Stamped
  <2>3. CommitNumbers' /\ CommitStamps'
    BY <1>3, <1>d DEF Assemble
  <2> QED BY <2>1, <2>2, <2>3
<1>4. ASSUME NEW t \in Turn, Abandon(t) PROVE SerialInv'
  <2>0. pc[t] = "calling" /\ \A u \in Turn : pc'[u] = IF u = t THEN "failed" ELSE pc[u]
    BY <1>4 DEF Abandon, Goto, TypeOK
  <2>1. LockHeld' /\ OneActive' /\ RowsInPast' /\ StampsInPast' /\ StampsFollowRows' /\ StampsFollowLimbo'
    BY <1>4, <2>0 DEF Abandon, LockHeld, OneActive, Active, RowsInPast, StampsInPast, StampsFollowRows, StampsFollowLimbo, Stamped
  <2>2. CommitNumbers' /\ CommitStamps'
    BY <1>4, <1>d DEF Abandon
  <2> QED BY <2>1, <2>2
<1>5. ASSUME NEW t \in Turn, PersistLoad(t) PROVE SerialInv'
  <2>0. /\ pc[t] = "calling" /\ \A u \in Turn : pc'[u] = IF u = t THEN "loaded" ELSE pc[u]
        /\ \A u \in Turn : u # t => batch'[u] = batch[u]
    BY <1>5 DEF PersistLoad, Goto, TypeOK
  <2>1. LockHeld' /\ OneActive' /\ RowsInPast' /\ StampsInPast' /\ StampsFollowRows' /\ StampsFollowLimbo'
    BY <1>5, <2>0 DEF PersistLoad, LockHeld, OneActive, Active, RowsInPast, StampsInPast, StampsFollowRows, StampsFollowLimbo, Stamped
  <2>2. CommitNumbers' /\ CommitStamps'
    BY <1>5, <1>d DEF PersistLoad
  <2> QED BY <2>1, <2>2
<1>6. ASSUME NEW t \in Turn, BeginTx(t) PROVE SerialInv'
  <2>0. /\ pc[t] = "loaded" /\ \A u \in Turn : pc'[u] = IF u = t THEN "inserting" ELSE pc[u]
        /\ \A u \in Turn : base'[u] = IF u = t THEN clock ELSE base[u]
    BY <1>6 DEF BeginTx, Goto, TypeOK
  <2>1. LockHeld' /\ OneActive' /\ RowsInPast' /\ StampsInPast'
    BY <1>6, <2>0 DEF BeginTx, LockHeld, OneActive, Active, RowsInPast, StampsInPast
  <2>2. StampsFollowRows'
    BY <1>6, <2>0, <1>b, <1>c DEF BeginTx, StampsFollowRows, Stamped, RowsInPast
  <2>3. StampsFollowLimbo'
    BY <1>6, <2>0, <1>b, <1>c DEF BeginTx, StampsFollowLimbo, StampsInPast
  <2>4. CommitNumbers' /\ CommitStamps'
    BY <1>6, <1>d DEF BeginTx
  <2> QED BY <2>1, <2>2, <2>3, <2>4
<1>7. ASSUME NEW t \in Turn, Bump(t) PROVE SerialInv'
  <2>0. /\ pc[t] = "inserting" /\ \A u \in Turn : pc'[u] = IF u = t THEN "bumped" ELSE pc[u]
        /\ lock[ConvOf[t]] = NoTurn
        /\ \A u \in Turn : lock'[ConvOf[u]] = IF ConvOf[u] = ConvOf[t] THEN t ELSE lock[ConvOf[u]]
    BY <1>7, <1>a DEF Bump, Goto, TypeOK
  <2>1. LockHeld'
    BY <2>0, NoTurnAssumption DEF LockHeld
  <2>2. OneActive' /\ RowsInPast' /\ StampsInPast' /\ StampsFollowRows' /\ StampsFollowLimbo'
    BY <1>7, <1>b, <1>c, <2>0 DEF Bump, OneActive, Active, RowsInPast, StampsInPast, StampsFollowRows, StampsFollowLimbo, Stamped
  <2>3. CommitNumbers' /\ CommitStamps'
    BY <1>7, <1>d DEF Bump
  <2> QED BY <2>1, <2>2, <2>3
<1>8. ASSUME NEW t \in Turn, Commit(t) PROVE SerialInv'
  BY <1>8, SerialApply DEF Commit, Goto
<1>9. ASSUME NEW t \in Turn, pc[t] \in {"loaded", "inserting", "bumped", "limbo"},
             pc' = [pc EXCEPT ![t] = "failed"], Release(t),
             UNCHANGED << rows, clock, batch, base, commitNo >>
      PROVE  SerialInv'
  <2>0. /\ \A u \in Turn : pc'[u] = IF u = t THEN "failed" ELSE pc[u]
        /\ \A u \in Turn : lock'[ConvOf[u]] =
             IF ConvOf[u] = ConvOf[t] /\ lock[ConvOf[t]] = t THEN NoTurn ELSE lock[ConvOf[u]]
    BY <1>9, <1>a DEF Release, TypeOK
  <2>1. LockHeld'
    BY <1>9, <2>0, NoTurnAssumption DEF LockHeld
  <2>2. OneActive' /\ RowsInPast' /\ StampsInPast' /\ StampsFollowRows' /\ StampsFollowLimbo'
    BY <1>9, <2>0 DEF OneActive, Active, RowsInPast, StampsInPast, StampsFollowRows, StampsFollowLimbo, Stamped
  <2>3. CommitNumbers' /\ CommitStamps'
    BY <1>9, <1>d
  <2> QED BY <2>1, <2>2, <2>3
<1>10. ASSUME NEW t \in Turn, LoseAck(t) PROVE SerialInv'
  <2>0. /\ pc[t] = "bumped" /\ \A u \in Turn : pc'[u] = IF u = t THEN "limbo" ELSE pc[u]
    BY <1>10 DEF LoseAck, Goto, TypeOK
  <2>1. LockHeld' /\ OneActive' /\ RowsInPast' /\ StampsInPast' /\ StampsFollowRows'
    BY <1>10, <2>0 DEF LoseAck, LockHeld, OneActive, Active, RowsInPast, StampsInPast, StampsFollowRows, Stamped
  <2>2. StampsFollowLimbo'
    BY <1>10, <2>0 DEF LoseAck, StampsFollowLimbo, OneActive, Active
  <2>3. CommitNumbers' /\ CommitStamps'
    BY <1>10, <1>d DEF LoseAck
  <2> QED BY <2>1, <2>2, <2>3
<1>11. ASSUME NEW t \in Turn, LimboCommits(t) PROVE SerialInv'
  BY <1>11, SerialApply DEF LimboCommits, Goto
<1>12. ASSUME NEW t \in Turn, Fail(t) \/ LimboAborts(t) PROVE SerialInv'
  BY <1>9, <1>12 DEF Fail, LimboAborts, Goto
<1> QED BY <1>1, <1>2, <1>3, <1>4, <1>5, <1>6, <1>7, <1>8, <1>10, <1>11, <1>12
        DEF Next, Step, Finished

(* A caller that awaits each answer reads its history in commit order,     *)
(* even when commit answers are lost and the commits land later.           *)
THEOREM SerialHistoryInOrder == ASSUME OneAtATime PROVE Spec => []CommitOrder
<1> DEFINE Inv == StoreInv /\ SerialInv
<1>1. Init => Inv
  BY StoreInvInit, SerialInit
<1>2. Inv /\ [Next]_vars => Inv'
  BY StoreInvNext, SerialNext
<1>3. Inv => CommitOrder
  BY DEF SerialInv, CommitStamps, CommitOrder, Before
<1> QED BY <1>1, <1>2, <1>3, PTL DEF Spec

-----------------------------------------------------------------------------
(* One turn at a time and acknowledged commits: what is stored is what was *)
(* sent.                                                                   *)

LEMMA LoadDependsOnOwnRows ==
  ASSUME NEW c, RowsOf(c)' = RowsOf(c)
  PROVE  LoadHistory(c)' = LoadHistory(c)
BY DEF LoadHistory, Earlier, Before

LEMMA LoadStableNext ==
  ASSUME OneAtATime, "lostAck" \notin Faults, StoreInv, SerialInv, LoadStable, [Next]_vars
  PROVE  LoadStable'
<1> USE DEF StoreInv, LoadStable
<1>a. ASSUME NEW t \in Turn, pc[t] = "calling", NEW u \in Turn, Commit(u)
      PROVE  RowsOf(ConvOf[t])' = RowsOf(ConvOf[t])
  <2>1. ConvOf[u] # ConvOf[t]
    BY <1>a DEF SerialInv, OneActive, Active, Commit, Goto
  <2>2. PICK ids : rows' = rows \cup {NewRow(u, i, ids[i]) : i \in 1..Len(batch[u])}
    BY <1>a DEF Commit, Apply
  <2>3. \A r \in rows' : r \in rows \/ r.turn = u
    BY <2>2 DEF NewRow
  <2> QED BY <2>1, <2>2, <2>3 DEF RowsOf
<1>b. ASSUME rows' = rows, NEW c PROVE LoadHistory(c)' = LoadHistory(c)
  BY <1>b, LoadDependsOnOwnRows DEF RowsOf
<1>1. CASE Tick \/ UNCHANGED vars
  BY <1>1, <1>b DEF Tick, vars
<1>2. ASSUME NEW t \in Turn, Assemble(t) PROVE LoadStable'
  <2>0. /\ \A u \in Turn : pc'[u] = IF u = t THEN "calling" ELSE pc[u]
        /\ \A u \in Turn : u # t => incoming'[u] = incoming[u] /\ fresh'[u] = fresh[u]
        /\ fresh'[t] = DropOverlap(LoadHistory(ConvOf[t]), incoming'[t])
        /\ batch' = batch /\ rows' = rows /\ batch[t] = << >>
    BY <1>2 DEF Assemble, Goto, TypeOK, BatchEndsWithReply
  <2>1. \A u \in Turn : LoadHistory(ConvOf[u])' = LoadHistory(ConvOf[u])
    BY <1>b, <2>0
  <2>2. \A u \in Turn : pc'[u] # "limbo"
    BY <2>0
  <2>3. \A u \in Turn : pc'[u] = "calling" => fresh'[u] = DropOverlap(LoadHistory(ConvOf[u]), incoming'[u])
    BY <2>0
  <2>4. \A u \in Turn : batch'[u] # << >> => batch'[u] = Append(fresh'[u], LastOf(batch'[u]))
    BY <2>0
  <2> QED BY <2>1, <2>2, <2>3, <2>4
<1>3. ASSUME NEW t \in Turn, PersistLoad(t) PROVE LoadStable'
  <2>1. PICK reply \in Content :
          batch' = [batch EXCEPT ![t] = Exchange(LoadHistory(ConvOf[t]), incoming[t], Assistant(reply))]
    BY <1>3 DEF PersistLoad
  <2>2. /\ pc[t] = "calling" /\ \A u \in Turn : pc'[u] = IF u = t THEN "loaded" ELSE pc[u]
        /\ incoming' = incoming /\ fresh' = fresh /\ rows' = rows
        /\ \A u \in Turn : u # t => batch'[u] = batch[u]
    BY <1>3 DEF PersistLoad, Goto, TypeOK
  <2>3. batch'[t] = Append(fresh[t], Assistant(reply))
    BY <2>1, <2>2 DEF Exchange, TypeOK
  <2>4. LastOf(Append(fresh[t], Assistant(reply))) = Assistant(reply)
    <3>1. fresh[t] \in Seq(Message)
      BY DEF TypeOK
    <3> QED BY <3>1 DEF LastOf
  <2>5. \A u \in Turn : LoadHistory(ConvOf[u])' = LoadHistory(ConvOf[u])
    BY <1>b, <2>2
  <2>6. \A u \in Turn : batch'[u] # << >> => batch'[u] = Append(fresh'[u], LastOf(batch'[u]))
    BY <2>2, <2>3, <2>4
  <2> QED BY <2>2, <2>5, <2>6
<1>4. ASSUME NEW t \in Turn, Commit(t) PROVE LoadStable'
  <2>1. /\ \A u \in Turn : pc'[u] = IF u = t THEN "done" ELSE pc[u]
        /\ incoming' = incoming /\ fresh' = fresh /\ batch' = batch
    BY <1>4 DEF Commit, Goto, TypeOK
  <2>2. \A u \in Turn : pc[u] = "calling" => LoadHistory(ConvOf[u])' = LoadHistory(ConvOf[u])
    BY <1>4, <1>a, LoadDependsOnOwnRows
  <2>3. \A u \in Turn : pc'[u] = "calling" => pc[u] = "calling"
    BY <2>1
  <2> QED BY <2>1, <2>2, <2>3
<1>5. ASSUME NEW t \in Turn, Abandon(t) \/ BeginTx(t) \/ Bump(t) \/ Fail(t) PROVE LoadStable'
  <2>1. /\ \A u \in Turn : pc'[u] # "limbo" /\ (pc'[u] = "calling" => pc[u] = "calling")
        /\ incoming' = incoming /\ fresh' = fresh /\ batch' = batch /\ rows' = rows
    BY <1>5 DEF Abandon, BeginTx, Bump, Fail, Goto, TypeOK
  <2>2. \A u \in Turn : LoadHistory(ConvOf[u])' = LoadHistory(ConvOf[u])
    BY <1>b, <2>1
  <2> QED BY <2>1, <2>2
<1>6. ASSUME NEW t \in Turn, LoseAck(t) \/ LimboCommits(t) \/ LimboAborts(t) PROVE FALSE
  BY <1>6 DEF LoseAck, LimboCommits, LimboAborts, Goto
<1> QED BY <1>1, <1>2, <1>3, <1>4, <1>5, <1>6 DEF Next, Step, Finished

(* With one turn at a time and acknowledged commits, an exchange stores    *)
(* exactly the messages that went upstream as new.                         *)
THEOREM SerialStoresWhatWasSent ==
  ASSUME OneAtATime, "lostAck" \notin Faults PROVE Spec => []StoredIsSent
<1> DEFINE Inv == StoreInv /\ SerialInv /\ LoadStable
<1>1. Init => LoadStable
  BY DEF Init, LoadStable
<1>2. Init => Inv
  BY <1>1, StoreInvInit, SerialInit
<1>3. Inv /\ [Next]_vars => Inv'
  BY StoreInvNext, SerialNext, LoadStableNext
<1>4. Inv => StoredIsSent
  <2> SUFFICES ASSUME StoreInv, LoadStable, NEW t \in Turn, Saved(t)
               PROVE  batch[t] = Append(fresh[t], LastOf(batch[t]))
    BY DEF StoredIsSent
  <2>1. batch[t] # << >>
    BY DEF StoreInv, SavedIsWhole
  <2> QED BY <2>1 DEF LoadStable
<1> QED BY <1>2, <1>3, <1>4, PTL DEF Spec

-----------------------------------------------------------------------------
(***************************************************************************)
(* The store as a log.  LoadHistory is a function of the session's rows;   *)
(* rows that come after all others are read after them, in their order.    *)
(***************************************************************************)
Ordered(R) == \A r, s \in R : r # s => Before(r, s) \/ Before(s, r)
HistoryOf(R) ==
  [i \in 1..Cardinality(R) |-> (CHOOSE r \in R : Cardinality(Earlier(r, R)) = i - 1).msg]

(* Two rows never have as many rows before them. *)
LEMMA RankIsUnique ==
  ASSUME NEW R \in SUBSET Row, IsFiniteSet(R), Ordered(R), NEW r \in R, NEW s \in R,
         Cardinality(Earlier(r, R)) = Cardinality(Earlier(s, R))
  PROVE  r = s
<1>1. ASSUME NEW x \in R, NEW y \in R, Before(x, y)
      PROVE  Cardinality(Earlier(x, R)) # Cardinality(Earlier(y, R))
  <2>1. Earlier(x, R) \in SUBSET Earlier(y, R)
    BY <1>1, BeforeIsStrictOrder DEF Earlier
  <2>2. x \in Earlier(y, R) /\ x \notin Earlier(x, R)
    BY <1>1, BeforeIsStrictOrder DEF Earlier
  <2>3. Earlier(y, R) \in SUBSET R
    BY DEF Earlier
  <2>4. IsFiniteSet(Earlier(y, R))
    BY <2>3, FS_Subset
  <2> QED BY <2>1, <2>2, <2>4, FS_Subset
<1> QED BY <1>1 DEF Ordered

(* A row is read at the place that its rank gives it. *)
LEMMA RowIsReadAtRank ==
  ASSUME NEW R \in SUBSET Row, IsFiniteSet(R), Ordered(R), NEW r \in R
  PROVE  /\ Cardinality(Earlier(r, R)) \in 0..(Cardinality(R) - 1)
         /\ HistoryOf(R)[Cardinality(Earlier(r, R)) + 1] = r.msg
<1> DEFINE k == Cardinality(Earlier(r, R))
           n == Cardinality(R)
<1>1. Earlier(r, R) \in SUBSET R /\ r \notin Earlier(r, R)
  BY BeforeIsStrictOrder DEF Earlier
<1>2. IsFiniteSet(Earlier(r, R)) /\ k <= n /\ k # n
  BY <1>1, FS_Subset
<1>3. k \in Nat /\ n \in Nat
  BY <1>2, FS_CardinalityType
<1>4. k \in 0..(n - 1) /\ k + 1 \in 1..n
  BY <1>2, <1>3
<1>5. (CHOOSE s \in R : Cardinality(Earlier(s, R)) = k) = r
  BY RankIsUnique
<1>6. HistoryOf(R)[k + 1] = (CHOOSE s \in R : Cardinality(Earlier(s, R)) = (k + 1) - 1).msg
  BY <1>4 DEF HistoryOf
<1>7. (k + 1) - 1 = k
  BY <1>3
<1> QED BY <1>4, <1>5, <1>6, <1>7

(* As many rows as there are numbers. *)
LEMMA FirstRows ==
  ASSUME NEW k \in Nat, NEW row, \A i, j \in 1..k : i # j => row[i] # row[j]
  PROVE  IsFiniteSet({row[i] : i \in 1..k}) /\ Cardinality({row[i] : i \in 1..k}) = k
<1> DEFINE S == 1..k
           T == {row[i] : i \in S}
           f == [i \in S |-> row[i]]
<1>1. IsFiniteSet(S) /\ Cardinality(S) = k
  BY FS_Interval
<1>2. f \in [S -> T] /\ (\A a, b \in S : f[a] = f[b] => a = b) /\ \A t \in T : \E a \in S : f[a] = t
  OBVIOUS
<1> HIDE DEF S, T, f
<1>3. f \in Bijection(S, T)
  BY <1>2, Fun_IsBij
<1>4. IsFiniteSet(T) /\ Cardinality(T) = Cardinality(S)
  BY <1>1, <1>3, FS_Bijection DEF ExistsBijection
<1> QED BY <1>1, <1>4 DEF S, T

(* Rows that come after all those that are there extend what is read. *)
LEMMA LaterRowsExtend ==
  ASSUME NEW R \in SUBSET Row, IsFiniteSet(R), NEW b \in Seq(Message), NEW row \in [1..Len(b) -> Row],
         Ordered(R \cup {row[i] : i \in 1..Len(b)}),
         \A r \in R : \A i \in 1..Len(b) : Before(r, row[i]),
         \A i, j \in 1..Len(b) : i < j => Before(row[i], row[j]),
         \A i \in 1..Len(b) : row[i].msg = b[i],
         HistoryOf(R) \in Seq(Message),
         HistoryOf(R \cup {row[i] : i \in 1..Len(b)}) \in Seq(Message)
  PROVE  HistoryOf(R \cup {row[i] : i \in 1..Len(b)}) = HistoryOf(R) \o b
<1> DEFINE m == Len(b)
           N == {row[i] : i \in 1..m}
           n == Cardinality(R)
           h == HistoryOf(R)
           g == HistoryOf(R \cup N)
<1>1. m \in Nat /\ n \in Nat
  BY FS_CardinalityType
<1>2. \A i \in 1..m : row[i] \in Row
  OBVIOUS
<1>3. \A i, j \in 1..m : i # j => row[i] # row[j]
  BY <1>2, BeforeIsStrictOrder
<1>4. IsFiniteSet(N) /\ Cardinality(N) = m
  BY <1>1, <1>3, FirstRows
<1>5. R \cap N = {}
  BY <1>2, BeforeIsStrictOrder
<1>6. IsFiniteSet(R \cup N) /\ Cardinality(R \cup N) = n + m
  <2>1. Cardinality(R \cap N) = 0
    BY <1>5, FS_EmptySet
  <2>2. /\ IsFiniteSet(R \cup N)
        /\ Cardinality(R \cup N) = Cardinality(R) + Cardinality(N) - Cardinality(R \cap N)
    BY <1>4, FS_Union
  <2> HIDE DEF N
  <2> QED BY <1>1, <1>4, <2>1, <2>2
<1>7. R \cup N \in SUBSET Row /\ Ordered(R) /\ Ordered(R \cup N)
  BY <1>2 DEF Ordered
<1>8. Len(h) = n /\ Len(g) = n + m
  <2>1. DOMAIN h = 1..n /\ DOMAIN g = 1..Cardinality(R \cup N)
    BY DEF HistoryOf
  <2> QED BY <1>1, <1>6, <2>1
<1>9. ASSUME NEW r \in R PROVE Earlier(r, R \cup N) = Earlier(r, R)
  BY <1>2, BeforeIsStrictOrder DEF Earlier
<1>10. ASSUME NEW i \in 1..n PROVE g[i] = h[i]
  <2>1. i - 1 \in 0..(n - 1)
    BY <1>1
  <2>2. PICK r \in R : Cardinality(Earlier(r, R)) = i - 1
    BY <1>7, <2>1, RankExists DEF Ordered
  <2>3. h[(i - 1) + 1] = r.msg
    BY <1>7, <2>2, RowIsReadAtRank
  <2>4. g[(i - 1) + 1] = r.msg
    BY <1>6, <1>7, <1>9, <2>2, RowIsReadAtRank
  <2> QED BY <1>1, <2>3, <2>4
<1>11. ASSUME NEW i \in 1..m PROVE g[n + i] = b[i]
  <2> DEFINE P == {row[j] : j \in 1..(i - 1)}
  <2>1. i - 1 \in Nat /\ \A j \in 1..(i - 1) : j \in 1..m /\ j < i
    BY <1>1
  <2>2. IsFiniteSet(P) /\ Cardinality(P) = i - 1
    <3> DEFINE k == i - 1
    <3>1. k \in Nat /\ \A a, c \in 1..k : a # c => row[a] # row[c]
      BY <1>3, <2>1
    <3> HIDE DEF k
    <3>2. IsFiniteSet({row[j] : j \in 1..k}) /\ Cardinality({row[j] : j \in 1..k}) = k
      BY <3>1, FirstRows
    <3> QED BY <3>2 DEF k
  <2>3. R \cap P = {}
    BY <1>5, <2>1
  <2>4. Cardinality(R \cup P) = n + (i - 1)
    <3>1. Cardinality(R \cap P) = 0
      BY <2>3, FS_EmptySet
    <3>2. Cardinality(R \cup P) = Cardinality(R) + Cardinality(P) - Cardinality(R \cap P)
      BY <2>2, FS_Union
    <3> HIDE DEF P
    <3> QED BY <1>1, <2>1, <2>2, <3>1, <3>2
  <2>5. Earlier(row[i], R \cup N) = R \cup P
    <3>1. ASSUME NEW x \in R \cup P PROVE x \in R \cup N /\ Before(x, row[i])
      BY <2>1
    <3>2. ASSUME NEW j \in 1..m, Before(row[j], row[i]) PROVE j \in 1..(i - 1)
      <4>1. j < i
        <5>1. ~ (i < j) /\ i # j
          BY <1>2, <3>2, BeforeIsStrictOrder
        <5> QED BY <1>1, <5>1
      <4> QED BY <1>1, <4>1
    <3> QED BY <3>1, <3>2 DEF Earlier
  <2>6. row[i] \in R \cup N
    OBVIOUS
  <2>7. g[(n + (i - 1)) + 1] = row[i].msg
    <3>1. g[Cardinality(Earlier(row[i], R \cup N)) + 1] = row[i].msg
      <4> HIDE DEF N
      <4> QED BY <1>6, <1>7, <2>6, RowIsReadAtRank
    <3> HIDE DEF N, P, g
    <3> QED BY <2>4, <2>5, <3>1
  <2>8. (n + (i - 1)) + 1 = n + i
    BY <1>1
  <2> QED BY <2>7, <2>8
<1>12. h \in Seq(Message) /\ g \in Seq(Message)
  OBVIOUS
<1> HIDE DEF g, h, n
<1>13. h \o b \in Seq(Message) /\ Len(h \o b) = n + m
       /\ \A i \in 1..(n + m) : (h \o b)[i] = IF i <= n THEN h[i] ELSE b[i - n]
  BY <1>8, <1>12, ConcatProperties
<1>14. ASSUME NEW i \in 1..(n + m) PROVE g[i] = (h \o b)[i]
  <2>1. CASE i <= n
    BY <1>1, <1>10, <1>13, <2>1
  <2>2. CASE i > n
    <3>1. i - n \in 1..m /\ n + (i - n) = i
      BY <1>1, <2>2
    <3>2. g[n + (i - n)] = b[i - n]
      BY <1>11, <3>1
    <3> QED BY <1>1, <1>13, <2>2, <3>1, <3>2
  <2>3. i <= n \/ i > n
    BY <1>1
  <2> QED BY <2>1, <2>2, <2>3
<1>15. g = h \o b
  BY <1>8, <1>12, <1>13, <1>14, SeqEqual
<1> QED BY <1>15 DEF g, h

(* What is read of a session is messages, now and after any step. *)
LEMMA HistoryIsTyped == \A c \in Conv : StoreInv => LoadHistory(c) \in Seq(Message)
BY LoadHistoryIsSeq DEF StoreInv

(* A commit adds its exchange at the end of what is read of its session,   *)
(* and nothing to what is read of the others.                              *)
LEMMA CommitAppends ==
  ASSUME StoreInv, StoreInv', SerialInv, NEW t \in Turn, pc[t] \in {"bumped", "limbo"}, Apply(t)
  PROVE  /\ LoadHistory(ConvOf[t])' = LoadHistory(ConvOf[t]) \o batch[t]
         /\ \A c \in Conv : c # ConvOf[t] => LoadHistory(c)' = LoadHistory(c)
<1> DEFINE m == Len(batch[t])
           d == ConvOf[t]
<1>1. PICK ids \in [1..m -> Id] : rows' = rows \cup {NewRow(t, i, ids[i]) : i \in 1..m}
  BY DEF Apply
<1> DEFINE row == [i \in 1..m |-> NewRow(t, i, ids[i])]
           N == {row[i] : i \in 1..m}
<1>2. batch[t] \in Seq(Message) /\ m \in Nat /\ base[t] \in Nat
  BY DEF StoreInv, TypeOK
<1>3. ASSUME NEW i \in 1..m
      PROVE  /\ row[i] \in Row /\ row[i].turn = t /\ row[i].msg = batch[t][i]
             /\ row[i].ts = base[t] + (i - 1) /\ row[i].ts \in Nat
  <2>1. ids[i] \in Id /\ i \in Nat /\ base[t] + (i - 1) \in Nat /\ batch[t][i] \in Message
    BY <1>2
  <2> QED BY <2>1 DEF NewRow, Row
<1>4. rows' = rows \cup N
  <2>1. \A i \in 1..m : row[i] = NewRow(t, i, ids[i])
    OBVIOUS
  <2> QED BY <1>1, <2>1
<1> HIDE DEF row
<1>5. RowsOf(d)' = RowsOf(d) \cup N
  BY <1>3, <1>4 DEF RowsOf
<1>6. ASSUME NEW c \in Conv, c # d PROVE LoadHistory(c)' = LoadHistory(c)
  <2>1. RowsOf(c)' = RowsOf(c)
    BY <1>3, <1>4, <1>6 DEF RowsOf
  <2> QED BY <2>1, LoadDependsOnOwnRows
<1>7. LoadHistory(d)' = HistoryOf(RowsOf(d) \cup N) /\ LoadHistory(d) = HistoryOf(RowsOf(d))
  BY <1>5 DEF LoadHistory, HistoryOf
<1>8. RowsOf(d) \in SUBSET Row /\ IsFiniteSet(RowsOf(d))
  BY RowsOfFinite DEF StoreInv
<1>9. Ordered(RowsOf(d) \cup N)
  <2>1. \A r, s \in RowsOf(d)' : r # s => Before(r, s) \/ Before(s, r)
    BY DEF StoreInv, RowsOrdered, RowsOf, Before
  <2> QED BY <1>5, <2>1 DEF Ordered
<1>10. ASSUME NEW r \in RowsOf(d), NEW i \in 1..m PROVE Before(r, row[i])
  <2>1. r.ts < base[t] /\ r.ts \in Nat
    BY <1>8 DEF SerialInv, StampsFollowRows, Stamped, RowsOf, Row
  <2> QED BY <1>2, <1>3, <2>1 DEF Before
<1>11. \A i, j \in 1..m : i < j => Before(row[i], row[j])
  BY <1>2, <1>3 DEF Before
<1>12. HistoryOf(RowsOf(d)) \in Seq(Message)
  BY <1>7, LoadHistoryIsSeq DEF StoreInv
<1>13. HistoryOf(RowsOf(d) \cup N) \in Seq(Message)
  <2>1. (\A c \in Conv : StoreInv => LoadHistory(c) \in Seq(Message))'
    BY HistoryIsTyped, PTL
  <2>2. d \in Conv
    BY ConvAssumption
  <2> QED BY <1>7, <2>1, <2>2
<1>14. row \in [1..m -> Row]
  BY <1>3 DEF row
<1>15. HistoryOf(RowsOf(d) \cup N) = HistoryOf(RowsOf(d)) \o batch[t]
  BY <1>2, <1>3, <1>8, <1>9, <1>10, <1>11, <1>12, <1>13, <1>14, LaterRowsExtend
<1> QED BY <1>6, <1>7, <1>15

(* A step either commits, and adds an exchange to one log, or leaves every *)
(* log as it is.                                                           *)
LEMMA StepIsLogged ==
  ASSUME StoreInv, StoreInv', SerialInv, [Next]_vars PROVE [Log!Next]_([c \in Conv |-> LoadHistory(c)])
<1> DEFINE L == [c \in Conv |-> LoadHistory(c)]
<1>1. CASE rows' = rows
  <2>1. \A c \in Conv : LoadHistory(c)' = LoadHistory(c)
    BY <1>1, LoadDependsOnOwnRows DEF RowsOf
  <2> QED BY <2>1
<1>2. ASSUME NEW t \in Turn, pc[t] \in {"bumped", "limbo"}, Apply(t) PROVE Log!Next
  <2> DEFINE d == ConvOf[t]
             h == LoadHistory(d)
             b == batch[t]
  <2>1. d \in Conv /\ h \in Seq(Message) /\ b \in Seq(Message)
    BY ConvAssumption, HistoryIsTyped DEF StoreInv, TypeOK
  <2>2. b # << >> /\ b[Len(b)].role = "assistant"
    BY <1>2 DEF StoreInv, BatchEndsWithReply, EndsWithReply, LastOf
  <2>3. h' = h \o b /\ \A c \in Conv : c # d => LoadHistory(c)' = LoadHistory(c)
    BY <1>2, CommitAppends
  <2>4. L[d] = h /\ L'[d] = h \o b /\ L' = [L EXCEPT ![d] = @ \o b]
    BY <2>1, <2>3
  <2> HIDE DEF h, b, d, L
  <2>5. Len(h \o b) = Len(h) + Len(b) /\ Len(h) \in Nat /\ Len(b) \in Nat /\ Len(b) > 0
    BY <2>1, <2>2, ConcatProperties, EmptySeq
  <2>6. SubSeq(h \o b, 1, Len(h)) = h
    BY <2>1, <2>5
  <2>7. SubSeq(h \o b, Len(h) + 1, Len(h \o b)) = b
    BY <2>1, <2>5
  <2>8. Log!IsExtension(L[d], L'[d])
    BY <2>4, <2>5, <2>6 DEF Log!IsExtension
  <2>9. SubSeq(L'[d], Len(L[d]) + 1, Len(L'[d])) = b
    BY <2>4, <2>7
  <2>10. /\ b # << >> /\ b[Len(b)].role = "assistant" /\ L' = [L EXCEPT ![d] = @ \o b]
    BY <2>2, <2>4
  <2> QED BY <2>1, <2>8, <2>9, <2>10 DEF Log!Next, Log!Append1, L
<1>3. ASSUME NEW t \in Turn, Commit(t) \/ LimboCommits(t) PROVE Log!Next
  BY <1>2, <1>3 DEF Commit, LimboCommits, Goto
<1>4. ASSUME NEW t \in Turn, Step(t), ~ Commit(t), ~ LimboCommits(t) PROVE rows' = rows
  BY <1>4 DEF Step, Assemble, Abandon, PersistLoad, BeginTx, Bump, Fail, LoseAck, LimboAborts
<1>5. CASE Tick \/ Finished \/ UNCHANGED vars
  BY <1>1, <1>5 DEF Tick, Finished, vars
<1> QED BY <1>1, <1>3, <1>4, <1>5 DEF Next

(* ConversationLog: with one turn at a time a stored session is a log of   *)
(* whole exchanges.  Each is added at the end, and nothing that was read   *)
(* ever moves or disappears, also when commit answers are lost and the     *)
(* commits land later.                                                     *)
THEOREM SerialStoreIsLog == ASSUME OneAtATime PROVE Spec => RefinesLog
<1> DEFINE Inv == StoreInv /\ SerialInv
<1>1. Init => Inv
  BY StoreInvInit, SerialInit
<1>2. Inv /\ [Next]_vars => Inv'
  BY StoreInvNext, SerialNext
<1>3. Init => Log!Init
  <2> SUFFICES ASSUME Init PROVE Log!Init
    OBVIOUS
  <2>1. \A c \in Conv : RowsOf(c) = {}
    BY DEF Init, RowsOf
  <2>2. \A c \in Conv : LoadHistory(c) = << >>
    <3>1. \A c \in Conv : LoadHistory(c) \in Seq(Message) /\ Len(LoadHistory(c)) = Cardinality(RowsOf(c))
      BY StoreInvInit, LoadHistoryIsSeq DEF StoreInv
    <3>2. Cardinality({}) = 0
      BY FS_EmptySet
    <3> QED BY <2>1, <3>1, <3>2, EmptySeq
  <2> QED BY <2>2 DEF Log!Init
<1>4. Inv /\ Inv' /\ [Next]_vars => [Log!Next]_([c \in Conv |-> LoadHistory(c)])
  BY StepIsLogged
<1> QED BY <1>1, <1>2, <1>3, <1>4, PTL DEF Spec, RefinesLog, Log!Spec
=============================================================================
