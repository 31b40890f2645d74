--------------------------- MODULE GatewayProofs ---------------------------
(***************************************************************************)
(* What stands around a chat turn, on its way in and on its way out: the   *)
(* rate limiter for every number of keys, every rate, burst and sweep      *)
(* period, and the stream relay for every stream, cut anywhere, with its   *)
(* caller and its model's errors.                                          *)
(***************************************************************************)
EXTENDS RateLimit, StreamRelay, SequenceTheorems, TLAPS

-----------------------------------------------------------------------------
(* The limiter.  The one assumption that matters is SweepAssumption: a     *)
(* bucket is not forgotten before it would be full again.                  *)

LEMMA FullIsNat == Full \in Nat /\ Full <= StaleAfter /\ (Burst > 0 => Full >= Interval)
<1>1. \A a, b \in Nat : a * b \in Nat /\ (a > 0 => a * b >= b)
  OBVIOUS
<1>2. QED
  BY <1>1, RateAssumption, SweepAssumption DEF Full

(* A bucket found by allow is the one that is never forgotten. *)
LEMMA FoundIsIdeal == RateInv => SweepIsInvisible
<1> SUFFICES ASSUME RateInv, NEW k \in Key PROVE Found(k) = ideal[k]
  BY DEF SweepIsInvisible
<1> USE FullIsNat, RateAssumption
<1>1. CASE k \notin present
  BY <1>1 DEF RateInv, BucketsAgree, Found, Kept
<1>2. CASE k \in Kept
  BY <1>2 DEF RateInv, BucketsAgree, Found, Kept
<1>3. CASE k \in present /\ k \notin Kept
  <2>1. now - seen[k] > StaleAfter
    BY <1>3 DEF Kept, RateInv, TypeOK
  <2>2. Earned(k) = Full
    BY <2>1, <1>3 DEF Earned, Cap, RateInv, TypeOK, BucketsAgree
  <2>3. QED
    BY <2>2, <1>3 DEF RateInv, BucketsAgree, Found
<1>4. QED
  BY <1>1, <1>2, <1>3

LEMMA InitRate == Init => RateInv
  BY FullIsNat, RateAssumption DEF Init, RateInv, TypeOK, BucketsAgree, DenialsEarn, NothingIsSpentTwice

LEMMA TickKeepsRate == RateInv /\ Tick => RateInv'
<1> SUFFICES ASSUME RateInv, Tick PROVE RateInv'
  OBVIOUS
<1> USE FullIsNat, RateAssumption
<1>1. TypeOK'
  BY DEF RateInv, TypeOK, Tick, Cap
<1>2. BucketsAgree'
  <2>1. ASSUME NEW k \in present PROVE seen[k] <= now' /\ ideal'[k] = Earned(k)'
    BY <2>1 DEF RateInv, TypeOK, BucketsAgree, Tick, Cap, Earned
  <2>2. ASSUME NEW k \in Key \ present PROVE ideal'[k] = Full
    BY <2>2 DEF RateInv, TypeOK, BucketsAgree, Tick, Cap
  <2>3. QED
    BY <2>1, <2>2 DEF BucketsAgree, Tick
<1>3. DenialsEarn'
  BY DEF RateInv, TypeOK, DenialsEarn, Tick, Cap
<1>4. NothingIsSpentTwice'
  <2>1. ASSUME NEW k \in Key, now' >= since'
        PROVE  spent'[k] + ideal'[k] <= Full + (now' - since')
    <3>1. ideal'[k] <= ideal[k] + 1 /\ ideal'[k] <= Full /\ spent'[k] = spent[k]
      BY DEF RateInv, TypeOK, Tick, Cap
    <3>2. now \in Nat /\ since \in Nat /\ now' = now + 1 /\ since' = since
      BY DEF RateInv, TypeOK, Tick
    <3>3. spent[k] \in Nat /\ ideal[k] \in Nat /\ ideal'[k] \in Nat
      BY <1>1, FullIsNat DEF RateInv, TypeOK
    <3>4. CASE now >= since
      <4>1. spent[k] + ideal[k] <= Full + (now - since)
        BY <3>4 DEF RateInv, NothingIsSpentTwice
      <4> QED BY <3>1, <3>2, <3>3, <4>1
    <3>5. CASE now < since
      <4>1. spent[k] = 0
        BY <3>5 DEF RateInv, NothingIsSpentTwice
      <4> QED BY <2>1, <3>1, <3>2, <3>3, <4>1
    <3> QED BY <3>2, <3>4, <3>5
  <2>2. ASSUME NEW k \in Key, now' < since' PROVE spent'[k] = 0
    BY <2>2 DEF RateInv, TypeOK, NothingIsSpentTwice, Tick
  <2> QED BY <2>1, <2>2 DEF NothingIsSpentTwice
<1>5. QED
  BY <1>1, <1>2, <1>3, <1>4 DEF RateInv

LEMMA AllowKeepsRate == ASSUME NEW k \in Key PROVE RateInv /\ Allow(k) => RateInv'
<1> SUFFICES ASSUME RateInv, Allow(k) PROVE RateInv'
  OBVIOUS
<1> USE FullIsNat, RateAssumption
<1>1. Found(k) = ideal[k] /\ ideal[k] \in 0..Full
  BY FoundIsIdeal DEF SweepIsInvisible, RateInv, TypeOK
<1>2. TypeOK'
  BY <1>1 DEF RateInv, TypeOK, Allow, Allows, Kept
<1>3. BucketsAgree'
  <2>1. ASSUME NEW j \in Key, j # k, j \in Kept
        PROVE seen'[j] <= now' /\ ideal'[j] = Earned(j)'
    BY <2>1 DEF RateInv, TypeOK, BucketsAgree, Allow, Kept, Earned
  <2>2. ASSUME NEW j \in Key, j # k, j \notin Kept PROVE ideal'[j] = Full
    <3>1. ideal[j] = Full
      BY <2>2, FoundIsIdeal DEF SweepIsInvisible, Found
    <3>2. QED
      BY <3>1, <2>2 DEF Allow, RateInv, TypeOK
  <2>3. seen'[k] <= now' /\ ideal'[k] = Earned(k)'
    BY <1>1 DEF RateInv, TypeOK, Allow, Allows, Earned, Cap
  <2>4. QED
    BY <2>1, <2>2, <2>3 DEF BucketsAgree, Allow, Kept, RateInv, TypeOK
<1>4. DenialsEarn'
  <2>1. ASSUME NEW j \in Key, j # k, denied'[j] >= 0 PROVE ideal'[j] >= Cap(denied'[j])
    BY <2>1 DEF RateInv, TypeOK, DenialsEarn, Allow
  <2>2. ASSUME denied'[k] >= 0 PROVE ideal'[k] >= Cap(denied'[k])
    BY <2>2, <1>1 DEF RateInv, TypeOK, DenialsEarn, Allow, Cap
  <2>3. QED
    BY <2>1, <2>2 DEF DenialsEarn, Cap
<1>5. NothingIsSpentTwice'
  <2>1. ASSUME NEW j \in Key, now' >= since'
        PROVE  spent'[j] + ideal'[j] <= Full + (now' - since')
    <3>1. now >= since /\ now' = now /\ since' = since
      BY <2>1 DEF Allow
    <3>2. spent[j] + ideal[j] <= Full + (now - since)
      BY <3>1 DEF RateInv, NothingIsSpentTwice
    <3>3. spent'[j] + ideal'[j] = spent[j] + ideal[j]
      BY <3>1 DEF RateInv, TypeOK, Allow
    <3> QED BY <3>1, <3>2, <3>3
  <2>2. ASSUME NEW j \in Key, now' < since' PROVE spent'[j] = 0
    BY <2>2 DEF RateInv, TypeOK, NothingIsSpentTwice, Allow
  <2> QED BY <2>1, <2>2 DEF NothingIsSpentTwice
<1>6. QED
  BY <1>2, <1>3, <1>4, <1>5 DEF RateInv

(* The buckets of the map, and those it has forgotten, agree at all times  *)
(* with buckets that are never forgotten.                                  *)
THEOREM RateCorrect == Spec => []RateInv
<1>1. RateInv /\ [Next]_vars => RateInv'
  <2> SUFFICES ASSUME RateInv, [Next]_vars PROVE RateInv'
    OBVIOUS
  <2>1. CASE UNCHANGED vars
    BY <2>1 DEF vars, RateInv, TypeOK, BucketsAgree, DenialsEarn, NothingIsSpentTwice, Earned
  <2>2. QED
    BY <2>1, TickKeepsRate, AllowKeepsRate DEF Next
<1>2. QED
  BY <1>1, InitRate, PTL DEF Spec

(* limiterSet.sweep never hands a key tokens it has not earned.            *)
THEOREM SweepGivesNothingAway == Spec => []SweepIsInvisible
  BY RateCorrect, FoundIsIdeal, PTL

(* Over any stretch of time PerIP and PerKey admit a key's requests at     *)
(* most for what a full bucket holds and what the stretch earns.           *)
THEOREM RatesAreBounded == Spec => []RateIsBounded
<1>1. RateInv => RateIsBounded
  <2> SUFFICES ASSUME RateInv, now >= since, NEW k \in Key
               PROVE  spent[k] <= Full + (now - since)
    BY DEF RateIsBounded
  <2>1. spent[k] + ideal[k] <= Full + (now - since)
    BY DEF RateInv, NothingIsSpentTwice
  <2>2. spent[k] \in Nat /\ ideal[k] \in Nat /\ now \in Nat /\ since \in Nat
    BY FullIsNat DEF RateInv, TypeOK
  <2> QED BY <2>1, <2>2, FullIsNat
<1> QED BY <1>1, RateCorrect, PTL

(* A key that was refused and then waited for the Retry-After of           *)
(* tooManyRequests is admitted.                                            *)
THEOREM RetryAfterIsHonest == Spec => []RetryAfterWorks
<1>1. RateInv => RetryAfterWorks
  <2> SUFFICES ASSUME RateInv, Burst > 0, NEW k \in Key, denied[k] >= Interval PROVE Allows(k)
    BY DEF RetryAfterWorks
  <2>1. ideal[k] >= Cap(denied[k]) /\ denied[k] \in Int
    BY RateAssumption DEF RateInv, DenialsEarn, TypeOK
  <2>2. Cap(denied[k]) >= Interval
    BY <2>1, FullIsNat, RateAssumption DEF Cap
  <2>3. Found(k) = ideal[k] /\ ideal[k] \in Int
    BY FoundIsIdeal, FullIsNat DEF SweepIsInvisible, RateInv, TypeOK
  <2>4. Cap(denied[k]) \in Int
    BY <2>1, FullIsNat DEF Cap
  <2>5. QED
    BY <2>1, <2>2, <2>3, <2>4, RateAssumption DEF Allows
<1>2. QED
  BY <1>1, RateCorrect, PTL

-----------------------------------------------------------------------------
(* Three lines are a sequence, and one that is appended stays the last. *)
LEMMA ThreeLines ==
  ASSUME NEW S, NEW a \in S, NEW b \in S, NEW c \in S
  PROVE  /\ << a, b, c >> \in Seq(S) /\ Len(<< a, b, c >>) = 3 /\ << a, b, c >> # << >>
         /\ << a, b, c >>[1] = a /\ << a, b, c >>[2] = b /\ << a, b, c >>[3] = c
OBVIOUS

LEMMA TwoLines ==
  ASSUME NEW S, NEW a \in S, NEW b \in S
  PROVE  << a >> \in Seq(S) /\ << b >> \in Seq(S) /\ << a >> \o << b >> = << a, b >>
<1>1. << a >> \in Seq(S) /\ << b >> \in Seq(S) /\ << a, b >> \in Seq(S)
  OBVIOUS
<1>2. Len(<< a >> \o << b >>) = 2 /\ Len(<< a, b >>) = 2 /\ << a >> \o << b >> \in Seq(S)
  BY <1>1
<1>3. (<< a >> \o << b >>)[1] = << a, b >>[1] /\ (<< a >> \o << b >>)[2] = << a, b >>[2]
  BY <1>1
<1>4. \A i \in 1..2 : i = 1 \/ i = 2
  OBVIOUS
<1>. QED
  BY <1>1, <1>2, <1>3, <1>4, SeqEqual

LEMMA AppendToSecond ==
  \A s, t \in Seq(Text), x \in Text :
    Append(t, x) \in Seq(Text) /\ s \o Append(t, x) = Append(s \o t, x)
<1> SUFFICES ASSUME NEW s \in Seq(Text), NEW t \in Seq(Text), NEW x \in Text
             PROVE  Append(t, x) \in Seq(Text) /\ s \o Append(t, x) = Append(s \o t, x)
  OBVIOUS
<1>1. << x >> \in Seq(Text) /\ s \o t \in Seq(Text)
  BY ConcatProperties
<1>2. Append(t, x) = t \o << x >> /\ Append(s \o t, x) = (s \o t) \o << x >> /\ Append(t, x) \in Seq(Text)
  BY <1>1, AppendIsConcat, AppendProperties
<1>. QED
  BY <1>1, <1>2, ConcatAssociative

(* What can be written on the wire. *)
Wire == Line \cup Frame

LEMMA GatewayLines ==
  /\ {"event_session", "session", "event_error", "error", "blank", "done", "fault"} \subseteq Wire
  /\ "event_error" \notin Text /\ "error" \notin Text /\ "blank" \notin Text
  /\ "fault" \notin Text /\ "done" \notin Text
  /\ Text \subseteq Wire /\ Line \subseteq Wire /\ "event_error" \notin Line
  /\ << >> \in Seq(Text)
<1>1. << >> \in Seq(Text)
  OBVIOUS
<1>. QED
  BY <1>1, RelayAssumption DEF Wire, Line, Frame, Data

(* The caller's parser. *)
CallerSet == [reply : Seq(Text), reports : Nat, text : Seq(Text), fault : Nat]

(* A line that is heard adds its text, or its report, once: an empty line  *)
(* only moves them into the reply.                                         *)
LEMMA HeardOnce ==
  ASSUME NEW c \in CallerSet, NEW l \in Wire
  PROVE  /\ Hear(c, l) \in CallerSet
         /\ Hear(c, l).reply \o Hear(c, l).text = IF l \in Text THEN Append(c.reply \o c.text, l)
                                                  ELSE c.reply \o c.text
         /\ Hear(c, l).reports + Hear(c, l).fault >= c.reports + c.fault
         /\ l = "fault" => Hear(c, l).reports + Hear(c, l).fault = c.reports + c.fault + 1
         /\ l = "blank" => Hear(c, l).text = << >> /\ Hear(c, l).fault = 0
         /\ l \notin Text /\ l # "blank" => Hear(c, l).text = c.text
         /\ l # "fault" /\ l # "blank" => Hear(c, l).fault = c.fault
<1> DEFINE h == Hear(c, l)
<1>1. /\ c.reply \in Seq(Text) /\ c.text \in Seq(Text) /\ c.reports \in Nat /\ c.fault \in Nat
      /\ << >> \in Seq(Text)
  BY GatewayLines DEF CallerSet
<1>2. "blank" \notin Text /\ "fault" \notin Text
  BY GatewayLines
<1>3. CASE l = "blank"
  <2>1. h = [reply |-> c.reply \o c.text, reports |-> c.reports + c.fault, text |-> << >>, fault |-> 0]
    BY <1>3 DEF Hear
  <2>2. c.reply \o c.text \in Seq(Text) /\ (c.reply \o c.text) \o << >> = c.reply \o c.text
    BY <1>1, ConcatProperties, ConcatEmptySeq
  <2>3. c.reports + c.fault \in Nat /\ c.reports + c.fault + 0 = c.reports + c.fault
    BY <1>1
  <2>4. h \in CallerSet
    BY <1>1, <2>1, <2>2, <2>3 DEF CallerSet
  <2>. HIDE DEF h
  <2>5. h.reply = c.reply \o c.text /\ h.text = << >> /\ h.reports = c.reports + c.fault /\ h.fault = 0
    BY <2>1
  <2>6. h.reply \o h.text = c.reply \o c.text /\ h.reports + h.fault >= c.reports + c.fault
    BY <2>2, <2>3, <2>5
  <2>. QED
    BY <1>2, <1>3, <2>4, <2>5, <2>6 DEF h
<1>4. CASE l \in Text
  <2>1. h = [reply |-> c.reply, reports |-> c.reports, text |-> Append(c.text, l), fault |-> c.fault]
    BY <1>2, <1>4 DEF Hear
  <2>2. Append(c.text, l) \in Seq(Text) /\ c.reply \o Append(c.text, l) = Append(c.reply \o c.text, l)
    BY <1>1, <1>4, AppendToSecond
  <2>3. h \in CallerSet
    BY <1>1, <2>1, <2>2 DEF CallerSet
  <2>. HIDE DEF h
  <2>4. h.reply = c.reply /\ h.text = Append(c.text, l) /\ h.reports = c.reports /\ h.fault = c.fault
    BY <2>1
  <2>5. l # "blank" /\ l # "fault" /\ h.reports + h.fault >= c.reports + c.fault
    BY <1>1, <1>2, <1>4, <2>4
  <2>6. h.reply \o h.text = Append(c.reply \o c.text, l)
    BY <2>2, <2>4
  <2>. QED
    BY <1>4, <2>3, <2>4, <2>5, <2>6 DEF h
<1>5. CASE l \notin Text /\ l # "blank"
  <2> DEFINE f == IF l = "fault" THEN c.fault + 1 ELSE c.fault
  <2>1. h = [reply |-> c.reply, reports |-> c.reports, text |-> c.text, fault |-> f]
    BY <1>5 DEF Hear
  <2>2. f \in Nat /\ f >= c.fault /\ (l = "fault" => f = c.fault + 1) /\ (l # "fault" => f = c.fault)
    BY <1>1
  <2>. HIDE DEF f
  <2>3. h \in CallerSet
    BY <1>1, <2>1, <2>2 DEF CallerSet
  <2>. HIDE DEF h
  <2>4. h.reply = c.reply /\ h.text = c.text /\ h.reports = c.reports /\ h.fault = f
    BY <2>1
  <2>5. /\ h.reports + h.fault >= c.reports + c.fault
        /\ l = "fault" => h.reports + h.fault = c.reports + c.fault + 1
    <3>1. c.fault \in Nat /\ c.reports \in Nat /\ f \in Nat
      BY <1>1, <2>2
    <3>2. h.reports + h.fault = c.reports + f
      BY <2>4
    <3>3. c.reports + f >= c.reports + c.fault
      BY <2>2, <3>1
    <3>4. l = "fault" => c.reports + f = c.reports + c.fault + 1
      BY <2>2, <3>1
    <3>. QED
      BY <3>2, <3>3, <3>4
  <2>. QED
    BY <1>5, <2>2, <2>3, <2>4, <2>5 DEF h
<1>. QED
  BY <1>3, <1>4, <1>5

(* An error frame ends the event under way and adds nothing to the reply.  *)
LEMMA FrameHeard ==
  ASSUME NEW c \in CallerSet
  PROVE  /\ HearFrame(c, ErrorFrame) \in CallerSet
         /\ HearFrame(c, ErrorFrame).reply \o HearFrame(c, ErrorFrame).text = c.reply \o c.text
         /\ HearFrame(c, ErrorFrame).reports + HearFrame(c, ErrorFrame).fault >= c.reports + c.fault
         /\ HearFrame(c, ErrorFrame).text = << >> /\ HearFrame(c, ErrorFrame).fault = 0
<1> DEFINE c1 == Hear(c, "event_error")
           c2 == Hear(c1, "error")
           c3 == Hear(c2, "blank")
<1>1. /\ {"event_error", "error", "blank"} \subseteq Wire
      /\ "event_error" \notin Text /\ "error" \notin Text /\ "blank" \notin Text
  BY GatewayLines
<1>2. HearFrame(c, ErrorFrame) = c3
  BY DEF HearFrame, ErrorFrame
<1>. HIDE DEF c1, c2, c3
<1>3. /\ c1 \in CallerSet /\ c1.reply \o c1.text = c.reply \o c.text
      /\ c1.reports + c1.fault >= c.reports + c.fault
  BY <1>1, HeardOnce DEF c1
<1>4. /\ c2 \in CallerSet /\ c2.reply \o c2.text = c.reply \o c.text
      /\ c2.reports + c2.fault >= c1.reports + c1.fault
  BY <1>1, <1>3, HeardOnce DEF c2
<1>5. /\ c3 \in CallerSet /\ c3.reply \o c3.text = c.reply \o c.text
      /\ c3.reports + c3.fault >= c2.reports + c2.fault /\ c3.text = << >> /\ c3.fault = 0
  BY <1>1, <1>4, HeardOnce DEF c3
<1>6. \A d \in CallerSet : d.reports + d.fault \in Nat
  BY DEF CallerSet
<1>7. c3.reports + c3.fault >= c.reports + c.fault
  <2>1. /\ c.reports + c.fault \in Nat /\ c1.reports + c1.fault \in Nat
        /\ c2.reports + c2.fault \in Nat /\ c3.reports + c3.fault \in Nat
    BY <1>3, <1>4, <1>5, <1>6
  <2>. QED
    BY <1>3, <1>4, <1>5, <2>1
<1>. QED
  BY <1>2, <1>5, <1>7

-----------------------------------------------------------------------------
(* The relay.  What was collected is what the caller has, whole events and *)
(* the one under way, and between events nothing is under way.             *)
Agrees ==
  /\ content = caller.reply \o caller.text
  /\ Last = "blank" => caller.text = << >> /\ caller.fault = 0
  /\ caller.reports + caller.fault >= faults

(* Before the end nothing is stored and no error frame was sent; a reply   *)
(* is saved between two events, after [DONE].                              *)
Open ==
  /\ stored = {}
  /\ \A i \in 1..Len(out) : out[i] # "event_error"
  /\ phase = "saving" => caller.text = << >> /\ caller.fault = 0 /\ \E i \in 1..Len(out) : out[i] = "done"

RelayInv ==
  /\ RelayTypeOK /\ out # << >>
  /\ Agrees
  /\ phase # "ended" => Open
  /\ StoredIsRebuilt /\ EndIsTold

LEMMA RelayInvInit == RelayInit => RelayInv
<1> SUFFICES ASSUME RelayInit PROVE RelayInv
  OBVIOUS
<1>1. << >> \in Seq(Text) /\ 0 \in Nat /\ << >> \o << >> = << >>
  BY GatewayLines, ConcatEmptySeq
<1>2. caller = [reply |-> << >>, reports |-> 0, text |-> << >>, fault |-> 0]
  BY DEF RelayInit
<1>3. caller \in CallerSet
  BY <1>1, <1>2 DEF CallerSet
<1>4. out \in Seq(Wire) /\ out # << >> /\ Len(out) = 3
      /\ out[1] = "event_session" /\ out[2] = "session" /\ out[3] = "blank"
  BY GatewayLines, ThreeLines DEF RelayInit, SessionFrame
<1>5. RelayTypeOK
  BY <1>1, <1>3, <1>4 DEF RelayInit, RelayTypeOK, CallerSet, Wire
<1>6. Agrees
  BY <1>1, <1>2 DEF RelayInit, Agrees
<1>7. \A i \in 1..Len(out) : out[i] # "event_error"
  BY <1>4
<1>. QED
  BY <1>4, <1>5, <1>6, <1>7 DEF RelayInit, RelayInv, Open, StoredIsRebuilt, EndIsTold

(* An error frame at the end of lines that have none is the only one.      *)
LEMMA OneErrorFrame ==
  ASSUME NEW s \in Seq(Wire), \A i \in 1..Len(s) : s[i] # "event_error"
  PROVE  /\ s \o ErrorFrame \in Seq(Wire) /\ s \o ErrorFrame # << >>
         /\ (s \o ErrorFrame)[Len(s \o ErrorFrame)] = "blank"
         /\ {i \in 1..Len(s \o ErrorFrame) : (s \o ErrorFrame)[i] = "event_error"} = {Len(s \o ErrorFrame) - 2}
<1> DEFINE t == s \o ErrorFrame
           n == Len(s)
<1>1. /\ ErrorFrame \in Seq(Wire) /\ Len(ErrorFrame) = 3
      /\ ErrorFrame[1] = "event_error" /\ ErrorFrame[2] = "error" /\ ErrorFrame[3] = "blank"
  BY GatewayLines, ThreeLines DEF ErrorFrame
<1>2. /\ t \in Seq(Wire) /\ Len(t) = n + 3 /\ n \in Nat
      /\ \A i \in 1..(n + 3) : t[i] = IF i <= n THEN s[i] ELSE ErrorFrame[i - n]
  BY <1>1, ConcatProperties, LenProperties
<1>. HIDE DEF t, n
<1>3. t[n + 1] = "event_error" /\ t[n + 2] = "error" /\ t[n + 3] = "blank"
  <2>1. /\ n + 1 \in 1..(n + 3) /\ n + 2 \in 1..(n + 3) /\ n + 3 \in 1..(n + 3)
        /\ ~ (n + 1 <= n) /\ ~ (n + 2 <= n) /\ ~ (n + 3 <= n)
        /\ (n + 1) - n = 1 /\ (n + 2) - n = 2 /\ (n + 3) - n = 3
    BY <1>2
  <2>. QED
    BY <1>1, <1>2, <2>1
<1>4. \A i \in 1..n : t[i] # "event_error"
  <2>1. ASSUME NEW i \in 1..n PROVE i \in 1..(n + 3) /\ i <= n
    BY <1>2
  <2>. QED
    BY <1>2, <2>1 DEF n
<1>5. \A i \in 1..(n + 3) : i \in 1..n \/ i = n + 1 \/ i = n + 2 \/ i = n + 3
  BY <1>2
<1>6. (n + 3) - 2 = n + 1 /\ n + 1 \in 1..(n + 3)
  BY <1>2
<1>7. t # << >>
  <2>1. Len(t) # 0
    BY <1>2
  <2>. QED
    BY <2>1
<1>8. {i \in 1..(n + 3) : t[i] = "event_error"} = {n + 1}
  BY <1>3, <1>4, <1>5, <1>6
<1>. QED
  BY <1>2, <1>3, <1>6, <1>7, <1>8 DEF t

(* A relay that ends with an error frame, whatever it has relayed.         *)
LEMMA EndsWithFrame ==
  ASSUME NEW s \in Seq(Wire), \A i \in 1..Len(s) : s[i] # "event_error", NEW c \in CallerSet,
         out' = s \o ErrorFrame, caller' = HearFrame(c, ErrorFrame), phase' = "ended", stored' = {},
         content' = c.reply \o c.text, c.reports + c.fault >= faults',
         gone' \in BOOLEAN, faults' \in Nat
  PROVE  RelayInv'
<1>1. /\ out' \in Seq(Wire) /\ out' # << >> /\ {i \in 1..Len(out') : out'[i] = "event_error"} = {Len(out') - 2}
  BY OneErrorFrame
<1>2. /\ caller' \in CallerSet /\ caller'.text = << >> /\ caller'.fault = 0
      /\ caller'.reply \o caller'.text = c.reply \o c.text
      /\ caller'.reports + caller'.fault >= c.reports + c.fault
  BY FrameHeard
<1>3. /\ caller'.reports \in Nat /\ c.reports + c.fault \in Nat
      /\ c.reply \in Seq(Text) /\ c.text \in Seq(Text)
  BY <1>2 DEF CallerSet
<1>4. caller'.reports >= faults' /\ caller'.reports + caller'.fault >= faults'
  BY <1>2, <1>3
<1>5. content' \in Seq(Text)
  BY <1>3, ConcatProperties
<1>6. RelayTypeOK'
  BY <1>1, <1>2, <1>5 DEF RelayTypeOK, CallerSet, Wire
<1>7. Agrees'
  BY <1>2, <1>4 DEF Agrees
<1>8. StoredIsRebuilt'
  BY DEF StoredIsRebuilt
<1>9. EndIsTold'
  BY <1>1, <1>4 DEF EndIsTold
<1>. QED
  BY <1>1, <1>6, <1>7, <1>8, <1>9 DEF RelayInv

(* A relay that ends without one, when the caller has left.                *)
LEMMA EndsSilently ==
  ASSUME NEW s \in Seq(Wire), s # << >>, NEW c \in CallerSet,
         out' = s, caller' = c, phase' = "ended", stored' = {},
         s[Len(s)] = "blank" => c.text = << >> /\ c.fault = 0,
         content' = c.reply \o c.text, c.reports + c.fault >= faults',
         gone' = TRUE, faults' \in Nat
  PROVE  RelayInv'
<1>1. content' \in Seq(Text)
  BY ConcatProperties DEF CallerSet
<1>2. RelayTypeOK'
  BY <1>1 DEF RelayTypeOK, CallerSet, Wire
<1>3. Agrees'
  BY DEF Agrees, Last
<1>4. StoredIsRebuilt' /\ EndIsTold'
  BY DEF StoredIsRebuilt, EndIsTold
<1>. QED
  BY <1>2, <1>3, <1>4 DEF RelayInv

(* A line that is written is the last one. *)
LEMMA LineWritten ==
  ASSUME NEW s \in Seq(Wire), NEW l \in Wire
  PROVE  LET t == Append(s, l)
         IN  /\ t \in Seq(Wire) /\ t # << >> /\ t[Len(t)] = l
             /\ \E i \in 1..Len(t) : t[i] = l
             /\ (\A i \in 1..Len(s) : s[i] # "event_error") /\ l # "event_error"
                  => \A i \in 1..Len(t) : t[i] # "event_error"
             /\ \A x : (\E i \in 1..Len(s) : s[i] = x) => \E i \in 1..Len(t) : t[i] = x
<1> DEFINE t == Append(s, l)
           n == Len(s)
<1>1. /\ t \in Seq(Wire) /\ t # << >> /\ Len(t) = n + 1 /\ t[n + 1] = l
      /\ \A i \in 1..n : t[i] = s[i]
  BY AppendProperties
<1>2. n \in Nat
  BY LenProperties
<1>. HIDE DEF t
<1>3. n + 1 \in 1..Len(t) /\ \A i \in 1..Len(t) : i \in 1..n \/ i = n + 1
  BY <1>1, <1>2
<1>4. \A i \in 1..n : i \in 1..Len(t)
  BY <1>1, <1>2
<1>. QED
  BY <1>1, <1>3, <1>4 DEF t

LEMMA RelayKeeps ==
  ASSUME RelayInv, NEW l \in Line, Relay(l)
  PROVE  RelayInv'
<1> DEFINE h == Hear(caller, l)
<1>1. /\ phase = "reading" /\ out' = Append(out, l) /\ caller' = h /\ Framed(l)
      /\ content' = (IF l \in Text THEN Append(content, l) ELSE content)
      /\ phase' = (IF l = "done" THEN "saving" ELSE "reading")
      /\ faults' = (IF l = "fault" THEN faults + 1 ELSE faults)
      /\ gone' = gone /\ stored' = stored
  BY DEF Relay, Collect
<1>2. /\ out \in Seq(Wire) /\ caller \in CallerSet /\ l \in Wire /\ l # "event_error" /\ "done" \notin Text
      /\ Agrees /\ Open /\ content \in Seq(Text) /\ gone \in BOOLEAN /\ faults \in Nat
  BY <1>1, GatewayLines DEF RelayInv, RelayTypeOK, CallerSet, Wire
<1>. HIDE DEF h
<1>3. /\ h \in CallerSet
      /\ h.reply \o h.text = IF l \in Text THEN Append(caller.reply \o caller.text, l)
                             ELSE caller.reply \o caller.text
      /\ h.reports + h.fault >= caller.reports + caller.fault
      /\ l = "fault" => h.reports + h.fault = caller.reports + caller.fault + 1
      /\ l = "blank" => h.text = << >> /\ h.fault = 0
      /\ l \notin Text /\ l # "blank" => h.text = caller.text
      /\ l # "fault" /\ l # "blank" => h.fault = caller.fault
  BY <1>2, HeardOnce DEF h
<1>4. /\ out' \in Seq(Wire) /\ out' # << >> /\ Last' = l
      /\ \E i \in 1..Len(out') : out'[i] = l
      /\ \A i \in 1..Len(out') : out'[i] # "event_error"
  BY <1>1, <1>2, LineWritten DEF Open, Last
<1>5. Agrees'
  <2>1. content' = h.reply \o h.text
    BY <1>1, <1>2, <1>3 DEF Agrees
  <2>2. h.reports + h.fault >= faults'
    <3>1. caller.reports + caller.fault \in Nat /\ h.reports + h.fault \in Nat
      BY <1>2, <1>3 DEF CallerSet
    <3>2. caller.reports + caller.fault >= faults
      BY <1>2 DEF Agrees
    <3>3. CASE l = "fault"
      BY <1>1, <1>2, <1>3, <3>1, <3>2, <3>3
    <3>4. CASE l # "fault"
      BY <1>1, <1>2, <1>3, <3>1, <3>2, <3>4
    <3>. QED
      BY <3>3, <3>4
  <2>. QED
    BY <1>1, <1>3, <1>4, <2>1, <2>2 DEF Agrees
<1>6. phase' = "saving" => l = "done" /\ h.text = << >> /\ h.fault = 0
  BY <1>1, <1>2, <1>3 DEF Framed, Agrees
<1>7. Open'
  BY <1>1, <1>2, <1>4, <1>6 DEF Open
<1>8. content' \in Seq(Text) /\ faults' \in Nat
  <2>1. \A s \in Seq(Text), x \in Text : Append(s, x) \in Seq(Text)
    BY AppendToSecond
  <2>. QED
    BY <1>1, <1>2, <2>1
<1>9. RelayTypeOK'
  <2>1. phase' \in {"reading", "saving", "ended"} /\ stored' \in SUBSET Seq(Text) /\ gone' \in BOOLEAN
    BY <1>1, <1>2 DEF Open
  <2>. QED
    BY <1>1, <1>3, <1>4, <1>8, <2>1 DEF RelayTypeOK, CallerSet, Wire
<1>10. StoredIsRebuilt'
  <2>1. h.reply \in Seq(Text)
    BY <1>3 DEF CallerSet
  <2>2. phase' = "saving" => content' = h.reply
    BY <1>1, <1>5, <1>6, <2>1, ConcatEmptySeq DEF Agrees
  <2>. QED
    BY <1>1, <1>7, <2>2 DEF StoredIsRebuilt, Open
<1>11. EndIsTold'
  BY <1>1 DEF EndIsTold
<1>. QED
  BY <1>4, <1>5, <1>7, <1>9, <1>10, <1>11 DEF RelayInv

(* A cut line and the empty line that closes it; the error frame follows   *)
(* if the caller is there and the line is not [DONE].                      *)
LEMMA PartialKeeps ==
  ASSUME RelayInv, NEW l \in Line, RelayPartial(l)
  PROVE  RelayInv'
<1> DEFINE c1 == Hear(caller, l)
           c2 == Hear(c1, "blank")
           s1 == Append(out, l)
           s2 == Append(s1, "blank")
           frame == IF l = "done" THEN << >> ELSE CutFrame
<1>1. /\ phase = "reading" /\ Framed(l) /\ l # "blank"
      /\ out' = out \o << l, "blank" >> \o frame /\ caller' = HearFrame(c2, frame)
      /\ content' = (IF l \in Text THEN Append(content, l) ELSE content)
      /\ phase' = (IF l = "done" THEN "saving" ELSE "ended")
      /\ gone' = gone /\ faults' = faults /\ stored' = stored
  BY DEF RelayPartial, Collect
<1>2. /\ out \in Seq(Wire) /\ out # << >> /\ caller \in CallerSet
      /\ l \in Wire /\ l # "event_error" /\ "blank" \in Wire /\ "blank" \notin Text
      /\ Agrees /\ Open /\ content \in Seq(Text) /\ gone \in BOOLEAN /\ faults \in Nat
  BY <1>1, GatewayLines DEF RelayInv, RelayTypeOK, CallerSet, Wire
<1>3. s2 = out \o << l, "blank" >>
  <2>1. << l >> \in Seq(Wire) /\ << "blank" >> \in Seq(Wire) /\ << l >> \o << "blank" >> = << l, "blank" >>
    BY <1>2, TwoLines
  <2>2. s1 = out \o << l >> /\ s1 \in Seq(Wire)
    BY <1>2, AppendIsConcat, AppendProperties
  <2>3. s2 = s1 \o << "blank" >>
    BY <1>2, <2>2, AppendIsConcat
  <2>. QED
    BY <1>2, <2>1, <2>2, <2>3, ConcatAssociative
<1>. HIDE DEF c1, c2, s1, s2
<1>4. /\ s1 \in Seq(Wire) /\ (\E i \in 1..Len(s1) : s1[i] = l) /\ \A i \in 1..Len(s1) : s1[i] # "event_error"
  BY <1>2, LineWritten DEF Open, s1
<1>5. /\ s2 \in Seq(Wire) /\ s2 # << >> /\ s2[Len(s2)] = "blank"
      /\ (\E i \in 1..Len(s2) : s2[i] = l) /\ \A i \in 1..Len(s2) : s2[i] # "event_error"
  <2>1. /\ s2 \in Seq(Wire) /\ s2 # << >> /\ s2[Len(s2)] = "blank"
        /\ (\A i \in 1..Len(s1) : s1[i] # "event_error") /\ "blank" # "event_error"
             => \A i \in 1..Len(s2) : s2[i] # "event_error"
    BY <1>2, <1>4, LineWritten DEF s2
  <2>2. \A x : (\E i \in 1..Len(s1) : s1[i] = x) => \E i \in 1..Len(s2) : s2[i] = x
    BY <1>2, <1>4, LineWritten DEF s2
  <2>. QED
    BY <1>4, <2>1, <2>2
<1>6. /\ c1 \in CallerSet
      /\ c1.reply \o c1.text = IF l \in Text THEN Append(caller.reply \o caller.text, l)
                               ELSE caller.reply \o caller.text
      /\ c1.reports + c1.fault >= caller.reports + caller.fault
  BY <1>2, HeardOnce DEF c1
<1>7. /\ c2 \in CallerSet /\ c2.reply \o c2.text = c1.reply \o c1.text
      /\ c2.reports + c2.fault >= c1.reports + c1.fault /\ c2.text = << >> /\ c2.fault = 0
  BY <1>2, <1>6, HeardOnce DEF c2
<1>8. content' = c2.reply \o c2.text
  BY <1>1, <1>2, <1>6, <1>7 DEF Agrees
<1>9. c2.reports + c2.fault >= faults'
  <2>1. /\ caller.reports + caller.fault \in Nat /\ c1.reports + c1.fault \in Nat
        /\ c2.reports + c2.fault \in Nat
    <3>1. \A d \in CallerSet : d.reports + d.fault \in Nat
      BY DEF CallerSet
    <3>. QED
      BY <1>2, <1>6, <1>7, <3>1
  <2>2. caller.reports + caller.fault >= faults
    BY <1>2 DEF Agrees
  <2>. QED
    BY <1>1, <1>2, <1>6, <1>7, <2>1, <2>2
<1>10. stored' = {} /\ faults' \in Nat /\ gone' \in BOOLEAN
  BY <1>1, <1>2 DEF Open
<1>11. CASE frame = << >>
  <2>1. out' = s2 /\ caller' = c2
    BY <1>1, <1>3, <1>5, <1>11, ConcatEmptySeq DEF HearFrame
  <2>2. CASE l # "done"
    <3>1. gone' = TRUE /\ phase' = "ended"
      BY <1>1, <1>2, <1>11, <2>2 DEF CutFrame, ErrorFrame
    <3>. QED
      BY <1>5, <1>7, <1>8, <1>9, <1>10, <2>1, <3>1, EndsSilently
  <2>3. CASE l = "done"
    <3>1. phase' = "saving"
      BY <1>1, <2>3
    <3>2. c2.reply \in Seq(Text) /\ content' \in Seq(Text)
      BY <1>7, <1>8, ConcatProperties DEF CallerSet
    <3>3. content' = c2.reply
      BY <1>7, <1>8, <3>2, ConcatEmptySeq
    <3>4. RelayTypeOK'
      BY <1>5, <1>7, <1>10, <2>1, <3>1, <3>2 DEF RelayTypeOK, CallerSet, Wire
    <3>5. Agrees'
      BY <1>7, <1>8, <1>9, <2>1 DEF Agrees
    <3>6. Open'
      BY <1>5, <1>7, <1>10, <2>1, <2>3 DEF Open
    <3>7. StoredIsRebuilt' /\ EndIsTold'
      BY <1>10, <2>1, <3>1, <3>3 DEF StoredIsRebuilt, EndIsTold
    <3>. QED
      BY <1>5, <2>1, <3>4, <3>5, <3>6, <3>7 DEF RelayInv
  <2>. QED
    BY <2>2, <2>3
<1>12. CASE frame # << >>
  <2>1. l # "done" /\ frame = ErrorFrame
    BY <1>12 DEF CutFrame
  <2>2. out' = s2 \o ErrorFrame /\ caller' = HearFrame(c2, ErrorFrame) /\ phase' = "ended"
    BY <1>1, <1>3, <2>1
  <2>. QED
    BY <1>5, <1>7, <1>8, <1>9, <1>10, <2>2, EndsWithFrame
<1>. QED
  BY <1>11, <1>12

LEMMA EndKeeps ==
  ASSUME RelayInv, RelayEnd \/ Save \/ SaveFails \/ Leave \/ UNCHANGED relayVars
  PROVE  RelayInv'
<1>1. /\ out \in Seq(Wire) /\ out # << >> /\ caller \in CallerSet
      /\ Agrees /\ gone \in BOOLEAN /\ faults \in Nat /\ content \in Seq(Text) /\ stored \in SUBSET Seq(Text)
  BY DEF RelayInv, RelayTypeOK, CallerSet, Wire
<1>2. /\ content = caller.reply \o caller.text /\ caller.reports + caller.fault >= faults
      /\ out[Len(out)] = "blank" => caller.text = << >> /\ caller.fault = 0
  BY <1>1 DEF Agrees, Last
<1>3. CASE RelayEnd
  <2>1. /\ phase = "reading" /\ phase' = "ended" /\ out' = out \o CutFrame /\ caller' = HearFrame(caller, CutFrame)
        /\ content' = content /\ gone' = gone /\ faults' = faults /\ stored' = stored
    BY <1>3 DEF RelayEnd
  <2>2. Open /\ stored' = {} /\ \A i \in 1..Len(out) : out[i] # "event_error"
    BY <2>1 DEF RelayInv, Open
  <2>3. CASE gone
    <3>1. CutFrame = << >> /\ gone' = TRUE
      BY <1>1, <2>1, <2>3 DEF CutFrame
    <3>2. out' = out /\ caller' = caller
      BY <1>1, <2>1, <3>1, ConcatEmptySeq DEF HearFrame
    <3>. QED
      BY <1>1, <1>2, <2>1, <2>2, <3>1, <3>2, EndsSilently
  <2>4. CASE ~ gone
    <3>1. out' = out \o ErrorFrame /\ caller' = HearFrame(caller, ErrorFrame)
      BY <2>1, <2>4 DEF CutFrame
    <3>. QED
      BY <1>1, <1>2, <2>1, <2>2, <3>1, EndsWithFrame
  <2>. QED
    BY <2>3, <2>4
<1>4. CASE Save
  <2>1. phase = "saving" /\ phase' = "ended" /\ stored' = {content}
        /\ UNCHANGED << out, caller, content, gone, faults >>
    BY <1>4 DEF Save
  <2>2. Open /\ caller.text = << >> /\ caller.fault = 0 /\ content = caller.reply
        /\ \E i \in 1..Len(out) : out[i] = "done"
    BY <2>1 DEF RelayInv, Open, StoredIsRebuilt
  <2>3. RelayTypeOK' /\ Agrees'
    BY <2>1 DEF RelayInv, RelayTypeOK, Agrees, Last
  <2>4. StoredIsRebuilt'
    BY <2>1, <2>2 DEF StoredIsRebuilt
  <2>5. caller.reports >= faults
    BY <1>1, <1>2, <2>2 DEF CallerSet
  <2>6. EndIsTold'
    BY <2>1, <2>2, <2>5 DEF EndIsTold, Open
  <2>. QED
    BY <1>1, <2>1, <2>3, <2>4, <2>6 DEF RelayInv
<1>5. CASE SaveFails
  <2>1. /\ phase = "saving" /\ phase' = "ended"
        /\ out' = out \o ErrorFrame /\ caller' = HearFrame(caller, ErrorFrame)
        /\ content' = content /\ gone' = gone /\ faults' = faults /\ stored' = stored
    BY <1>5 DEF SaveFails
  <2>2. stored' = {} /\ \A i \in 1..Len(out) : out[i] # "event_error"
    BY <2>1 DEF RelayInv, Open
  <2>. QED
    BY <1>1, <1>2, <2>1, <2>2, EndsWithFrame
<1>6. CASE Leave \/ UNCHANGED relayVars
  <2>1. /\ UNCHANGED << out, caller, content, phase, faults, stored >>
        /\ gone' \in BOOLEAN /\ (phase = "ended" => gone' = gone)
    BY <1>1, <1>6 DEF Leave, relayVars
  <2>2. RelayTypeOK' /\ Agrees'
    BY <2>1 DEF RelayInv, RelayTypeOK, Agrees, Last
  <2>3. phase' # "ended" => Open'
    BY <2>1 DEF RelayInv, Open
  <2>4. StoredIsRebuilt' /\ EndIsTold'
    BY <2>1 DEF RelayInv, StoredIsRebuilt, EndIsTold
  <2>. QED
    BY <1>1, <2>1, <2>2, <2>3, <2>4 DEF RelayInv
<1>. QED
  BY <1>3, <1>4, <1>5, <1>6

(* What the theorems on the relay rest on. *)
LEMMA RelayInvHolds == RelaySpec => []RelayInv
<1>1. RelayInv /\ [RelayNext]_relayVars => RelayInv'
  BY RelayKeeps, PartialKeeps, EndKeeps DEF RelayNext, Returned
<1>. QED
  BY <1>1, RelayInvInit, PTL DEF RelaySpec

-----------------------------------------------------------------------------
(* relayStream and streamChat: the lines, what the caller makes of them    *)
(* and what is collected keep their types.                                 *)
THEOREM RelayTypeCorrect == RelaySpec => []RelayTypeOK
<1>1. RelayInv => RelayTypeOK
  BY DEF RelayInv
<1>. QED
  BY <1>1, RelayInvHolds, PTL

(* "stored history can never hold a truncated reply" as far as the code    *)
(* can see: a stream that is cut, wherever it is cut, is not stored, and   *)
(* what is stored after [DONE] is what a parser of the caller has rebuilt. *)
THEOREM StoredWasReceived == RelaySpec => []StoredIsRebuilt
<1>1. RelayInv => StoredIsRebuilt
  BY DEF RelayInv
<1>. QED
  BY <1>1, RelayInvHolds, PTL

(* writeSSEError is the last thing a caller gets of a stream that failed,  *)
(* and the only one, in the line, between lines or when saving; and a      *)
(* model's error is dispatched to the caller before a reply is stored.     *)
THEOREM CallersAreTold == RelaySpec => []EndIsTold
<1>1. RelayInv => EndIsTold
  BY DEF RelayInv
<1>. QED
  BY <1>1, RelayInvHolds, PTL
=============================================================================
