----------------------------- MODULE RateLimit -----------------------------
(***************************************************************************)
(* internal/ratelimit: one token bucket per key (a client address for the  *)
(* login endpoint, an api key for the gateway), created at the key's first *)
(* request and forgotten by a lazy sweep when it has not been used for     *)
(* staleAfter.  allow runs under the mutex, so a request is one step.      *)
(*                                                                         *)
(* Time is counted in units of which a bucket earns one token every        *)
(* Interval (60 s / RequestsPerMinute); tokens are counted in the same     *)
(* units, so a request costs Interval and a full bucket holds              *)
(* Burst * Interval.  golang.org/x/time/rate is external: a limiter starts *)
(* full and earns while time passes, up to its burst.                      *)
(***************************************************************************)
EXTENDS Integers

CONSTANTS Key, Interval, Burst, StaleAfter, MaxTime

ASSUME RateAssumption ==
  /\ Interval \in Nat \ {0} /\ Burst \in Nat /\ StaleAfter \in Nat \ {0} /\ MaxTime \in Nat

Full == Burst * Interval

(* A bucket is forgotten only after the time that fills it: Burst is at    *)
(* most ten minutes' worth of tokens, as in every default of config.Load.  *)
ASSUME SweepAssumption == Full <= StaleAfter

VARIABLES
  now,
  present,   \* the keys of the buckets map
  tokens,    \* the tokens of a bucket when it was last looked at
  seen,      \* when that was; for an absent key both are meaningless
  lastSweep,
  ideal,     \* auxiliary: the tokens of a bucket per key that is never swept, at all times
  denied,    \* auxiliary: how long ago the key was refused, if it got nothing since; -1 for no refusal
  since,     \* auxiliary: when an observer begins to count what is admitted; any time
  spent      \* auxiliary: the tokens of the requests admitted from then on

vars == << now, present, tokens, seen, lastSweep, ideal, denied, since, spent >>

TypeOK ==
  /\ now \in Nat
  /\ present \in SUBSET Key
  /\ tokens \in [Key -> 0..Full]
  /\ seen \in [Key -> Nat]
  /\ lastSweep \in Int
  /\ ideal \in [Key -> 0..Full]
  /\ denied \in [Key -> Nat \cup {-1}]
  /\ since \in Nat
  /\ spent \in [Key -> Nat]

(* The zero time of lastSwep is long ago: the first request sweeps. *)
Init ==
  /\ now = 0
  /\ present = {}
  /\ tokens = [k \in Key |-> 0]
  /\ seen = [k \in Key |-> 0]
  /\ lastSweep = 0 - StaleAfter
  /\ ideal = [k \in Key |-> Full]
  /\ denied = [k \in Key |-> -1]
  /\ since \in 0..MaxTime
  /\ spent = [k \in Key |-> 0]

Cap(n) == IF n > Full THEN Full ELSE n

(* rate.Limiter: what a bucket holds now. *)
Earned(k) == Cap(tokens[k] + (now - seen[k]))

(* sweep: at most once in staleAfter, the buckets unused for longer go. *)
Sweeps == now - lastSweep >= StaleAfter
(* Mutant: A sweep that forgets buckets after half of staleAfter. *)
KeptHalf ==
  IF Sweeps THEN {k \in present : now - seen[k] <= StaleAfter \div 2} ELSE present

Kept == IF Sweeps THEN {k \in present : now - seen[k] <= StaleAfter} ELSE present

(* The bucket that allow finds or creates. *)
Found(k) == IF k \in Kept THEN Earned(k) ELSE Full

(* allow(k), admitted or refused. *)
Allows(k) == Found(k) >= Interval

(* Mutant: Reserve taken for Allow: a refused request pays what there is. *)
AllowReserving(k) ==
  /\ present' = Kept \cup {k}
  /\ lastSweep' = IF Sweeps THEN now ELSE lastSweep
  /\ seen' = [seen EXCEPT ![k] = now]
  /\ tokens' = [tokens EXCEPT ![k] = IF Allows(k) THEN Found(k) - Interval ELSE 0]
  /\ ideal' = [ideal EXCEPT ![k] = IF Allows(k) THEN @ - Interval ELSE 0]
  /\ denied' = [denied EXCEPT ![k] = IF Allows(k) THEN -1 ELSE IF @ = -1 THEN 0 ELSE @]
  /\ spent' = [spent EXCEPT ![k] = IF Allows(k) /\ now >= since THEN @ + Interval ELSE @]
  /\ UNCHANGED << now, since >>

Allow(k) ==
  /\ present' = Kept \cup {k}
  /\ lastSweep' = IF Sweeps THEN now ELSE lastSweep
  /\ seen' = [seen EXCEPT ![k] = now]
  /\ tokens' = [tokens EXCEPT ![k] = IF Allows(k) THEN Found(k) - Interval ELSE Found(k)]
  /\ ideal' = [ideal EXCEPT ![k] = IF Allows(k) THEN @ - Interval ELSE @]
  /\ denied' = [denied EXCEPT ![k] = IF Allows(k) THEN -1 ELSE IF @ = -1 THEN 0 ELSE @]
  /\ spent' = [spent EXCEPT ![k] = IF Allows(k) /\ now >= since THEN @ + Interval ELSE @]
  /\ UNCHANGED << now, since >>

Tick ==
  /\ now < MaxTime
  /\ now' = now + 1
  /\ ideal' = [k \in Key |-> Cap(ideal[k] + 1)]
  /\ denied' = [k \in Key |-> IF denied[k] = -1 THEN -1 ELSE denied[k] + 1]
  /\ UNCHANGED << present, tokens, seen, lastSweep, since, spent >>

Next == Tick \/ \E k \in Key : Allow(k)

Spec == Init /\ [][Next]_vars

-----------------------------------------------------------------------------
(* What a limit of Burst and one per Interval promises: over any stretch   *)
(* of time, from since to now, a key is admitted at most Burst times plus  *)
(* once per Interval, however it spaces its requests around the sweeps of  *)
(* limiterSet, which forget what it has spent.                             *)
RateIsBounded ==
  now >= since => \A k \in Key : spent[k] <= Full + (now - since)

(* Forgetting a bucket gives nothing away: the bucket allow finds, or      *)
(* creates anew for a forgotten key, holds exactly what one that is never  *)
(* forgotten would.                                                        *)
SweepIsInvisible == \A k \in Key : Found(k) = ideal[k]

(* retryAfter is honest: a key refused once and idle for an Interval is    *)
(* admitted next, unless the burst is zero and nothing ever is.            *)
RetryAfterWorks ==
  Burst > 0 => \A k \in Key : denied[k] >= Interval => Allows(k)

(* The invariant behind them. *)
BucketsAgree ==
  /\ \A k \in present : seen[k] <= now /\ ideal[k] = Earned(k)
  /\ \A k \in Key \ present : ideal[k] = Full

DenialsEarn ==
  \A k \in Key : denied[k] >= 0 => ideal[k] >= Cap(denied[k])

(* What a key has spent and what it has left were in the bucket when the   *)
(* count began, or were earned since.                                      *)
NothingIsSpentTwice ==
  /\ now >= since => \A k \in Key : spent[k] + ideal[k] <= Full + (now - since)
  /\ now < since => \A k \in Key : spent[k] = 0

RateInv == TypeOK /\ BucketsAgree /\ DenialsEarn /\ NothingIsSpentTwice
=============================================================================
