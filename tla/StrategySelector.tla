-------------------------- MODULE StrategySelector --------------------------
(***************************************************************************)
(* src/strategy_selector.go: strategies and scorers that are registered at *)
(* any time, the score of a strategy for the attributes of a transfer, and *)
(* the cache of selections, whose key groups sizes by KB and priorities by *)
(* two and leaves out whether the transfer can be delayed.  Every call     *)
(* holds the selector's lock from its first to its last statement.         *)
(*                                                                         *)
(* Left out: the reason texts, the list of alternatives, and a nil         *)
(* strategy, whose registration panics.  Scores, weights and sums do not   *)
(* overflow.                                                               *)
(***************************************************************************)
EXTENDS MessageSizer, FiniteSets, FiniteSetsExt

CONSTANTS
  Requests,   \* attributes of transfers the application asks for
  Custom,     \* strategies the application registers
  Scorers,    \* scorers of its own, each with a fixed score
  RuneSpan,   \* how many values a rune has: 2^32
  CacheSize,  \* defaultCacheSize
  CacheTTL,   \* cacheTTL
  NoAnswer,
  MaxCalls,   \* bound: calls of the selector
  MaxTime     \* bound: the time

VARIABLES
  strategies, \* in the order of their registration
  scorers,    \* by name
  cache,      \* key -> selection (selectionCache)
  total,      \* totalSelections
  hits,       \* cacheHits
  usage,      \* strategy name -> how often it was selected
  lastSelectionAt,
  answer,     \* the last selection returned, with its request
  now,        \* the time
  calls

stats == <<total, hits, usage, lastSelectionAt>>
vars == <<strategies, scorers, cache, stats, answer, now, calls>>

AllStrategies == {DefaultStrategies[i] : i \in DOMAIN DefaultStrategies} \cup Custom
Names == {s.name : s \in AllStrategies}

(* Attributes that only the key looks at (efficiency, priority in twos,    *)
(* compression, flow control) are one value, other.                        *)
Attributes == [size : Nat, reliability : BOOLEAN, realtime : BOOLEAN, canDelay : BOOLEAN,
               network : Nat, stream : BOOLEAN, other : Nat]

ASSUME AttributesAssumption == Requests \subseteq Attributes
(* A range whose end is just below its start makes the score divide by 0.  *)
ASSUME CustomAssumption ==
  \A s \in Custom : s.min \in Nat /\ s.max \in Nat /\ s.max # s.min - 1
ASSUME ScorersAssumption ==
  \A c \in Scorers : c.weight \in Int /\ c.fixed \in Int /\ ~c.own
ASSUME RuneAssumption == RuneSpan \in Nat /\ RuneSpan > 1114111
ASSUME CacheAssumption == CacheSize \in Nat /\ CacheTTL \in Nat
ASSUME BoundAssumption == MaxCalls \in Nat /\ MaxTime \in Nat

(* A selection, with the size it was made for.                             *)
Selection == [strategy : AllStrategies, params : Params, score : Int, bySize : BOOLEAN,
              size : Nat]

(* string(rune(n)): a rune is the number modulo RuneSpan, its upper half   *)
(* negative, and one that is no character becomes U+FFFD.                  *)
Rune(n) ==
  LET rune == n % RuneSpan IN
  IF rune \in 55296..57343 \/ rune > 1114111 THEN 65533 ELSE rune

Keys == [kb : Nat, reliability : BOOLEAN, realtime : BOOLEAN, network : Nat,
         stream : BOOLEAN, other : Nat]

-----------------------------------------------------------------------------
(* Faulty variants of definitions below, one per property that rests on    *)
(* them: what TLC must reject if the code had the bug.                     *)

(* The key groups sizes by two KB.                                         *)
CacheKey_Coarse(attrs) ==
  [kb |-> Rune(attrs.size \div 2048), reliability |-> attrs.reliability,
   realtime |-> attrs.realtime, network |-> Rune(attrs.network), stream |-> attrs.stream,
   other |-> attrs.other]

(* The entries are compared with the selection before this one, whose time *)
(* is not replaced yet.                                                    *)
CleanupCache_Early(entries, last) ==
  [k \in {k \in DOMAIN entries : now - lastSelectionAt <= CacheTTL} |-> entries[k]]

-----------------------------------------------------------------------------
(* The score of a strategy for a request.                                  *)

Abs(n) == IF n < 0 THEN -n ELSE n
AtMost(n, max) == IF n > max THEN max ELSE n
AtLeast(n, min) == IF n < min THEN min ELSE n

(* (n * 40) \div d, without a product beyond the integers of TLC.          *)
Forty(n, d) == (n \div d) * 40 + ((n % d) * 40) \div d

SizeScoreInside(s, size) ==
  IF s.max = 0 THEN IF size >= 2 * s.min THEN 100
                    ELSE 80 + ((size - s.min) * 20) \div s.min
  ELSE AtLeast(100 - Forty(Abs(size - (s.min + (s.max - s.min) \div 2)), s.max - s.min), 60)

(* Without an upper bound the divisor is negative: the score then grows    *)
(* with the distance, from 40 on.                                          *)
SizeScoreOutside(s, size) ==
  LET distance == IF size < s.min THEN s.min - size ELSE size - s.max
      divisor  == s.max - s.min + 1
  IN IF divisor < 0 THEN 40 + Forty(distance, -divisor)
     ELSE AtLeast(40 - Forty(distance, divisor), 0)

SizeScore(s, a) ==
  IF Covers(s, a.size) THEN SizeScoreInside(s, a.size) ELSE SizeScoreOutside(s, a.size)

ByName(s, tiny, small, medium, large, huge, other) ==
  CASE s.name = Tiny.name   -> tiny
    [] s.name = Small.name  -> small
    [] s.name = Medium.name -> medium
    [] s.name = Large.name  -> large
    [] s.name = Huge.name   -> huge
    [] OTHER                -> other

(* A requirement lowers what scores below 80 and raises the rest.          *)
Stressed(score, required) ==
  IF ~required THEN score ELSE IF score < 80 THEN score - 20 ELSE AtMost(score + 10, 100)

ReliabilityScore(s, a) == Stressed(ByName(s, 60, 70, 85, 90, 95, 75), a.reliability)

RealtimeScore(s, a) ==
  LET score == Stressed(ByName(s, 95, 90, 80, 70, 50, 75), a.realtime) IN
  IF a.canDelay THEN AtMost(score + 10, 100) ELSE score

(* Small messages for bad networks, large ones for good networks.          *)
NetworkScore(s, a) ==
  CASE a.network \in {0, 1} -> ByName(s, 90, 90, 70, 40, 40, 75)
    [] a.network \in {2, 3} -> ByName(s, 70, 85, 85, 75, 60, 75)
    [] a.network \in {4, 5} -> ByName(s, 60, 70, 85, 95, 95, 75)
    [] OTHER                -> 75

(* A scorer of the selector's own has no fixed score.                      *)
Scorer(name, weight) == [name |-> name, weight |-> weight, own |-> TRUE, fixed |-> 0]
DefaultScorers ==
  {Scorer("SizeBasedScorer", 5), Scorer("ReliabilityScorer", 3), Scorer("RealtimeScorer", 3),
   Scorer("NetworkConditionScorer", 4)}

ScoreStrategy(scorer, s, a) ==
  CASE ~scorer.own -> scorer.fixed
    [] scorer = Scorer("SizeBasedScorer", 5) -> SizeScore(s, a)
    [] scorer = Scorer("ReliabilityScorer", 3) -> ReliabilityScore(s, a)
    [] scorer = Scorer("RealtimeScorer", 3) -> RealtimeScore(s, a)
    [] scorer = Scorer("NetworkConditionScorer", 4) -> NetworkScore(s, a)

(* Go's division: towards 0.                                               *)
Quotient(n, d) ==
  LET q == Abs(n) \div Abs(d) IN IF n < 0 <=> d < 0 THEN q ELSE -q

(* The weighted mean; when the weights add up to 0, as the application's   *)
(* may, all that counts is whether the strategy is for the size.           *)
EvaluateStrategy(s, a) ==
  LET Weighted(c) == ScoreStrategy(c, s, a) * c.weight
      Weight(c) == c.weight
      totalScore  == MapThenSumSet(Weighted, scorers)
      totalWeight == MapThenSumSet(Weight, scorers)
  IN IF totalWeight # 0 THEN Quotient(totalScore, totalWeight)
     ELSE IF Covers(s, a.size) THEN 80 ELSE 30

(* The first of the strategies with the highest score.                     *)
Best(a) ==
  LET score == [i \in DOMAIN strategies |-> EvaluateStrategy(strategies[i], a)] IN
  CHOOSE i \in DOMAIN strategies :
    \A j \in DOMAIN strategies : score[j] < score[i] \/ (score[j] = score[i] /\ i <= j)

(* The parameters for the size, adjusted to the requirements.              *)
AdjustedParams(a) ==
  LET params == OptimizeParams(a.size) IN
  [params EXCEPT !.retries = IF a.reliability THEN 5 ELSE @,
                 !.noBlockDelay = a.realtime,
                 !.timeout = IF a.realtime THEN 10 ELSE @,
                 !.chunking = a.stream \/ @]

-----------------------------------------------------------------------------

CacheKey(attrs) ==
  [kb |-> Rune(attrs.size \div 1024), reliability |-> attrs.reliability,
   realtime |-> attrs.realtime, network |-> Rune(attrs.network), stream |-> attrs.stream,
   other |-> attrs.other]

Init ==
  /\ strategies = <<>>
  /\ scorers = DefaultScorers
  /\ cache = <<>>
  /\ total = 0 /\ hits = 0 /\ usage = [n \in Names |-> 0]
  /\ lastSelectionAt = 0
  /\ answer = NoAnswer
  /\ now = 0
  /\ calls = 0

Count == calls < MaxCalls /\ calls' = calls + 1 /\ UNCHANGED now

Return(a, selection) ==
  /\ answer' = [attrs |-> a, selection |-> selection]
  /\ total' = total + 1
  /\ lastSelectionAt' = now
  /\ usage' = [usage EXCEPT ![selection.strategy.name] = @ + 1]
  /\ UNCHANGED <<strategies, scorers>>

Hit(a) ==
  /\ Count
  /\ CacheKey(a) \in DOMAIN cache
  /\ hits' = hits + 1
  /\ Return(a, cache[CacheKey(a)])
  /\ UNCHANGED cache

(* What is computed is cached under the key of its request.                *)
Entries(a, selection) ==
  [k \in DOMAIN cache \cup {CacheKey(a)} |->
    IF k \in DOMAIN cache THEN cache[k] ELSE selection]

Computed(a, selection) ==
  /\ Count
  /\ CacheKey(a) \notin DOMAIN cache
  /\ Return(a, selection)
  /\ UNCHANGED hits

(* Without any strategy the message sizer chooses, for the size alone.     *)
BySize(a) ==
  [strategy |-> SelectStrategy(DefaultStrategies, a.size), params |-> OptimizeParams(a.size),
   score |-> 75, bySize |-> TRUE, size |-> a.size]

SelectBySize(a) ==
  /\ strategies = <<>>
  /\ Computed(a, BySize(a))
  /\ cache' = Entries(a, BySize(a))

(* cleanupCache, when the last selection was made at the given time: the   *)
(* age of every entry is taken from that time.                             *)
CleanupCache(entries, last) ==
  [k \in {k \in DOMAIN entries : now - last <= CacheTTL} |-> entries[k]]

ByScore(a) ==
  LET best == strategies[Best(a)] IN
  [strategy |-> best, params |-> AdjustedParams(a), score |-> EvaluateStrategy(best, a),
   bySize |-> FALSE, size |-> a.size]

(* The cleanup comes after the statistics, in the same call.               *)
SelectByScore(a) ==
  LET entries == Entries(a, ByScore(a)) IN
  /\ strategies # <<>>
  /\ Computed(a, ByScore(a))
  /\ cache' = IF Cardinality(DOMAIN entries) > CacheSize
               THEN CleanupCache(entries, lastSelectionAt') ELSE entries

(* Faulty variant of RegisterStrategy: the name is not looked for.         *)
RegisterStrategy_Twice(s) ==
  /\ Count
  /\ strategies' = Append(strategies, s)
  /\ UNCHANGED <<scorers, cache, stats, answer>>

(* A strategy takes the place of one with the same name; the cache keeps   *)
(* what was selected before.                                               *)
RegisterStrategy(s) ==
  /\ Count
  /\ strategies' = IF \E i \in DOMAIN strategies : strategies[i].name = s.name
                   THEN [i \in DOMAIN strategies |->
                           IF strategies[i].name = s.name THEN s ELSE strategies[i]]
                   ELSE Append(strategies, s)
  /\ UNCHANGED <<scorers, cache, stats, answer>>

RegisterScorer(c) ==
  /\ Count
  /\ scorers' = {d \in scorers : d.name # c.name} \cup {c}
  /\ UNCHANGED <<strategies, cache, stats, answer>>

TimePasses ==
  /\ now < MaxTime
  /\ now' = now + 1
  /\ UNCHANGED <<strategies, scorers, cache, stats, answer, calls>>

Next ==
  \/ \E a \in Requests : Hit(a) \/ SelectBySize(a) \/ SelectByScore(a)
  \/ \E s \in AllStrategies : RegisterStrategy(s)
  \/ \E c \in Scorers : RegisterScorer(c)
  \/ TimePasses

Spec == Init /\ [][Next]_vars

-----------------------------------------------------------------------------

(* Registered strategies are strategies, each name once; what was selected *)
(* is one of them or a default one; the times and counts are natural       *)
(* numbers, and so every score is an integer, whatever the weights.        *)
TypeOK ==
  /\ strategies \in Seq(AllStrategies)
  /\ \A i, j \in DOMAIN strategies : strategies[i].name = strategies[j].name => i = j
  /\ scorers \subseteq DefaultScorers \cup Scorers
  /\ DOMAIN cache \subseteq Keys /\ \A k \in DOMAIN cache : cache[k] \in Selection
  /\ total \in Nat /\ hits \in Nat /\ usage \in [Names -> Nat] /\ lastSelectionAt \in Nat
  /\ answer # NoAnswer => answer.attrs \in Requests /\ answer.selection \in Selection
  /\ now \in 0..MaxTime /\ calls \in 0..MaxCalls

(* Every call that was no hit left an entry in the cache that is still     *)
(* there, and no strategy was used less than it is cached: however full    *)
(* and however old the cache is, the cleanup removes nothing, because it   *)
(* runs after the time it compares with has been set to now.               *)
CacheLedger ==
  /\ total = hits + Cardinality(DOMAIN cache)
  /\ \A n \in Names :
       Cardinality({k \in DOMAIN cache : cache[k].strategy.name = n}) <= usage[n]

(* The number of KB is a rune of its own.                                  *)
InSpan(size) == size \div 1024 < RuneSpan

(* A selection from the cache was made for another request, maybe before   *)
(* strategies were registered.  Its parameters are those this request      *)
(* would have got in its place at that time: for its size alone when there *)
(* was no strategy, even though it would get adjusted ones by now, and     *)
(* adjusted to its requirements otherwise.  A strategy chosen by size      *)
(* covers this size.  So the grouping of the key never joins requests that *)
(* differ in that, but for sizes of 4 TiB and more, whose numbers of KB    *)
(* wrap around to those of small ones.                                     *)
CachedFits ==
  answer # NoAnswer =>
    LET a == answer.attrs  s == answer.selection IN
    InSpan(a.size) /\ InSpan(s.size) =>
      IF s.bySize THEN s.params = OptimizeParams(a.size) /\ Covers(s.strategy, a.size)
      ELSE s.params = AdjustedParams(a)

=============================================================================
