--------------------------- MODULE Resources_proofs ---------------------------
(***************************************************************************)
(* Proofs about what sizes the transfers and what accounts for their       *)
(* memory: StrategySelector, for any requests, strategies, scorers and     *)
(* sizes, and, in the last part, MemoryManager, for any calls of Start and *)
(* Stop, any sizes and any limit.  The theorems about one of them say      *)
(* nothing of the other's variables.                                       *)
(***************************************************************************)
EXTENDS StrategySelector, MemoryManager, FiniteSetTheorems, WellFoundedInduction, TLAPS

-----------------------------------------------------------------------------
(* The key of the cache.                                                   *)

Defaults == {Tiny, Small, Medium, Large, Huge}

(* The thresholds of the sizer, in bytes.                                  *)
LEMMA Thresholds ==
  /\ TinyMessageSize = 1024 /\ SmallMessageSize = 16384
  /\ MediumMessageSize = 131072 /\ LargeMessageSize = 1048576
BY DEF TinyMessageSize, SmallMessageSize, MediumMessageSize, LargeMessageSize

(* Two sizes fall between the same thresholds.                             *)
SameRange(m, n) ==
  /\ m < 1024 <=> n < 1024
  /\ m < 16384 <=> n < 16384
  /\ m < 131072 <=> n < 131072
  /\ m < 1048576 <=> n < 1048576

(* Sizes whose numbers of KB give the same character without wrapping      *)
(* around do so: a number that is no character is one of many MB.          *)
LEMMA SameRune ==
  ASSUME NEW m \in Nat, NEW n \in Nat, InSpan(m), InSpan(n),
         Rune(m \div 1024) = Rune(n \div 1024)
  PROVE  SameRange(m, n)
<1>1. PICK j \in Nat, k \in Nat : j = m \div 1024 /\ k = n \div 1024
  OBVIOUS
<1>2. /\ 1024 * j <= m /\ m < 1024 * j + 1024
      /\ 1024 * k <= n /\ n < 1024 * k + 1024
  BY <1>1
<1>3. j = k \/ (j >= 55296 /\ k >= 55296)
  <2>1. PICK r \in Nat \ {0} : r = RuneSpan
    BY RuneAssumption
  <2>2. j < r /\ k < r
    BY <1>1, <2>1 DEF InSpan
  <2>3. j % r = j /\ k % r = k
    BY <2>2
  <2>4. /\ Rune(j) = IF j \in 55296..57343 \/ j > 1114111 THEN 65533 ELSE j
        /\ Rune(k) = IF k \in 55296..57343 \/ k > 1114111 THEN 65533 ELSE k
    BY <2>1, <2>3 DEF Rune
  <2> QED BY <1>1, <2>4
<1>4. CASE j = k
  BY <1>2, <1>4 DEF SameRange
<1>5. CASE j >= 55296 /\ k >= 55296
  BY <1>2, <1>5 DEF SameRange
<1> QED BY <1>3, <1>4, <1>5

(* In one range one default strategy covers a size, with one set of        *)
(* parameters.                                                             *)
LEMMA SameStrategy ==
  ASSUME NEW m \in Nat, NEW n \in Nat, SameRange(m, n)
  PROVE  /\ OptimizeParams(m) = OptimizeParams(n)
         /\ \A s \in Defaults : Covers(s, m) <=> Covers(s, n)
<1>1. OptimizeParams(m) = OptimizeParams(n)
  BY Thresholds DEF SameRange, OptimizeParams
<1>2. ASSUME NEW s \in Defaults PROVE Covers(s, m) <=> Covers(s, n)
  BY <1>2, Thresholds
     DEF Defaults, SameRange, Covers, Strategy, Tiny, Small, Medium, Large, Huge
<1> QED BY <1>1, <1>2

(* The sizer chooses a default strategy that covers the size.              *)
LEMMA SizerCovers ==
  ASSUME NEW size \in Nat
  PROVE  /\ SelectStrategy(DefaultStrategies, size) \in Defaults
         /\ Covers(SelectStrategy(DefaultStrategies, size), size)
<1> DEFINE D == DefaultStrategies
           covering == {i \in DOMAIN D : Covers(D[i], size)}
<1>1. /\ DOMAIN D = 1..5
      /\ D[1] = Tiny /\ D[2] = Small /\ D[3] = Medium /\ D[4] = Large /\ D[5] = Huge
  BY DEF DefaultStrategies
<1>2. \A i \in 1..5 : D[i] \in Defaults
  BY <1>1 DEF Defaults
<1>3. \E i \in 1..5 : Covers(D[i], size)
  <2>1. \/ Covers(Tiny, size) \/ Covers(Small, size) \/ Covers(Medium, size)
        \/ Covers(Large, size) \/ Covers(Huge, size)
    BY Thresholds DEF Covers, Strategy, Tiny, Small, Medium, Large, Huge
  <2> HIDE DEF D
  <2> QED BY <1>1, <2>1
<1>4. SelectStrategy(D, size)
        = IF covering = {} THEN D[Len(D)]
          ELSE D[CHOOSE i \in covering : \A j \in covering : i <= j]
  BY DEF SelectStrategy
<1> HIDE DEF D
<1>5. covering # {} /\ covering \subseteq 1..5
  BY <1>1, <1>3
<1>6. \E i \in covering : \A j \in covering : i <= j
  <2> HIDE DEF covering
  <2>1. CASE 1 \in covering
    BY <1>5, <2>1
  <2>2. CASE 1 \notin covering /\ 2 \in covering
    BY <1>5, <2>2
  <2>3. CASE 1 \notin covering /\ 2 \notin covering /\ 3 \in covering
    BY <1>5, <2>3
  <2>4. CASE 1 \notin covering /\ 2 \notin covering /\ 3 \notin covering /\ 4 \in covering
    BY <1>5, <2>4
  <2>5. CASE 1 \notin covering /\ 2 \notin covering /\ 3 \notin covering /\ 4 \notin covering
    <3>1. 1..5 = {1, 2, 3, 4, 5}
      OBVIOUS
    <3>2. \A i \in covering : i = 5
      BY <1>5, <2>5, <3>1
    <3>3. 5 \in covering
      BY <1>5, <3>2
    <3> QED BY <3>2, <3>3
  <2> QED BY <2>1, <2>2, <2>3, <2>4, <2>5
<1>7. PICK i \in covering : SelectStrategy(D, size) = D[i]
  <2> HIDE DEF covering
  <2> QED BY <1>4, <1>5, <1>6
<1> QED BY <1>1, <1>2, <1>7 DEF D

-----------------------------------------------------------------------------
(* Cached selections fit.                                                  *)

(* What a selection for a must be.                                         *)
Fits(s, a) ==
  IF s.bySize THEN s.params = OptimizeParams(a.size) /\ Covers(s.strategy, a.size)
  ELSE s.params = AdjustedParams(a)

(* Every cached selection was computed for a request with its key.         *)
CacheInv ==
  /\ now \in Nat
  /\ \A k \in DOMAIN cache :
       /\ cache[k].bySize => cache[k].strategy \in Defaults
       /\ \E a \in Requests : k = CacheKey(a) /\ Fits(cache[k], a) /\ cache[k].size = a.size
  /\ CachedFits

(* Each entry was compared with the time of the selection that has just    *)
(* been made, so the cleanup leaves all of them.                           *)
LEMMA NothingExpires ==
  ASSUME now \in Nat, NEW a \in Requests, SelectByScore(a)
  PROVE  Computed(a, ByScore(a)) /\ cache' = Entries(a, ByScore(a))
<1>1. Computed(a, ByScore(a)) /\ lastSelectionAt' = now
  BY DEF SelectByScore, Computed, Return
<1>2. now - lastSelectionAt' <= CacheTTL
  BY <1>1, CacheAssumption
<1>3. CleanupCache(Entries(a, ByScore(a)), lastSelectionAt')
        = [k \in DOMAIN Entries(a, ByScore(a)) |-> Entries(a, ByScore(a))[k]]
  BY <1>2 DEF CleanupCache
<1>4. Entries(a, ByScore(a))
        = [k \in DOMAIN Entries(a, ByScore(a)) |-> Entries(a, ByScore(a))[k]]
  BY DEF Entries
<1> QED BY <1>1, <1>3, <1>4 DEF SelectByScore

(* A selection that fits a request fits all that share its key.            *)
LEMMA SameKeyFits ==
  ASSUME NEW a \in Requests, NEW b \in Requests, CacheKey(a) = CacheKey(b),
         InSpan(a.size), InSpan(b.size),
         NEW s, s.bySize => s.strategy \in Defaults, Fits(s, a)
  PROVE  Fits(s, b)
<1>1. a \in Attributes /\ b \in Attributes
  BY AttributesAssumption
<1>2. a.size \in Nat /\ b.size \in Nat
  BY <1>1 DEF Attributes
<1>3. /\ Rune(a.size \div 1024) = Rune(b.size \div 1024)
      /\ a.reliability = b.reliability /\ a.realtime = b.realtime /\ a.stream = b.stream
  BY DEF CacheKey
<1>4. SameRange(a.size, b.size)
  BY <1>2, <1>3, SameRune
<1>5. /\ OptimizeParams(a.size) = OptimizeParams(b.size)
      /\ \A d \in Defaults : Covers(d, a.size) <=> Covers(d, b.size)
  BY <1>2, <1>4, SameStrategy
<1>6. AdjustedParams(a) = AdjustedParams(b)
  BY <1>3, <1>5 DEF AdjustedParams
<1> QED BY <1>5, <1>6 DEF Fits

(* The last answer fits its request when the selection does.               *)
LEMMA ReturnFits ==
  ASSUME NEW a, NEW s, Return(a, s), InSpan(a.size) /\ InSpan(s.size) => Fits(s, a)
  PROVE  CachedFits'
<1>1. answer' = [attrs |-> a, selection |-> s]
  BY DEF Return
<1>2. answer'.attrs = a /\ answer'.selection = s
  BY <1>1
<1> QED BY <1>2 DEF CachedFits, Fits

(* A selection that is computed fits, and is cached for its key.           *)
LEMMA ComputedFits ==
  ASSUME CacheInv, NEW a \in Requests, NEW s, Computed(a, s), cache' = Entries(a, s),
         Fits(s, a), s.size = a.size, s.bySize => s.strategy \in Defaults
  PROVE  CacheInv'
<1>1. /\ Return(a, s) /\ DOMAIN cache' = DOMAIN cache \cup {CacheKey(a)}
      /\ \A k \in DOMAIN cache' : cache'[k] = IF k \in DOMAIN cache THEN cache[k] ELSE s
  BY DEF Computed, Entries
<1>2. CachedFits'
  BY <1>1, ReturnFits
<1>3. ASSUME NEW k \in DOMAIN cache'
      PROVE  /\ cache'[k].bySize => cache'[k].strategy \in Defaults
             /\ \E b \in Requests :
                  k = CacheKey(b) /\ Fits(cache'[k], b) /\ cache'[k].size = b.size
  <2>1. CASE k \in DOMAIN cache
    <3>1. cache'[k] = cache[k]
      BY <1>1, <2>1
    <3> QED BY <2>1, <3>1 DEF CacheInv
  <2>2. CASE k \notin DOMAIN cache
    <3>1. cache'[k] = s /\ k = CacheKey(a)
      BY <1>1, <1>3, <2>2
    <3> QED BY <3>1
  <2> QED BY <2>1, <2>2
<1>4. now' \in Nat
  BY DEF Computed, Count, CacheInv
<1> QED BY <1>2, <1>3, <1>4 DEF CacheInv

(* Every step keeps the cached selections fitting.                         *)
LEMMA NextCacheInv == CacheInv /\ [Next]_vars => CacheInv'
<1> SUFFICES ASSUME CacheInv, [Next]_vars PROVE CacheInv'
  OBVIOUS
<1>1. ASSUME NEW a \in Requests, Hit(a) PROVE CacheInv'
  <2>1. /\ CacheKey(a) \in DOMAIN cache /\ Return(a, cache[CacheKey(a)]) /\ cache' = cache
        /\ now' = now
    BY <1>1 DEF Hit, Count
  <2>2. PICK b \in Requests : /\ CacheKey(a) = CacheKey(b) /\ Fits(cache[CacheKey(a)], b)
                              /\ cache[CacheKey(a)].size = b.size
    BY <2>1 DEF CacheInv
  <2>3. cache[CacheKey(a)].bySize => cache[CacheKey(a)].strategy \in Defaults
    BY <2>1 DEF CacheInv
  <2>4. InSpan(a.size) /\ InSpan(cache[CacheKey(a)].size) => Fits(cache[CacheKey(a)], a)
    BY <2>2, <2>3, SameKeyFits
  <2>5. CachedFits'
    BY <2>1, <2>4, ReturnFits
  <2> QED BY <2>1, <2>5 DEF CacheInv
<1>2. ASSUME NEW a \in Requests, SelectBySize(a) PROVE CacheInv'
  <2>1. Computed(a, BySize(a)) /\ cache' = Entries(a, BySize(a))
    BY <1>2 DEF SelectBySize
  <2>2. a.size \in Nat
    BY AttributesAssumption DEF Attributes
  <2>3. BySize(a).strategy \in Defaults /\ Fits(BySize(a), a) /\ BySize(a).size = a.size
    BY <2>2, SizerCovers DEF Fits, BySize
  <2> QED BY <2>1, <2>3, ComputedFits
<1>3. ASSUME NEW a \in Requests, SelectByScore(a) PROVE CacheInv'
  <2>1. Computed(a, ByScore(a)) /\ cache' = Entries(a, ByScore(a))
    BY <1>3, NothingExpires DEF CacheInv
  <2>2. ~ByScore(a).bySize /\ Fits(ByScore(a), a) /\ ByScore(a).size = a.size
    BY DEF Fits, ByScore
  <2> QED BY <2>1, <2>2, ComputedFits
<1>4. CASE \/ \E s \in AllStrategies : RegisterStrategy(s)
           \/ \E c \in Scorers : RegisterScorer(c)
           \/ TimePasses
  BY <1>4 DEF RegisterStrategy, RegisterScorer, TimePasses, Count, CacheInv, CachedFits
<1>5. CASE UNCHANGED vars
  BY <1>5 DEF vars, CacheInv, CachedFits
<1> QED BY <1>1, <1>2, <1>3, <1>4, <1>5 DEF Next

-----------------------------------------------------------------------------
(* The ledger of the cache.                                                *)

(* The keys under which a strategy is cached.                              *)
Of(c, n) == {k \in DOMAIN c : c[k].strategy.name = n}

LedgerInv ==
  /\ IsFiniteSet(DOMAIN cache) /\ now \in Nat
  /\ total \in Nat /\ hits \in Nat /\ usage \in [Names -> Nat]
  /\ total = hits + Cardinality(DOMAIN cache)
  /\ \A n \in Names : Cardinality(Of(cache, n)) <= usage[n]

(* Adding one key to a finite set.                                         *)
LEMMA OneMore ==
  ASSUME NEW S, NEW k, IsFiniteSet(S), k \notin S
  PROVE  /\ IsFiniteSet(S \cup {k}) /\ Cardinality(S) \in Nat
         /\ Cardinality(S \cup {k}) = Cardinality(S) + 1
BY FS_AddElement, FS_CardinalityType

(* Using a strategy once more, whatever its name.                          *)
LEMMA UsedOnce ==
  ASSUME usage \in [Names -> Nat], NEW m, usage' = [usage EXCEPT ![m] = @ + 1]
  PROVE  /\ usage' \in [Names -> Nat]
         /\ \A n \in Names : usage'[n] = IF n = m THEN usage[n] + 1 ELSE usage[n]
<1>1. CASE m \in Names
  BY <1>1
<1>2. CASE m \notin Names
  <2>1. usage' = usage
    BY <1>2
  <2> QED BY <1>2, <2>1
<1> QED BY <1>1, <1>2

(* A hit adds to the total, the hits and the usage, not to the cache.      *)
LEMMA HitLedger ==
  ASSUME LedgerInv, NEW a, Hit(a)
  PROVE  LedgerInv'
<1> DEFINE m == cache[CacheKey(a)].strategy.name
<1>1. /\ hits' = hits + 1 /\ total' = total + 1 /\ cache' = cache
      /\ usage' = [usage EXCEPT ![m] = @ + 1] /\ now' = now
  BY DEF Hit, Return, Count
<1> HIDE DEF m
<1>2. /\ usage \in [Names -> Nat] /\ total \in Nat /\ hits \in Nat /\ IsFiniteSet(DOMAIN cache)
      /\ now \in Nat
  BY DEF LedgerInv
<1>3. /\ usage' \in [Names -> Nat]
      /\ \A n \in Names : usage'[n] = IF n = m THEN usage[n] + 1 ELSE usage[n]
  BY <1>1, <1>2, UsedOnce
<1>4. Cardinality(DOMAIN cache) \in Nat /\ total = hits + Cardinality(DOMAIN cache)
  BY <1>2, FS_CardinalityType DEF LedgerInv
<1>5. total' \in Nat /\ hits' \in Nat /\ total' = hits' + Cardinality(DOMAIN cache)
  BY <1>1, <1>2, <1>4
<1>6. ASSUME NEW n \in Names PROVE Cardinality(Of(cache, n)) <= usage'[n]
  <2>1. Of(cache, n) \subseteq DOMAIN cache
    BY DEF Of
  <2>2. Cardinality(Of(cache, n)) \in Nat
    BY <1>2, <2>1, FS_Subset, FS_CardinalityType
  <2>3. Cardinality(Of(cache, n)) <= usage[n] /\ usage[n] \in Nat
    BY <1>2 DEF LedgerInv
  <2> QED BY <1>3, <2>2, <2>3
<1> QED BY <1>1, <1>2, <1>3, <1>5, <1>6 DEF LedgerInv, Of

(* A computed selection adds one entry to the cache.                       *)
LEMMA ComputedLedger ==
  ASSUME LedgerInv, NEW a, NEW s, Computed(a, s), cache' = Entries(a, s)
  PROVE  LedgerInv'
<1> DEFINE m == s.strategy.name  key == CacheKey(a)
<1>1. /\ hits' = hits /\ total' = total + 1 /\ key \notin DOMAIN cache
      /\ DOMAIN cache' = DOMAIN cache \cup {key}
      /\ \A k \in DOMAIN cache' : cache'[k] = IF k \in DOMAIN cache THEN cache[k] ELSE s
      /\ usage' = [usage EXCEPT ![m] = @ + 1] /\ now' = now
  BY DEF Computed, Return, Count, Entries
<1>2. /\ usage \in [Names -> Nat] /\ total \in Nat /\ hits \in Nat /\ IsFiniteSet(DOMAIN cache)
      /\ now \in Nat
  BY DEF LedgerInv
<1>3. /\ usage' \in [Names -> Nat]
      /\ \A n \in Names : usage'[n] = IF n = m THEN usage[n] + 1 ELSE usage[n]
  BY <1>1, <1>2, UsedOnce
<1>4. /\ IsFiniteSet(DOMAIN cache') /\ Cardinality(DOMAIN cache) \in Nat
      /\ Cardinality(DOMAIN cache') = Cardinality(DOMAIN cache) + 1
  BY <1>1, <1>2, OneMore
<1>5. total' \in Nat /\ hits' \in Nat /\ total' = hits' + Cardinality(DOMAIN cache')
  <2>1. total = hits + Cardinality(DOMAIN cache)
    BY DEF LedgerInv
  <2> QED BY <1>1, <1>2, <1>4, <2>1
<1>6. ASSUME NEW n \in Names PROVE Cardinality(Of(cache', n)) <= usage'[n]
  <2>1. Of(cache, n) \subseteq DOMAIN cache /\ key \notin Of(cache, n)
    BY <1>1 DEF Of
  <2>2. IsFiniteSet(Of(cache, n)) /\ Cardinality(Of(cache, n)) \in Nat
    BY <1>2, <2>1, FS_Subset, FS_CardinalityType
  <2>3. Cardinality(Of(cache, n)) <= usage[n] /\ usage[n] \in Nat
    BY <1>2 DEF LedgerInv
  <2>4. CASE n = m
    <3>1. Of(cache', n) = Of(cache, n) \cup {key}
      BY <1>1, <2>4 DEF Of
    <3>2. Cardinality(Of(cache', n)) = Cardinality(Of(cache, n)) + 1
      BY <2>1, <2>2, <3>1, OneMore
    <3> QED BY <1>3, <2>2, <2>3, <2>4, <3>2
  <2>5. CASE n # m
    <3>1. Of(cache', n) = Of(cache, n)
      BY <1>1, <2>5 DEF Of
    <3> QED BY <1>3, <2>3, <2>5, <3>1
  <2> QED BY <2>4, <2>5
<1> QED BY <1>1, <1>2, <1>3, <1>4, <1>5, <1>6 DEF LedgerInv, Of

(* Every step keeps the ledger.                                            *)
LEMMA NextLedger == LedgerInv /\ [Next]_vars => LedgerInv'
<1> SUFFICES ASSUME LedgerInv, [Next]_vars PROVE LedgerInv'
  OBVIOUS
<1>1. ASSUME NEW a \in Requests, Hit(a) PROVE LedgerInv'
  BY <1>1, HitLedger
<1>2. ASSUME NEW a \in Requests, SelectBySize(a) \/ SelectByScore(a) PROVE LedgerInv'
  <2>1. now \in Nat
    BY DEF LedgerInv
  <2>2. \E s : Computed(a, s) /\ cache' = Entries(a, s)
    BY <1>2, <2>1, NothingExpires DEF SelectBySize
  <2> QED BY <2>2, ComputedLedger
<1>3. CASE \/ \E s \in AllStrategies : RegisterStrategy(s)
           \/ \E c \in Scorers : RegisterScorer(c)
           \/ TimePasses
  BY <1>3 DEF RegisterStrategy, RegisterScorer, TimePasses, Count, LedgerInv, Of, stats
<1>4. CASE UNCHANGED vars
  BY <1>4 DEF vars, stats, LedgerInv, Of
<1> QED BY <1>1, <1>2, <1>3, <1>4 DEF Next

-----------------------------------------------------------------------------
(* Scores.                                                                 *)

(* Quotients of natural numbers.                                           *)
LEMMA NatQuotient ==
  ASSUME NEW n \in Nat, NEW d \in Nat \ {0}
  PROVE  n \div d \in Nat /\ n % d \in Nat
OBVIOUS

LEMMA FortyType ==
  ASSUME NEW n \in Nat, NEW d \in Nat \ {0}
  PROVE  Forty(n, d) \in Nat
<1>1. PICK q \in Nat, r \in Nat : q = n \div d /\ r = n % d
  BY NatQuotient
<1>2. r * 40 \in Nat
  BY <1>1
<1>3. PICK k \in Nat : k = (r * 40) \div d
  BY <1>2, NatQuotient
<1>4. q * 40 + k \in Nat
  OBVIOUS
<1> QED BY <1>1, <1>3, <1>4 DEF Forty

(* The ranges the scores are made for.                                     *)
Ranged(s) == s.min \in Nat /\ s.max \in Nat /\ s.max # s.min - 1

LEMMA AllRanged ==
  ASSUME NEW s \in AllStrategies
  PROVE  Ranged(s)
<1>1. CASE s \in Custom
  BY <1>1, CustomAssumption DEF Ranged
<1>2. CASE s \in Defaults
  BY <1>2, Thresholds DEF Defaults, Ranged, Strategy, Tiny, Small, Medium, Large, Huge
<1>3. \A i \in DOMAIN DefaultStrategies : DefaultStrategies[i] \in Defaults
  BY DEF DefaultStrategies, Defaults
<1> QED BY <1>1, <1>2, <1>3 DEF AllStrategies

(* The score for the size, inside and outside of a strategy's range.       *)
LEMMA SizeScoreType ==
  ASSUME NEW s, Ranged(s), NEW a \in Attributes
  PROVE  SizeScore(s, a) \in Nat
<1>1. PICK size \in Nat, min \in Nat, max \in Nat :
        /\ size = a.size /\ min = s.min /\ max = s.max
        /\ max # min - 1
  BY DEF Attributes, Ranged
<1>2. CASE Covers(s, size)
  <2>1. CASE max = 0
    <3>1. CASE size >= 2 * min
      BY <1>1, <1>2, <2>1, <3>1 DEF SizeScoreInside, SizeScore, Covers
    <3>2. CASE ~(size >= 2 * min)
      <4>1. min \in Nat \ {0} /\ (size - min) * 20 \in Nat
        BY <1>1, <1>2, <3>2 DEF Covers
      <4>2. PICK k \in Nat : k = ((size - min) * 20) \div min
        BY <4>1, NatQuotient
      <4> QED BY <1>1, <1>2, <2>1, <3>2, <4>2 DEF SizeScoreInside, SizeScore
    <3> QED BY <3>1, <3>2
  <2>2. CASE max # 0
    <3>1. PICK h \in Int : h = size - (min + (max - min) \div 2)
      BY <1>1
    <3>2. PICK d \in Nat : d = Abs(h)
      BY DEF Abs
    <3>3. max - min \in Nat \ {0}
      BY <1>1, <1>2, <2>2 DEF Covers
    <3>4. PICK f \in Nat : f = Forty(d, max - min)
      BY <3>3, FortyType
    <3>5. AtLeast(100 - f, 60) \in Nat
      BY DEF AtLeast
    <3> QED BY <1>1, <1>2, <2>2, <3>1, <3>2, <3>4, <3>5 DEF SizeScoreInside, SizeScore
  <2> QED BY <2>1, <2>2
<1>3. CASE ~Covers(s, size)
  <2>1. PICK distance \in Nat : distance = IF size < min THEN min - size ELSE size - max
    BY <1>1, <1>3 DEF Covers
  <2>2. PICK divisor \in Int : divisor = max - min + 1
    OBVIOUS
  <2>3. SizeScore(s, a) = IF divisor < 0 THEN 40 + Forty(distance, -divisor)
                          ELSE AtLeast(40 - Forty(distance, divisor), 0)
    BY <1>1, <1>3, <2>1, <2>2 DEF SizeScore, SizeScoreOutside
  <2>4. CASE divisor < 0
    <3>1. -divisor \in Nat \ {0}
      BY <2>4
    <3>2. PICK f \in Nat : f = Forty(distance, -divisor)
      BY <3>1, FortyType
    <3> QED BY <2>3, <2>4, <3>2
  <2>5. CASE ~(divisor < 0)
    <3>1. divisor \in Nat \ {0}
      BY <1>1, <2>2, <2>5
    <3>2. PICK f \in Nat : f = Forty(distance, divisor)
      BY <3>1, FortyType
    <3>3. AtLeast(40 - f, 0) \in Nat
      BY DEF AtLeast
    <3> QED BY <2>3, <2>5, <3>2, <3>3
  <2> QED BY <2>4, <2>5
<1> QED BY <1>1, <1>2, <1>3

(* A score by name is one of the six.                                      *)
LEMMA Named ==
  ASSUME NEW s, NEW t, NEW u, NEW v, NEW w, NEW x, NEW y
  PROVE  ByName(s, t, u, v, w, x, y) \in {t, u, v, w, x, y}
BY DEF ByName

(* A requirement takes 20 at most from a score.                            *)
LEMMA StressedType ==
  ASSUME NEW n \in 20..100, NEW required
  PROVE  Stressed(n, required) \in Nat /\ Stressed(n, required) <= 100
BY DEF Stressed, AtMost

(* The scores of the selector's own scorers are natural numbers, those of  *)
(* the application's are what it wants.                                    *)
LEMMA ScoreType ==
  ASSUME NEW c \in DefaultScorers \cup Scorers, NEW s \in AllStrategies, NEW a \in Attributes
  PROVE  /\ ScoreStrategy(c, s, a) \in Int /\ c.weight \in Int
         /\ ScoreStrategy(c, s, a) * c.weight \in Int
<1>1. SizeScore(s, a) \in Nat
  BY AllRanged, SizeScoreType
<1>2. ReliabilityScore(s, a) \in Nat
  <2>1. PICK n \in 20..100 : n = ByName(s, 60, 70, 85, 90, 95, 75)
    BY Named
  <2> QED BY <2>1, StressedType DEF ReliabilityScore
<1>3. RealtimeScore(s, a) \in Nat
  <2>1. PICK n \in 20..100 : n = ByName(s, 95, 90, 80, 70, 50, 75)
    BY Named
  <2>2. PICK m \in Nat : m = Stressed(n, a.realtime)
    BY StressedType
  <2> QED BY <2>1, <2>2 DEF RealtimeScore, AtMost
<1>4. NetworkScore(s, a) \in Nat
  <2>1. /\ ByName(s, 90, 90, 70, 40, 40, 75) \in Nat
        /\ ByName(s, 70, 85, 85, 75, 60, 75) \in Nat
        /\ ByName(s, 60, 70, 85, 95, 95, 75) \in Nat
    BY Named
  <2> QED BY <2>1 DEF NetworkScore
<1>5. CASE c \in Scorers
  <2>1. c.weight \in Int /\ c.fixed \in Int /\ ~c.own
    BY <1>5, ScorersAssumption
  <2>2. \A name, weight : c # Scorer(name, weight)
    BY <2>1 DEF Scorer
  <2>3. ScoreStrategy(c, s, a) = c.fixed
    BY <2>1, <2>2 DEF ScoreStrategy
  <2>4. PICK n \in Int, w \in Int : n = ScoreStrategy(c, s, a) /\ w = c.weight
    BY <2>1, <2>3
  <2> QED BY <2>4
<1>6. CASE c \in DefaultScorers
  <2>1. c.weight \in {3, 4, 5} /\ c.own
    BY <1>6 DEF DefaultScorers, Scorer
  <2>2. ScoreStrategy(c, s, a) \in {SizeScore(s, a), ReliabilityScore(s, a), RealtimeScore(s, a),
                                    NetworkScore(s, a)}
    BY <1>6, <2>1 DEF ScoreStrategy, DefaultScorers
  <2>3. PICK n \in Nat, w \in {3, 4, 5} : n = ScoreStrategy(c, s, a) /\ w = c.weight
    BY <1>1, <1>2, <1>3, <1>4, <2>1, <2>2
  <2> QED BY <2>3
<1> QED BY <1>5, <1>6

-----------------------------------------------------------------------------
(* Sums over finite sets.                                                  *)

(* The natural numbers are well ordered, so a set that holds every number  *)
(* whose predecessors it holds, holds them all.                            *)
Less == {x \in Nat \X Nat : x[1] < x[2]}

LEMMA NumberByNumber ==
  ASSUME NEW S \in SUBSET Nat, \A n \in Nat : (\A k \in Nat : k < n => k \in S) => n \in S
  PROVE  \A n \in Nat : n \in S
<1> DEFINE T == Nat \ S
<1> SUFFICES ASSUME T # {} PROVE FALSE
  OBVIOUS
<1>1. IsWellFoundedOn(Less, Nat)
  BY NatLessThanWellFounded DEF OpToRel, Less
<1>2. PICK x \in T : \A y \in T : <<y, x>> \notin Less
  <2> HIDE DEF T
  <2>1. T \subseteq Nat
    BY DEF T
  <2> QED BY <1>1, <2>1, WFMin
<1>3. \A y \in T : ~(y < x)
  BY <1>2 DEF Less
<1> QED BY <1>3

(* A sum takes any element away first, as the fold of the library does.    *)
Any(T) == CHOOSE x \in T : TRUE
SumStep(w, g, T) == IF T = {} THEN 0 ELSE w[Any(T)] + g[T \ {Any(T)}]
Sums(S, w, g) == g = [T \in SUBSET S |-> SumStep(w, g, T)]

LEMMA WithoutOne ==
  ASSUME NEW T, IsFiniteSet(T), T # {}
  PROVE  /\ Any(T) \in T /\ IsFiniteSet(T \ {Any(T)})
         /\ Cardinality(T) \in Nat /\ Cardinality(T \ {Any(T)}) \in Nat
         /\ Cardinality(T \ {Any(T)}) < Cardinality(T)
<1>1. Any(T) \in T
  BY DEF Any
<1>2. /\ IsFiniteSet(T \ {Any(T)})
      /\ Cardinality(T \ {Any(T)}) = Cardinality(T) - 1
  BY <1>1, FS_RemoveElement
<1>3. Cardinality(T) \in Nat /\ Cardinality(T \ {Any(T)}) \in Nat
  BY <1>2, FS_CardinalityType
<1> QED BY <1>1, <1>2, <1>3

(* A sum of integers is one.                                               *)
LEMMA SumsType ==
  ASSUME NEW S, IsFiniteSet(S), NEW w \in [S -> Int], NEW g, Sums(S, w, g)
  PROVE  g[S] \in Int
<1> DEFINE All == {n \in Nat : \A T \in SUBSET S : Cardinality(T) = n => g[T] \in Int}
<1>1. ASSUME NEW n \in Nat, \A k \in Nat : k < n => k \in All
      PROVE  n \in All
  <2> SUFFICES ASSUME NEW T \in SUBSET S, Cardinality(T) = n PROVE g[T] \in Int
    OBVIOUS
  <2>1. CASE T = {}
    <3>1. g[T] = 0
      BY <2>1 DEF Sums, SumStep
    <3> QED BY <3>1
  <2>2. CASE T # {}
    <3>1. IsFiniteSet(T)
      BY FS_Subset
    <3>2. /\ Any(T) \in T /\ Cardinality(T \ {Any(T)}) \in Nat
          /\ Cardinality(T \ {Any(T)}) < n
      BY <2>2, <3>1, WithoutOne
    <3>3. g[T \ {Any(T)}] \in Int
      BY <1>1, <3>2
    <3>4. w[Any(T)] \in Int
      BY <3>2
    <3>5. g[T] = w[Any(T)] + g[T \ {Any(T)}]
      BY <2>2 DEF Sums, SumStep
    <3> QED BY <3>3, <3>4, <3>5
  <2> QED BY <2>1, <2>2
<1>2. \A n \in Nat : n \in All
  <2> HIDE DEF All
  <2>1. All \in SUBSET Nat
    BY DEF All
  <2> QED BY <1>1, <2>1, NumberByNumber
<1>3. \A T \in SUBSET S : g[T] \in Int
  <2> SUFFICES ASSUME NEW T \in SUBSET S PROVE g[T] \in Int
    OBVIOUS
  <2>1. Cardinality(T) \in Nat
    BY FS_Subset, FS_CardinalityType
  <2> QED BY <1>2, <2>1
<1> QED BY <1>3

(* The sums of all subsets of a finite set exist: those of the smaller     *)
(* subsets give those of the next larger ones.                             *)
LEMMA SumsExist ==
  ASSUME NEW S, IsFiniteSet(S), NEW w
  PROVE  \E g : Sums(S, w, g)
<1> DEFINE Partial(n, g) ==
      \A T \in SUBSET S : Cardinality(T) <= n => g[T] = SumStep(w, g, T)
    Done == {n \in Nat : \E g : g = [T \in SUBSET S |-> g[T]] /\ Partial(n, g)}
<1>1. ASSUME NEW n \in Nat, \A k \in Nat : k < n => k \in Done
      PROVE  n \in Done
  <2>1. PICK g : n = 0 \/ Partial(n - 1, g)
    <3>1. CASE n = 0
      BY <3>1
    <3>2. CASE n # 0
      <4>1. n - 1 \in Nat /\ n - 1 < n
        BY <3>2
      <4>2. n - 1 \in Done
        BY <1>1, <4>1
      <4> QED BY <4>2
    <3> QED BY <3>1, <3>2
  <2> DEFINE h == [T \in SUBSET S |-> SumStep(w, g, T)]
  <2>2. ASSUME NEW T \in SUBSET S, Cardinality(T) <= n
        PROVE  h[T] = SumStep(w, h, T)
    <3>1. CASE T = {}
      BY <3>1 DEF SumStep
    <3>2. CASE T # {}
      <4>1. IsFiniteSet(T)
        BY FS_Subset
      <4>2. PICK U \in SUBSET S : U = T \ {Any(T)}
        OBVIOUS
      <4>3. Cardinality(T) \in Nat /\ Cardinality(U) \in Nat /\ Cardinality(U) < Cardinality(T)
        BY <3>2, <4>1, <4>2, WithoutOne
      <4>4. Cardinality(U) <= n - 1 /\ n # 0
        BY <2>2, <4>3
      <4>5. g[U] = SumStep(w, g, U)
        BY <2>1, <4>4
      <4>6. h[U] = g[U]
        BY <4>5
      <4>7. h[T] = w[Any(T)] + g[U] /\ SumStep(w, h, T) = w[Any(T)] + h[U]
        BY <3>2, <4>2 DEF SumStep
      <4> QED BY <4>6, <4>7
    <3> QED BY <3>1, <3>2
  <2>3. h = [T \in SUBSET S |-> h[T]]
    OBVIOUS
  <2> HIDE DEF h
  <2>4. Partial(n, h)
    BY <2>2
  <2> QED BY <2>3, <2>4
<1>2. \A n \in Nat : n \in Done
  <2> HIDE DEF Done
  <2>1. Done \in SUBSET Nat
    BY DEF Done
  <2> QED BY <1>1, <2>1, NumberByNumber
<1>3. PICK m \in Nat : m = Cardinality(S)
  BY FS_CardinalityType
<1>4. PICK g : g = [T \in SUBSET S |-> g[T]] /\ Partial(m, g)
  BY <1>2
<1>5. \A T \in SUBSET S : Cardinality(T) <= m
  BY <1>3, FS_Subset
<1>6. \A T \in SUBSET S : g[T] = SumStep(w, g, T)
  BY <1>4, <1>5
<1>7. Sums(S, w, g)
  BY <1>4, <1>6 DEF Sums
<1> QED BY <1>7

(* The library's fold is a sum in this sense.  Its LET declares the sums   *)
(* of the subsets by what the fold makes of each.                          *)
ScoreSums(s, a, g) ==
  g = [T \in SUBSET scorers |->
         IF T = {} THEN 0
         ELSE ScoreStrategy(Any(T), s, a) * Any(T).weight + g[T \ {Any(T)}]]
WeightSums(g) ==
  g = [T \in SUBSET scorers |-> IF T = {} THEN 0 ELSE Any(T).weight + g[T \ {Any(T)}]]

LEMMA EvaluateIsQuotient ==
  ASSUME NEW s, NEW a
  PROVE  EvaluateStrategy(s, a)
           = IF (CHOOSE g : WeightSums(g))[scorers] # 0
             THEN Quotient((CHOOSE g : ScoreSums(s, a, g))[scorers],
                           (CHOOSE g : WeightSums(g))[scorers])
             ELSE IF Covers(s, a.size) THEN 80 ELSE 30
BY DEF EvaluateStrategy, MapThenSumSet, MapThenFoldSet, ScoreSums, WeightSums, Any

LEMMA QuotientType ==
  ASSUME NEW n \in Int, NEW d \in Int \ {0}
  PROVE  Quotient(n, d) \in Int
<1>1. PICK m \in Nat, e \in Nat \ {0} : m = Abs(n) /\ e = Abs(d)
  BY DEF Abs
<1>2. PICK q \in Nat : q = m \div e
  BY <1>1, NatQuotient
<1> QED BY <1>1, <1>2 DEF Quotient

(* Scorers a selector can have: finitely many.                             *)
ScorersInv ==
  scorers \subseteq DefaultScorers \cup Scorers /\ IsFiniteSet(scorers)

(* The score of a strategy is an integer, whatever the weights add up to.  *)
LEMMA EvaluateType ==
  ASSUME ScorersInv, NEW s \in AllStrategies, NEW a \in Attributes
  PROVE  EvaluateStrategy(s, a) \in Int
<1> DEFINE v == [c \in scorers |-> ScoreStrategy(c, s, a) * c.weight]
           w == [c \in scorers |-> c.weight]
<1>1. v \in [scorers -> Int] /\ w \in [scorers -> Int]
  BY ScoreType DEF ScorersInv
<1>2. \A T \in SUBSET scorers : T # {} =>
        /\ v[Any(T)] = ScoreStrategy(Any(T), s, a) * Any(T).weight
        /\ w[Any(T)] = Any(T).weight
  BY DEF Any
<1>3. \A g : ScoreSums(s, a, g) <=> Sums(scorers, v, g)
  <2> HIDE DEF v
  <2>1. TAKE g
  <2>2. \A T \in SUBSET scorers :
          SumStep(v, g, T) = IF T = {} THEN 0
                             ELSE ScoreStrategy(Any(T), s, a) * Any(T).weight + g[T \ {Any(T)}]
    BY <1>2 DEF SumStep
  <2>3. [T \in SUBSET scorers |-> SumStep(v, g, T)]
          = [T \in SUBSET scorers |->
               IF T = {} THEN 0
               ELSE ScoreStrategy(Any(T), s, a) * Any(T).weight + g[T \ {Any(T)}]]
    BY <2>2
  <2> QED BY <2>3 DEF Sums, ScoreSums
<1>4. \A g : WeightSums(g) <=> Sums(scorers, w, g)
  <2> HIDE DEF w
  <2>1. TAKE g
  <2>2. \A T \in SUBSET scorers :
          SumStep(w, g, T) = IF T = {} THEN 0 ELSE Any(T).weight + g[T \ {Any(T)}]
    BY <1>2 DEF SumStep
  <2>3. [T \in SUBSET scorers |-> SumStep(w, g, T)]
          = [T \in SUBSET scorers |->
               IF T = {} THEN 0 ELSE Any(T).weight + g[T \ {Any(T)}]]
    BY <2>2
  <2> QED BY <2>3 DEF Sums, WeightSums
<1> HIDE DEF v, w
<1>5. PICK g : g = CHOOSE x : ScoreSums(s, a, x)
  OBVIOUS
<1>6. PICK h : h = CHOOSE x : WeightSums(x)
  OBVIOUS
<1>7. Sums(scorers, v, g) /\ Sums(scorers, w, h)
  <2>1. IsFiniteSet(scorers)
    BY DEF ScorersInv
  <2>2. (\E x : ScoreSums(s, a, x)) /\ (\E x : WeightSums(x))
    BY <1>3, <1>4, <2>1, SumsExist
  <2>3. ScoreSums(s, a, g) /\ WeightSums(h)
    BY <1>5, <1>6, <2>2
  <2> QED BY <1>3, <1>4, <2>3
<1>8. PICK m \in Int, n \in Int : m = g[scorers] /\ n = h[scorers]
  <2>1. IsFiniteSet(scorers)
    BY DEF ScorersInv
  <2> QED BY <1>1, <1>7, <2>1, SumsType
<1>9. EvaluateStrategy(s, a)
        = IF n # 0 THEN Quotient(m, n) ELSE IF Covers(s, a.size) THEN 80 ELSE 30
  BY <1>5, <1>6, <1>8, EvaluateIsQuotient
<1>10. n # 0 => Quotient(m, n) \in Int
  BY QuotientType
<1> QED BY <1>9, <1>10

(* There is a first strategy with the highest score: the search for it     *)
(* goes on from the best of those before.                                  *)
Ahead(score, i, j) == score[j] < score[i] \/ (score[j] = score[i] /\ i <= j)

LEMMA FirstHighest ==
  ASSUME NEW n \in Nat \ {0}, NEW score \in [1..n -> Int]
  PROVE  \E i \in 1..n : \A j \in 1..n : Ahead(score, i, j)
<1> DEFINE Done == {m \in Nat : m \in 1..n => \E i \in 1..m : \A j \in 1..m : Ahead(score, i, j)}
<1>1. ASSUME NEW m \in Nat, \A k \in Nat : k < m => k \in Done
      PROVE  m \in Done
  <2> SUFFICES ASSUME m \in 1..n PROVE \E i \in 1..m : \A j \in 1..m : Ahead(score, i, j)
    OBVIOUS
  <2>1. CASE m = 1
    BY <2>1 DEF Ahead
  <2>2. CASE m # 1
    <3>1. PICK k \in Nat : k = m - 1 /\ k < m /\ k \in 1..n
      BY <2>2
    <3>2. PICK i \in 1..k : \A j \in 1..k : Ahead(score, i, j)
      BY <1>1, <3>1
    <3>3. \A j \in 1..m : j \in 1..k \/ j = m
      BY <3>1
    <3>4. PICK x \in Int, y \in Int : x = score[i] /\ y = score[m]
      BY <3>1
    <3>5. CASE x < y
      <4>1. \A j \in 1..k : score[j] \in Int /\ score[j] < score[m]
        BY <3>1, <3>2, <3>4, <3>5 DEF Ahead
      <4>2. \A j \in 1..m : Ahead(score, m, j)
        BY <3>3, <4>1 DEF Ahead
      <4> QED BY <4>2
    <3>6. CASE ~(x < y)
      <4>1. Ahead(score, i, m)
        BY <3>1, <3>4, <3>6 DEF Ahead
      <4>2. \A j \in 1..m : Ahead(score, i, j)
        BY <3>2, <3>3, <4>1
      <4>3. i \in 1..m
        BY <3>1
      <4> QED BY <4>2, <4>3
    <3> QED BY <3>5, <3>6
  <2> QED BY <2>1, <2>2
<1>2. \A m \in Nat : m \in Done
  <2> HIDE DEF Done
  <2>1. Done \in SUBSET Nat
    BY DEF Done
  <2> QED BY <1>1, <2>1, NumberByNumber
<1>3. n \in Nat /\ n \in 1..n
  OBVIOUS
<1>4. n \in Done
  <2> HIDE DEF Done
  <2> QED BY <1>2, <1>3
<1> QED BY <1>3, <1>4

(* The best strategy is one of those registered.                           *)
LEMMA BestType ==
  ASSUME ScorersInv, strategies \in Seq(AllStrategies), strategies # <<>>,
         NEW a \in Attributes
  PROVE  /\ Best(a) \in DOMAIN strategies
         /\ strategies[Best(a)] \in AllStrategies
<1> DEFINE score == [i \in DOMAIN strategies |-> EvaluateStrategy(strategies[i], a)]
<1>1. PICK n \in Nat \ {0} : DOMAIN strategies = 1..n
  <2>1. Len(strategies) \in Nat \ {0} /\ DOMAIN strategies = 1..Len(strategies)
    OBVIOUS
  <2> QED BY <2>1
<1>2. \A i \in 1..n : strategies[i] \in AllStrategies
  BY <1>1
<1>3. score \in [1..n -> Int]
  BY <1>1, <1>2, EvaluateType
<1>4. Best(a) = CHOOSE i \in DOMAIN strategies : \A j \in DOMAIN strategies : Ahead(score, i, j)
  BY DEF Best, Ahead
<1> HIDE DEF score
<1>5. \E i \in 1..n : \A j \in 1..n : Ahead(score, i, j)
  BY <1>3, FirstHighest
<1>6. Best(a) \in DOMAIN strategies
  BY <1>1, <1>4, <1>5
<1> QED BY <1>1, <1>2, <1>6

-----------------------------------------------------------------------------
(* Types of the selector.                                                  *)

LEMMA KeyType ==
  ASSUME NEW a \in Attributes
  PROVE  CacheKey(a) \in Keys
<1>1. PICK n \in Nat, m \in Nat : n = a.size \div 1024 /\ m = a.network
  BY NatQuotient DEF Attributes
<1>2. Rune(n) \in Nat /\ Rune(m) \in Nat
  <2>1. PICK r \in Nat \ {0} : r = RuneSpan
    BY RuneAssumption
  <2>2. n % r \in Nat /\ m % r \in Nat
    BY NatQuotient
  <2> QED BY <2>1, <2>2 DEF Rune
<1>3. /\ a.reliability \in BOOLEAN /\ a.realtime \in BOOLEAN /\ a.stream \in BOOLEAN
      /\ a.other \in Nat
  BY DEF Attributes
<1> QED BY <1>1, <1>2, <1>3 DEF CacheKey, Keys

LEMMA ParamsType ==
  ASSUME NEW a \in Attributes
  PROVE  OptimizeParams(a.size) \in Params /\ AdjustedParams(a) \in Params
<1>1. PICK size \in Nat : size = a.size
  BY DEF Attributes
<1>2. OptimizeParams(size) \in Params
  BY Thresholds DEF OptimizeParams, Params
<1>3. a.reliability \in BOOLEAN /\ a.realtime \in BOOLEAN /\ a.stream \in BOOLEAN
  BY DEF Attributes
<1>4. \A p \in Params :
        [p EXCEPT !.retries = IF a.reliability THEN 5 ELSE @,
                  !.noBlockDelay = a.realtime,
                  !.timeout = IF a.realtime THEN 10 ELSE @,
                  !.chunking = a.stream \/ @] \in Params
  BY <1>3 DEF Params
<1> QED BY <1>1, <1>2, <1>4 DEF AdjustedParams

(* The types are inductive with what EvaluateStrategy needs: the scorers   *)
(* are finitely many.                                                      *)
SelectorInv == TypeOK /\ ScorersInv

(* What is returned is counted under the name of its strategy.             *)
LEMMA ReturnTypes ==
  ASSUME TypeOK, NEW a \in Requests, NEW selection \in Selection, Return(a, selection)
  PROVE  /\ total' \in Nat /\ usage' \in [Names -> Nat]
         /\ answer'.attrs \in Requests /\ answer'.selection \in Selection
         /\ lastSelectionAt' \in Nat
         /\ UNCHANGED <<strategies, scorers>>
<1>1. selection.strategy.name \in Names
  BY DEF Selection, Names
<1>2. total \in Nat /\ usage \in [Names -> Nat]
  BY DEF TypeOK
<1>3. total' = total + 1 /\ usage' = [usage EXCEPT ![selection.strategy.name] = @ + 1]
  BY DEF Return
<1>4. /\ answer' = [attrs |-> a, selection |-> selection] /\ UNCHANGED <<strategies, scorers>>
      /\ lastSelectionAt' = now
  BY DEF Return
<1>5. now \in Nat
  BY BoundAssumption DEF TypeOK
<1> QED BY <1>1, <1>2, <1>3, <1>4, <1>5

LEMMA CountTypes ==
  ASSUME TypeOK, Count
  PROVE  calls' \in 0..MaxCalls /\ now' \in 0..MaxTime
BY BoundAssumption DEF TypeOK, Count

(* A selection that was computed is cached under a key of the right type.  *)
LEMMA ComputedTypes ==
  ASSUME SelectorInv, NEW a \in Requests, NEW selection \in Selection,
         Computed(a, selection), cache' = Entries(a, selection)
  PROVE  SelectorInv'
<1>1. TypeOK /\ Count /\ Return(a, selection) /\ UNCHANGED hits
  BY DEF SelectorInv, Computed
<1>2. /\ total' \in Nat /\ usage' \in [Names -> Nat]
      /\ answer'.attrs \in Requests /\ answer'.selection \in Selection
      /\ lastSelectionAt' \in Nat
      /\ UNCHANGED <<strategies, scorers>>
  BY <1>1, ReturnTypes
<1>3. calls' \in 0..MaxCalls /\ now' \in 0..MaxTime
  BY <1>1, CountTypes
<1>4. CacheKey(a) \in Keys
  BY KeyType, AttributesAssumption
<1>5. cache' = [k \in DOMAIN cache \cup {CacheKey(a)} |->
                 IF k \in DOMAIN cache THEN cache[k] ELSE selection]
  BY DEF Entries
<1>6. DOMAIN cache \subseteq Keys /\ \A k \in DOMAIN cache : cache[k] \in Selection
  BY DEF SelectorInv, TypeOK
<1>7. DOMAIN cache' \subseteq Keys /\ \A k \in DOMAIN cache' : cache'[k] \in Selection
  BY <1>4, <1>5, <1>6
<1>8. ScorersInv'
  BY <1>2 DEF SelectorInv, ScorersInv
<1>9. TypeOK'
  BY <1>1, <1>2, <1>3, <1>7 DEF TypeOK
<1> QED BY <1>8, <1>9 DEF SelectorInv

(* A registered strategy keeps its place and its name, a new one gets the  *)
(* last place.                                                             *)
LEMMA RegisterTypes ==
  ASSUME SelectorInv, NEW s \in AllStrategies, RegisterStrategy(s)
  PROVE  SelectorInv'
<1> DEFINE Unique(q) == \A i, j \in DOMAIN q : q[i].name = q[j].name => i = j
<1>1. strategies \in Seq(AllStrategies) /\ Unique(strategies)
  BY DEF SelectorInv, TypeOK
<1>2. strategies' \in Seq(AllStrategies) /\ Unique(strategies')
  <2>1. CASE \E i \in DOMAIN strategies : strategies[i].name = s.name
    <3>1. strategies' = [i \in DOMAIN strategies |->
                          IF strategies[i].name = s.name THEN s ELSE strategies[i]]
      BY <2>1 DEF RegisterStrategy
    <3>2. PICK n \in Nat : n = Len(strategies) /\ DOMAIN strategies = 1..n
      BY <1>1
    <3>3. \A i \in 1..n : strategies[i] \in AllStrategies
      BY <1>1, <3>2
    <3>4. strategies' \in [1..n -> AllStrategies]
      BY <3>1, <3>2, <3>3
    <3>5. strategies' \in Seq(AllStrategies) /\ DOMAIN strategies' = 1..n
      BY <3>4
    <3>6. \A i \in 1..n : strategies'[i].name = strategies[i].name
      BY <3>1, <3>2
    <3>7. Unique(strategies')
      BY <1>1, <3>2, <3>5, <3>6
    <3> QED BY <3>5, <3>7
  <2>2. CASE ~ \E i \in DOMAIN strategies : strategies[i].name = s.name
    <3>1. PICK q \in Seq(AllStrategies) : q = strategies
      BY <1>1
    <3>2. strategies' = Append(q, s)
      BY <2>2, <3>1 DEF RegisterStrategy
    <3>3. /\ Append(q, s) \in Seq(AllStrategies)
          /\ DOMAIN Append(q, s) = 1..Len(q) + 1
          /\ DOMAIN q = 1..Len(q) /\ Len(q) \in Nat
          /\ Append(q, s)[Len(q) + 1] = s
          /\ \A i \in 1..Len(q) : Append(q, s)[i] = q[i]
      OBVIOUS
    <3>4. \A i \in 1..Len(q) + 1 : i \in 1..Len(q) \/ i = Len(q) + 1
      BY <3>3
    <3>5. Unique(q) /\ \A i \in 1..Len(q) : q[i].name # s.name
      BY <1>1, <2>2, <3>1, <3>3
    <3>6. Unique(Append(q, s))
      BY <3>3, <3>4, <3>5
    <3> QED BY <3>2, <3>3, <3>6
  <2> QED BY <2>1, <2>2
<1>3. calls' \in 0..MaxCalls /\ now' \in 0..MaxTime
  BY CountTypes DEF SelectorInv, RegisterStrategy
<1>4. UNCHANGED <<scorers, cache, total, hits, usage, lastSelectionAt, answer>>
  BY DEF RegisterStrategy, stats
<1> QED BY <1>2, <1>3, <1>4 DEF SelectorInv, TypeOK, ScorersInv

(* One scorer takes the place of another or comes in addition.             *)
LEMMA ScorerTypes ==
  ASSUME SelectorInv, NEW c \in Scorers, RegisterScorer(c)
  PROVE  SelectorInv'
<1> DEFINE rest == {d \in scorers : d.name # c.name}
<1>1. scorers' = rest \cup {c}
  BY DEF RegisterScorer
<1>2. IsFiniteSet(scorers) /\ scorers \subseteq DefaultScorers \cup Scorers
  BY DEF SelectorInv, ScorersInv
<1>3. rest \subseteq scorers
  OBVIOUS
<1> HIDE DEF rest
<1>4. IsFiniteSet(rest \cup {c})
  BY <1>2, <1>3, FS_Subset, FS_AddElement
<1>5. ScorersInv'
  BY <1>1, <1>2, <1>3, <1>4 DEF ScorersInv
<1>6. calls' \in 0..MaxCalls /\ now' \in 0..MaxTime
  BY CountTypes DEF SelectorInv, RegisterScorer
<1>7. UNCHANGED <<strategies, cache, total, hits, usage, lastSelectionAt, answer>>
  BY DEF RegisterScorer, stats
<1> QED BY <1>5, <1>6, <1>7 DEF SelectorInv, TypeOK, ScorersInv

LEMMA InitSelector == Init => SelectorInv
<1> SUFFICES ASSUME Init PROVE SelectorInv
  OBVIOUS
<1>1. IsFiniteSet(DefaultScorers)
  <2>1. \A x : IsFiniteSet({x})
    BY FS_Singleton
  <2>2. ASSUME NEW w, NEW x, NEW y, NEW z PROVE IsFiniteSet({w, x, y, z})
    <3>1. {w, x, y, z} = {w} \cup {x} \cup {y} \cup {z}
      OBVIOUS
    <3>2. PICK T : T = {w} \cup {x} \cup {y} \cup {z} /\ IsFiniteSet(T)
      BY <2>1, FS_Union
    <3> QED BY <3>1, <3>2
  <2> QED BY <2>2, Zenon DEF DefaultScorers
<1>2. scorers = DefaultScorers
  BY DEF Init
<1>3. ScorersInv
  BY <1>1, <1>2 DEF ScorersInv
<1>4. strategies \in Seq(AllStrategies) /\ DOMAIN strategies = {} /\ DOMAIN cache = {}
  BY DEF Init
<1>5. calls \in 0..MaxCalls /\ now \in 0..MaxTime
  BY BoundAssumption DEF Init
<1>6. /\ total \in Nat /\ hits \in Nat /\ usage \in [Names -> Nat] /\ answer = NoAnswer
      /\ lastSelectionAt \in Nat
  BY DEF Init
<1>7. TypeOK
  BY <1>3, <1>4, <1>5, <1>6 DEF TypeOK, ScorersInv
<1> QED BY <1>3, <1>7 DEF SelectorInv

LEMMA NextSelectorInv == SelectorInv /\ [Next]_vars => SelectorInv'
<1> SUFFICES ASSUME SelectorInv, [Next]_vars PROVE SelectorInv'
  OBVIOUS
<1>1. ASSUME NEW a \in Requests, Hit(a) PROVE SelectorInv'
  <2>1. TypeOK /\ Count /\ CacheKey(a) \in DOMAIN cache /\ Return(a, cache[CacheKey(a)])
    BY <1>1 DEF SelectorInv, Hit
  <2>2. cache[CacheKey(a)] \in Selection
    BY <2>1 DEF TypeOK
  <2>3. /\ total' \in Nat /\ usage' \in [Names -> Nat]
        /\ answer'.attrs \in Requests /\ answer'.selection \in Selection
        /\ lastSelectionAt' \in Nat
        /\ UNCHANGED <<strategies, scorers>>
    BY <2>1, <2>2, ReturnTypes
  <2>4. calls' \in 0..MaxCalls /\ now' \in 0..MaxTime
    BY <2>1, CountTypes
  <2>5. hits' \in Nat /\ UNCHANGED cache
    BY <1>1, <2>1 DEF Hit, TypeOK
  <2> QED BY <2>1, <2>3, <2>4, <2>5 DEF SelectorInv, TypeOK, ScorersInv
<1>2. ASSUME NEW a \in Requests, SelectBySize(a) PROVE SelectorInv'
  <2>1. a \in Attributes /\ a.size \in Nat
    BY AttributesAssumption DEF Attributes
  <2>2. SelectStrategy(DefaultStrategies, a.size) \in AllStrategies
    <3>1. Defaults \subseteq AllStrategies
      BY DEF Defaults, AllStrategies, DefaultStrategies
    <3> QED BY <2>1, <3>1, SizerCovers
  <2>3. BySize(a) \in Selection
    BY <2>1, <2>2, ParamsType DEF Selection, BySize
  <2>4. Computed(a, BySize(a)) /\ cache' = Entries(a, BySize(a))
    BY <1>2 DEF SelectBySize
  <2> QED BY <2>3, <2>4, ComputedTypes
<1>3. ASSUME NEW a \in Requests, SelectByScore(a) PROVE SelectorInv'
  <2> DEFINE best == strategies[Best(a)]
  <2>1. a \in Attributes /\ a.size \in Nat /\ ScorersInv /\ strategies \in Seq(AllStrategies)
    BY AttributesAssumption DEF SelectorInv, TypeOK, Attributes
  <2>2. now \in Nat
    BY BoundAssumption DEF SelectorInv, TypeOK
  <2>3. strategies # <<>> /\ Computed(a, ByScore(a)) /\ cache' = Entries(a, ByScore(a))
    BY <1>3, <2>2, NothingExpires DEF SelectByScore
  <2>4. best \in AllStrategies
    BY <2>1, <2>3, BestType
  <2>5. ByScore(a) = [strategy |-> best, params |-> AdjustedParams(a),
                      score |-> EvaluateStrategy(best, a), bySize |-> FALSE, size |-> a.size]
    BY DEF ByScore
  <2> HIDE DEF best
  <2>6. EvaluateStrategy(best, a) \in Int /\ AdjustedParams(a) \in Params
    BY <2>1, <2>4, EvaluateType, ParamsType
  <2>7. ByScore(a) \in Selection
    BY <2>1, <2>4, <2>5, <2>6 DEF Selection
  <2> QED BY <2>3, <2>7, ComputedTypes
<1>4. ASSUME NEW s \in AllStrategies, RegisterStrategy(s) PROVE SelectorInv'
  BY <1>4, RegisterTypes
<1>5. ASSUME NEW c \in Scorers, RegisterScorer(c) PROVE SelectorInv'
  BY <1>5, ScorerTypes
<1>6. CASE TimePasses
  <2>1. now' \in 0..MaxTime
    BY <1>6, BoundAssumption DEF TimePasses, SelectorInv, TypeOK
  <2> QED BY <1>6, <2>1 DEF TimePasses, stats, SelectorInv, TypeOK, ScorersInv
<1>7. CASE UNCHANGED vars
  BY <1>7 DEF vars, stats, SelectorInv, TypeOK, ScorersInv
<1> QED BY <1>1, <1>2, <1>3, <1>4, <1>5, <1>6, <1>7 DEF Next

-----------------------------------------------------------------------------
(* Results about the selector.                                             *)

(* Whatever is registered and asked for, a selection names a registered or *)
(* default strategy, its score is an integer, negative weights and weights *)
(* that add up to 0 included, and each name is registered once.            *)
THEOREM SelectorTypeCorrect == Spec => []TypeOK
<1>1. SelectorInv => TypeOK
  BY DEF SelectorInv
<1> QED BY InitSelector, NextSelectorInv, <1>1, PTL DEF Spec

(* Every call that was no hit left an entry that is still in the cache,    *)
(* and no strategy was used less often than it is cached: whatever is      *)
(* asked for, whatever limit and age the cleanup is given and however much *)
(* time passes, it removes nothing (NothingExpires).                       *)
THEOREM CacheLedgerHolds == Spec => []CacheLedger
<1>1. Init => LedgerInv
  <2> SUFFICES ASSUME Init PROVE LedgerInv
    OBVIOUS
  <2>1. DOMAIN cache = {} /\ \A n \in Names : Of(cache, n) = {}
    BY DEF Init, Of
  <2>2. IsFiniteSet(DOMAIN cache) /\ Cardinality(DOMAIN cache) = 0
        /\ \A n \in Names : Cardinality(Of(cache, n)) = 0
    BY <2>1, FS_EmptySet
  <2> QED BY <2>2 DEF Init, LedgerInv
<1>2. LedgerInv /\ [Next]_vars => LedgerInv'
  BY NextLedger
<1>3. LedgerInv => CacheLedger
  BY DEF LedgerInv, CacheLedger, Of
<1> QED BY <1>1, <1>2, <1>3, PTL DEF Spec

(* A cached selection has the parameters its request would have got when   *)
(* the selection was made: the key never joins two requests that differ in *)
(* those or in the strategy for their size, numbers of KB that are no      *)
(* characters included, as long as neither wraps around.                   *)
THEOREM CachedSelectionsFit == Spec => []CachedFits
<1>1. Init => CacheInv
  BY DEF Init, CacheInv, CachedFits
<1>2. CacheInv /\ [Next]_vars => CacheInv'
  BY NextCacheInv
<1>3. CacheInv => CachedFits
  BY DEF CacheInv
<1> QED BY <1>1, <1>2, <1>3, PTL DEF Spec

-----------------------------------------------------------------------------
(* THE MEMORY MANAGER: the inductive invariant.                            *)

(* What the block should be at a level.                                    *)
BlockFits(l) == /\ l = 2 => ~emergency
                /\ l = 0 => (emergency <=> Preallocated)

(* A monitor that has read the level knows it until it has written the new *)
(* one; from then on the block still fits the old one.                     *)
MonitorFits(g) ==
  /\ monitor[g].pc \in {"wait", "read", "detect", "write", "ended"} => BlockFits(level)
  /\ monitor[g].pc \in {"detect", "write"} => monitor[g].old = level
  /\ monitor[g].pc \in {"write", "handle"} => monitor[g].new # monitor[g].old
  /\ monitor[g].pc = "handle" => monitor[g].new = level
  /\ monitor[g].pc = "refill" => level = 0 /\ ~emergency

AllOff == \A g \in Starters : monitor[g].pc = "off"

LevelInv ==
  Alone /\ ~interfered =>
    /\ AllOff => BlockFits(level)
    /\ \A g \in Starters : MonitorFits(g)

(* A call of Start that has not been made has launched nothing, and the    *)
(* block is never taken unless the configuration asks for one.             *)
MonitorsInv ==
  /\ \A g \in Starters : start[g] = "idle" => monitor[g].pc = "off"
  /\ emergency => Preallocated

MemoryInv == MemoryTypeOK /\ LedgerExact /\ MonitorsInv /\ LevelInv

-----------------------------------------------------------------------------
(* Types.                                                                  *)

(* Init establishes every part of the invariant.                           *)
LEMMA InitMemory ==
  MemoryInit => MemoryInv
<1> USE PreallocatedAssumption, SizesAssumption, ReportsAssumption
<1>1. MemoryInit => MemoryTypeOK
  <2> SUFFICES ASSUME MemoryInit PROVE MemoryTypeOK
    OBVIOUS
  <2>1. monitor \in [Starters -> [pc : MonitorSteps, old : Levels, new : Levels]]
    BY DEF MemoryInit, Off, Levels, MonitorSteps
  <2>2. /\ emergency \in BOOLEAN /\ interfered \in BOOLEAN
        /\ stopClosed \in BOOLEAN /\ crashed \in BOOLEAN /\ locked \in BOOLEAN
    BY DEF MemoryInit
  <2>3. /\ start \in [Starters -> {"idle", "done"}]
        /\ stop \in [Stoppers -> {"idle", "close", "done"}]
    BY DEF MemoryInit
  <2> QED BY <2>1, <2>2, <2>3 DEF MemoryInit, MemoryTypeOK, Levels
<1>2. MemoryInit => LedgerExact
  BY DEF MemoryInit, LedgerExact
<1>3. MemoryInit => MonitorsInv
  BY DEF MemoryInit, MonitorsInv, Off
<1>4. MemoryInit => LevelInv
  BY DEF MemoryInit, LevelInv, BlockFits, MonitorFits, AllOff, Off
<1> QED BY <1>1, <1>2, <1>3, <1>4 DEF MemoryInv

(* Every action keeps the types; AfterRelease stays a natural number.      *)
LEMMA MemoryTypes ==
  MemoryTypeOK /\ [MemoryNext]_memoryVars => MemoryTypeOK'
<1> USE PreallocatedAssumption, SizesAssumption, ReportsAssumption
<1> SUFFICES ASSUME MemoryTypeOK, [MemoryNext]_memoryVars PROVE MemoryTypeOK'
  OBVIOUS
<1> USE DEF MemoryTypeOK, Levels
<1>1. ASSUME NEW g \in Starters, Start(g) PROVE MemoryTypeOK'
  BY <1>1 DEF Start, blockVars, ledgerVars, MonitorSteps
<1>2. ASSUME NEW q \in Stoppers, StopSwap(q) PROVE MemoryTypeOK'
  BY <1>2 DEF StopSwap, blockVars, ledgerVars
<1>3. ASSUME NEW q \in Stoppers, StopClose(q) PROVE MemoryTypeOK'
  BY <1>3 DEF StopClose, blockVars, ledgerVars
<1>4. ASSUME NEW n \in Sizes, RecordAllocation(n) PROVE MemoryTypeOK'
  BY <1>4 DEF RecordAllocation, lifeVars, blockVars
<1>5. ASSUME NEW n \in Sizes, RecordRelease(n) PROVE MemoryTypeOK'
  BY <1>5 DEF RecordRelease, AfterRelease, lifeVars, blockVars
<1>6. CASE AppEmergency
  BY <1>6 DEF AppEmergency, ReleaseEmergencyMemory, ReallocateEmergencyMemory,
              lifeVars, ledgerVars
<1>7. ASSUME NEW g \in Starters, MonitorStep(g) PROVE MemoryTypeOK'
  <2>1. CASE Tick(g)
    BY <2>1 DEF Tick, Goto, MonitorSteps, lifeVars, blockVars, ledgerVars
  <2>2. CASE End(g)
    BY <2>2 DEF End, Goto, MonitorSteps, lifeVars, blockVars, ledgerVars
  <2>3. CASE ReadLevel(g)
    BY <2>3 DEF ReadLevel, MonitorSteps, lifeVars, blockVars, ledgerVars
  <2>4. CASE Detect(g)
    BY <2>4 DEF Detect, MonitorSteps, lifeVars, blockVars, ledgerVars
  <2>5. CASE WriteLevel(g)
    BY <2>5 DEF WriteLevel, Goto, MonitorSteps, lifeVars, blockVars, ledgerVars
  <2>6. CASE HandleFree(g)
    BY <2>6 DEF HandleFree, ReleaseEmergencyMemory, Goto, MonitorSteps, lifeVars,
                ledgerVars
  <2>7. CASE HandleOther(g)
    BY <2>7 DEF HandleOther, Goto, MonitorSteps, lifeVars, blockVars, ledgerVars
  <2>8. CASE Refill(g)
    BY <2>8 DEF Refill, ReallocateEmergencyMemory, Goto, MonitorSteps, lifeVars,
                ledgerVars
  <2> QED BY <1>7, <2>1, <2>2, <2>3, <2>4, <2>5, <2>6, <2>7, <2>8 DEF MonitorStep
<1>8. CASE UNCHANGED memoryVars
  BY <1>8 DEF memoryVars, lifeVars, blockVars, ledgerVars
<1> QED BY <1>1, <1>2, <1>3, <1>4, <1>5, <1>6, <1>7, <1>8 DEF MemoryNext

(* Only the two reports touch the ledger, and both keep it exact.          *)
LEMMA LedgerStep ==
  MemoryTypeOK /\ LedgerExact /\ [MemoryNext]_memoryVars => LedgerExact'
<1> USE PreallocatedAssumption, SizesAssumption, ReportsAssumption
<1> SUFFICES ASSUME MemoryTypeOK, LedgerExact, [MemoryNext]_memoryVars PROVE LedgerExact'
  OBVIOUS
<1>1. ASSUME NEW n \in Sizes, RecordAllocation(n) PROVE LedgerExact'
  BY <1>1 DEF RecordAllocation, LedgerExact, MemoryTypeOK
<1>2. ASSUME NEW n \in Sizes, RecordRelease(n) PROVE LedgerExact'
  BY <1>2 DEF RecordRelease, AfterRelease, LedgerExact, MemoryTypeOK
<1>3. CASE UNCHANGED ledgerVars
  BY <1>3 DEF ledgerVars, LedgerExact
<1>4. ASSUME NEW g \in Starters, Start(g) \/ MonitorStep(g)
      PROVE  UNCHANGED ledgerVars
  BY <1>4 DEF Start, MonitorStep, Tick, End, ReadLevel, Detect, WriteLevel,
              HandleFree,
              HandleOther, Refill
<1>5. ASSUME NEW q \in Stoppers, StopSwap(q) \/ StopClose(q)
      PROVE  UNCHANGED ledgerVars
  BY <1>5 DEF StopSwap, StopClose
<1>6. AppEmergency => UNCHANGED ledgerVars
  BY DEF AppEmergency
<1>7. UNCHANGED memoryVars => UNCHANGED ledgerVars
  BY DEF memoryVars
<1> QED BY <1>1, <1>2, <1>3, <1>4, <1>5, <1>6, <1>7 DEF MemoryNext

-----------------------------------------------------------------------------
(* The block and the level.                                                *)

(* A step of a monitor moves a launched one and no other.                  *)
LEMMA MonitorMoves ==
  ASSUME MemoryTypeOK, NEW g \in Starters, MonitorStep(g)
  PROVE  /\ monitor[g].pc # "off" /\ monitor'[g].pc # "off"
         /\ \A h \in Starters : h # g => monitor'[h] = monitor[h]
         /\ UNCHANGED <<start, interfered>>
<1> USE DEF MemoryTypeOK, lifeVars, blockVars
<1>1. CASE Tick(g)
  BY <1>1 DEF Tick, Goto
<1>2. CASE End(g)
  BY <1>2 DEF End, Goto
<1>3. CASE ReadLevel(g)
  BY <1>3 DEF ReadLevel
<1>4. CASE Detect(g)
  BY <1>4 DEF Detect
<1>5. CASE WriteLevel(g)
  BY <1>5 DEF WriteLevel, Goto
<1>6. CASE HandleFree(g)
  BY <1>6 DEF HandleFree, Goto
<1>7. CASE HandleOther(g)
  BY <1>7 DEF HandleOther, Goto
<1>8. CASE Refill(g)
  BY <1>8 DEF Refill, Goto
<1> QED BY <1>1, <1>2, <1>3, <1>4, <1>5, <1>6, <1>7, <1>8 DEF MonitorStep

(* A monitor leaves what its Start recorded, and takes a block only if     *)
(* there is to be one.                                                     *)
LEMMA MonitorsStep ==
  MemoryTypeOK /\ MonitorsInv /\ [MemoryNext]_memoryVars => MonitorsInv'
<1> USE PreallocatedAssumption, SizesAssumption, ReportsAssumption
<1> SUFFICES ASSUME MemoryTypeOK, MonitorsInv, [MemoryNext]_memoryVars PROVE MonitorsInv'
  OBVIOUS
<1> USE DEF MonitorsInv
<1>1. ASSUME NEW g \in Starters, Start(g) PROVE MonitorsInv'
  BY <1>1 DEF Start, MemoryTypeOK, blockVars
<1>2. ASSUME NEW g \in Starters, MonitorStep(g) PROVE MonitorsInv'
  <2>1. /\ monitor[g].pc # "off"
        /\ \A h \in Starters : h # g => monitor'[h] = monitor[h]
        /\ UNCHANGED start
    BY <1>2, MonitorMoves
  <2>2. emergency' => Preallocated
    BY <1>2 DEF MonitorStep, Tick, End, ReadLevel, Detect, WriteLevel, HandleFree,
                HandleOther, Refill, ReleaseEmergencyMemory, ReallocateEmergencyMemory,
                blockVars
  <2> QED BY <2>1, <2>2
<1>3. ASSUME NEW q \in Stoppers, StopSwap(q) \/ StopClose(q) PROVE MonitorsInv'
  BY <1>3 DEF StopSwap, StopClose, blockVars
<1>4. ASSUME NEW n \in Sizes, RecordAllocation(n) \/ RecordRelease(n) PROVE MonitorsInv'
  BY <1>4 DEF RecordAllocation, RecordRelease, lifeVars, blockVars
<1>5. CASE AppEmergency
  BY <1>5 DEF AppEmergency, ReleaseEmergencyMemory, ReallocateEmergencyMemory, lifeVars
<1>6. CASE UNCHANGED memoryVars
  BY <1>6 DEF memoryVars, lifeVars, blockVars
<1> QED BY <1>1, <1>2, <1>3, <1>4, <1>5, <1>6 DEF MemoryNext

(* A step of a monitor that is alone moves it from a state that fits to    *)
(* another one.                                                            *)
LEMMA MonitorKeepsFit ==
  ASSUME MemoryTypeOK, MonitorsInv, NEW g \in Starters,
         MonitorStep(g), MonitorFits(g)
  PROVE  MonitorFits(g)'
<1>1. CASE Tick(g)
  BY <1>1 DEF Tick, Goto, MonitorFits, BlockFits, MemoryTypeOK, blockVars
<1>2. CASE End(g)
  BY <1>2 DEF End, Goto, MonitorFits, BlockFits, MemoryTypeOK, blockVars
<1>3. CASE ReadLevel(g)
  BY <1>3 DEF ReadLevel, MonitorFits, BlockFits, MemoryTypeOK, blockVars
<1>4. CASE Detect(g)
  BY <1>4 DEF Detect, MonitorFits, BlockFits, MemoryTypeOK, blockVars
<1>5. CASE WriteLevel(g)
  BY <1>5 DEF WriteLevel, Goto, MonitorFits, BlockFits, MemoryTypeOK, blockVars
<1>6. CASE HandleFree(g)
  BY <1>6 DEF HandleFree, FreesBlock, ReleaseEmergencyMemory, Goto, MonitorFits,
              BlockFits,
              MemoryTypeOK
<1>7. CASE HandleOther(g)
  BY <1>7 DEF HandleOther, FreesBlock, MayRefill, Goto, MonitorFits, BlockFits,
              MemoryTypeOK,
              Levels, blockVars, MonitorsInv
<1>8. CASE Refill(g)
  <2>1. level = 0 /\ ~emergency /\ level' = level
    BY <1>8 DEF Refill, MonitorFits
  <2>2. emergency' <=> Preallocated
    BY <1>8, <2>1 DEF Refill, ReallocateEmergencyMemory
  <2>3. monitor'[g].pc = "wait"
    BY <1>8 DEF Refill, Goto, MemoryTypeOK
  <2> QED BY <2>1, <2>2, <2>3 DEF MonitorFits, BlockFits
<1> QED BY <1>1, <1>2, <1>3, <1>4, <1>5, <1>6, <1>7, <1>8 DEF MonitorStep

(* The level and the block change only in a monitor or by the application, *)
(* and a second Start makes the monitor one of two.                        *)
LEMMA LevelStep ==
  MemoryTypeOK /\ MonitorsInv /\ LevelInv /\ [MemoryNext]_memoryVars => LevelInv'
<1> USE PreallocatedAssumption, SizesAssumption, ReportsAssumption
<1> SUFFICES ASSUME MemoryTypeOK, MonitorsInv, LevelInv, [MemoryNext]_memoryVars, Alone', ~interfered'
             PROVE  /\ AllOff' => BlockFits(level)'
                    /\ \A g \in Starters : MonitorFits(g)'
  BY DEF LevelInv
<1>1. ASSUME NEW g \in Starters, MonitorStep(g)
      PROVE  AllOff' => BlockFits(level)'
  <2>1. monitor'[g].pc # "off"
    BY <1>1, MonitorMoves
  <2> QED BY <2>1 DEF AllOff
<1>2. ASSUME NEW g \in Starters, MonitorStep(g), NEW h \in Starters
      PROVE  MonitorFits(h)'
  <2>1. monitor[g].pc # "off" /\ monitor'[g].pc # "off" /\ interfered' = interfered
    BY <1>2, MonitorMoves
  <2>2. \A k \in Starters : k # g => monitor'[k] = monitor[k]
    BY <1>2, MonitorMoves
  <2>3. Alone
    BY <2>1, <2>2 DEF Alone
  <2>4. MonitorFits(g)
    BY <2>1, <2>3 DEF LevelInv
  <2>5. MonitorFits(g)'
    BY <1>2, <2>4, MonitorKeepsFit
  <2>6. h # g => monitor'[h].pc = "off"
    BY <2>1 DEF Alone
  <2> QED BY <2>5, <2>6 DEF MonitorFits
<1>3. ASSUME NEW g \in Starters, Start(g)
      PROVE  /\ AllOff' => BlockFits(level)'
             /\ \A h \in Starters : MonitorFits(h)'
  <2>1. CASE running # 0
    BY <1>3, <2>1 DEF Start, LevelInv, Alone, AllOff, MonitorFits, BlockFits, blockVars
  <2>2. CASE running = 0
    <3>1. /\ monitor'[g].pc = "wait"
          /\ \A h \in Starters : h # g => monitor'[h] = monitor[h]
          /\ UNCHANGED <<level, emergency, interfered>>
      BY <1>3, <2>2 DEF Start, MemoryTypeOK, blockVars
    <3>2. \A h \in Starters : h # g => monitor'[h].pc = "off"
      BY <3>1 DEF Alone
    <3>3. AllOff /\ Alone
      BY <1>3, <3>1, <3>2 DEF AllOff, Alone, Start, MonitorsInv
    <3>4. BlockFits(level)
      BY <3>1, <3>3 DEF LevelInv
    <3> QED BY <3>1, <3>2, <3>4 DEF AllOff, MonitorFits, BlockFits
  <2> QED BY <2>1, <2>2
<1>4. ASSUME UNCHANGED <<monitor, level, emergency, interfered>>
      PROVE  /\ AllOff' => BlockFits(level)'
             /\ \A g \in Starters : MonitorFits(g)'
  BY <1>4 DEF LevelInv, Alone, AllOff, MonitorFits, BlockFits
<1>5. ASSUME NEW q \in Stoppers, StopSwap(q) \/ StopClose(q)
      PROVE  UNCHANGED <<monitor, level, emergency, interfered>>
  BY <1>5 DEF StopSwap, StopClose, blockVars
<1>6. ASSUME NEW n \in Sizes, RecordAllocation(n) \/ RecordRelease(n)
      PROVE  UNCHANGED <<monitor, level, emergency, interfered>>
  BY <1>6 DEF RecordAllocation, RecordRelease, blockVars
<1>7. ~AppEmergency
  BY DEF AppEmergency
<1>8. UNCHANGED memoryVars => UNCHANGED <<monitor, level, emergency, interfered>>
  BY DEF memoryVars, blockVars
<1> QED BY <1>1, <1>2, <1>3, <1>4, <1>5, <1>6, <1>7, <1>8 DEF MemoryNext

-----------------------------------------------------------------------------
(* Results.                                                                *)

(* The invariant holds in every reachable state.                           *)
THEOREM MemoryInvariant == MemorySpec => []MemoryInv
<1>1. MemoryInv /\ [MemoryNext]_memoryVars => MemoryInv'
  BY MemoryTypes, LedgerStep, MonitorsStep, LevelStep DEF MemoryInv
<1> QED BY InitMemory, <1>1, PTL DEF MemorySpec

(* The ledger and the manager's other state keep to their types; the       *)
(* allocated bytes are never negative (memory_manager.go:306-309).         *)
THEOREM MemoryTypeCorrect == MemorySpec => []MemoryTypeOK
<1>1. MemoryInv => MemoryTypeOK
  BY DEF MemoryInv
<1> QED BY MemoryInvariant, <1>1, PTL

(* RecordAllocation and RecordRelease keep the ledger exact up to the      *)
(* deepest deficit of early releases, whatever sizes are reported.         *)
THEOREM LedgerIsExact == MemorySpec => []LedgerExact
<1>1. MemoryInv => LedgerExact
  BY DEF MemoryInv
<1> QED BY MemoryInvariant, <1>1, PTL

(* A lone monitor makes the emergency memory follow the level, although    *)
(* checkMemoryPressure and handleMemoryPressure lock mu three times.       *)
THEOREM EmergencyCorrect == MemorySpec => []EmergencyFollowsLevel
<1>1. MemoryInv => EmergencyFollowsLevel
  <2> SUFFICES ASSUME MemoryInv, Alone, ~interfered, Settled
               PROVE  BlockFits(level)
    BY PreallocatedAssumption DEF EmergencyFollowsLevel, BlockFits, MemoryInv, MemoryTypeOK
  <2>1. CASE AllOff
    BY <2>1 DEF MemoryInv, LevelInv
  <2>2. CASE ~AllOff
    <3>1. PICK g \in Starters : monitor[g].pc # "off"
      BY <2>2 DEF AllOff
    <3>2. monitor[g].pc \in {"wait", "read", "detect", "write", "ended"}
      BY <3>1 DEF MemoryInv, MemoryTypeOK, Settled, MonitorSteps
    <3> QED BY <3>2 DEF MemoryInv, LevelInv, MonitorFits
  <2> QED BY <2>1, <2>2
<1> QED BY MemoryInvariant, <1>1, PTL

=============================================================================
