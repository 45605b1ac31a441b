---------------------------- MODULE PolicyProofs -----------------------------
(***************************************************************************)
(* The policy of a run, for every set of valid requests and of valid       *)
(* server settings: good requests are accepted, accepted policies run,     *)
(* retries keep to the server's delays, attempts end before their leases   *)
(* and the fallback order is complete and undominated.                     *)
(***************************************************************************)
EXTENDS PolicyRules, FiniteSetTheorems, TLAPS

-----------------------------------------------------------------------------
(* Arithmetic *)

\* delay_after_attempt stops doubling at 2^20, so these powers are all it needs.
LEMMA PowersDouble ==
    ASSUME NEW k \in 0..20
    PROVE  2^k \in Nat /\ 2^k >= 1 /\ (k < 20 => 2^(k + 1) = 2 * 2^k)
<1>1. \/ k \in {0, 1, 2, 3, 4, 5, 6} \/ k \in {7, 8, 9, 10, 11, 12, 13}
      \/ k \in {14, 15, 16, 17, 18, 19, 20}
  OBVIOUS
<1>k0. CASE k = 0
  BY <1>k0, SMT
<1>k1. CASE k = 1
  BY <1>k1, SMT
<1>k2. CASE k = 2
  BY <1>k2, SMT
<1>k3. CASE k = 3
  BY <1>k3, SMT
<1>k4. CASE k = 4
  BY <1>k4, SMT
<1>k5. CASE k = 5
  BY <1>k5, SMT
<1>k6. CASE k = 6
  BY <1>k6, SMT
<1>k7. CASE k = 7
  BY <1>k7, SMT
<1>k8. CASE k = 8
  BY <1>k8, SMT
<1>k9. CASE k = 9
  BY <1>k9, SMT
<1>k10. CASE k = 10
  BY <1>k10, SMT
<1>k11. CASE k = 11
  BY <1>k11, SMT
<1>k12. CASE k = 12
  BY <1>k12, SMT
<1>k13. CASE k = 13
  BY <1>k13, SMT
<1>k14. CASE k = 14
  BY <1>k14, SMT
<1>k15. CASE k = 15
  BY <1>k15, SMT
<1>k16. CASE k = 16
  BY <1>k16, SMT
<1>k17. CASE k = 17
  BY <1>k17, SMT
<1>k18. CASE k = 18
  BY <1>k18, SMT
<1>k19. CASE k = 19
  BY <1>k19, SMT
<1>k20. CASE k = 20
  BY <1>k20, SMT
<1> QED
  BY <1>1, <1>k0, <1>k1, <1>k2, <1>k3, <1>k4, <1>k5, <1>k6, <1>k7, <1>k8, <1>k9, <1>k10,
     <1>k11, <1>k12, <1>k13, <1>k14, <1>k15, <1>k16, <1>k17, <1>k18, <1>k19, <1>k20

LEMMA Products ==
    \A a, b \in Nat : a * b \in Nat /\ a * (2 * b) = 2 * (a * b) /\ (b >= 1 => a * b >= a)
BY SMT

-----------------------------------------------------------------------------
(* The snapshot that build_policy_snapshot makes *)

LEMMA Ceilings == TenMinutes \in Nat /\ Hour \in Nat /\ Day \in Nat
BY DEF TenMinutes, Hour, Day

LEMMA SettingsTyped ==
    ASSUME NEW s \in Servers
    PROVE  /\ s.max_attempts \in 1..20 /\ s.attempt_timeout \in 1..TenMinutes
           /\ s.base_delay \in 1..Hour /\ s.max_backoff \in s.base_delay..Day
           /\ s.lease \in 5..Hour /\ s.available \subseteq DOMAIN s.catalog
           /\ ValidCatalog(s.catalog)
BY InputsAssumption DEF ValidSettings

LEMMA RequestTyped ==
    ASSUME NEW q \in Requests, NEW s \in Servers
    PROVE  /\ Default(q.max_attempts, s.max_attempts) \in 1..20
           /\ TimeoutLimit(s) \in 1..(s.lease - 1)
           /\ Default(q.attempt_timeout, TimeoutLimit(s)) \in Nat \ {0}
           /\ Default(q.initial_backoff, s.base_delay) \in 1..Hour
           /\ Default(q.max_backoff, s.max_backoff) \in 1..Day
           /\ Default(q.strategy, "balanced") \in Strategies
<1>1. TimeoutLimit(s) \in 1..(s.lease - 1)
  BY Ceilings, SettingsTyped DEF TimeoutLimit, AtMost
<1>2. /\ Default(q.max_attempts, s.max_attempts) \in 1..20
      /\ Default(q.initial_backoff, s.base_delay) \in 1..Hour
      /\ Default(q.max_backoff, s.max_backoff) \in 1..Day
  BY InputsAssumption, Ceilings, SettingsTyped DEF ValidRequest, Default
<1>3. Default(q.attempt_timeout, TimeoutLimit(s)) \in Nat \ {0}
  BY <1>1, InputsAssumption, Ceilings, SettingsTyped DEF ValidRequest, Default
<1>4. Default(q.strategy, "balanced") \in Strategies
  BY InputsAssumption DEF ValidRequest, Default, Strategies
<1> QED
  BY <1>1, <1>2, <1>3, <1>4

\* Clamping keeps every number of the snapshot usable and within the server's.
LEMMA SnapshotNumbers ==
    ASSUME NEW q \in Requests, NEW s \in Servers, NEW p, p = BuildPolicySnapshot(q, s)
    PROVE  /\ p.max_attempts \in 1..s.max_attempts
           /\ p.attempt_timeout \in 1..(s.lease - 1)
           /\ p.initial_backoff \in Nat /\ p.max_backoff \in Nat
           /\ 1 <= s.base_delay /\ s.base_delay <= p.initial_backoff
           /\ p.initial_backoff <= p.max_backoff /\ p.max_backoff <= s.max_backoff
<1>1. p.max_attempts \in 1..s.max_attempts
  BY RequestTyped, Ceilings, SettingsTyped DEF BuildPolicySnapshot, AttemptLimit, AtMost
<1>2. p.attempt_timeout \in 1..(s.lease - 1)
  <2>1. \A n \in Nat \ {0} : \A m \in 1..(s.lease - 1) : AtMost(n, m) \in 1..(s.lease - 1)
    BY Ceilings, SettingsTyped DEF AtMost
  <2> QED
    BY <2>1, RequestTyped DEF BuildPolicySnapshot
<1>3. /\ InitialBackoff(q, s) \in Nat /\ 1 <= s.base_delay
      /\ s.base_delay <= InitialBackoff(q, s) /\ InitialBackoff(q, s) <= s.max_backoff
  BY RequestTyped, Ceilings, SettingsTyped DEF InitialBackoff, AtMost, AtLeast
<1>4. ASSUME NEW i \in Nat, i <= s.max_backoff
      PROVE  /\ BackoffCap(q, s, i) \in Nat
             /\ i <= BackoffCap(q, s, i) /\ BackoffCap(q, s, i) <= s.max_backoff
  BY <1>4, RequestTyped, Ceilings, SettingsTyped DEF BackoffCap, AtMost, AtLeast
<1>5. /\ p.initial_backoff = InitialBackoff(q, s)
      /\ p.max_backoff = BackoffCap(q, s, InitialBackoff(q, s))
  BY DEF BuildPolicySnapshot
<1> QED
  BY <1>1, <1>2, <1>3, <1>4, <1>5

\* Each delay is within the snapshot's bounds, and the next is at most its double.
LEMMA Delays ==
    ASSUME NEW p, p.initial_backoff \in Nat, p.max_backoff \in Nat, p.initial_backoff >= 1,
           p.max_backoff >= p.initial_backoff, NEW n \in Nat, n >= 1
    PROVE  LET d == DelayAfterAttempt(p, n)
               e == DelayAfterAttempt(p, n + 1)
           IN  /\ d \in Nat /\ p.initial_backoff <= d /\ d <= p.max_backoff
               /\ d <= e /\ e <= 2 * d
<1> DEFINE base == p.initial_backoff
           cap == p.max_backoff
           k == AtMost(n - 1, 20)
           x == base * 2^k
           Delay(y) == AtLeast(1, AtMost(cap, y))
<1>1. k \in 0..20 /\ AtMost(n, 20) = IF k < 20 THEN k + 1 ELSE k
  BY DEF AtMost
<1>2. 2^k \in Nat /\ 2^k >= 1 /\ (k < 20 => 2^(k + 1) = 2 * 2^k)
  BY ZenonT(30), <1>1, PowersDouble
<1>3. DelayAfterAttempt(p, n) = Delay(x)
  BY DEF DelayAfterAttempt
<1>4. DelayAfterAttempt(p, n + 1) = Delay(base * 2^AtMost(n, 20))
  <2>1. (n + 1) - 1 = n
    OBVIOUS
  <2> QED
    BY <2>1 DEF DelayAfterAttempt
<1> HIDE DEF k
<1>5. x \in Nat /\ x >= base /\ base * (2 * 2^k) = 2 * x
  BY <1>2, Products
<1>6. base * 2^AtMost(n, 20) \in {x, 2 * x}
  <2>1. CASE k < 20
    <3>1. 2^AtMost(n, 20) = 2 * 2^k
      BY <1>1, <1>2, <2>1
    <3> QED
      BY <1>5, <3>1
  <2>2. CASE ~(k < 20)
    BY <1>1, <2>2
  <2> QED
    BY <2>1, <2>2
<1>7. base \in Nat /\ cap \in Nat /\ base >= 1 /\ cap >= base
  OBVIOUS
<1> HIDE DEF x, base, cap
<1>8. Delay(x) \in Nat /\ base <= Delay(x) /\ Delay(x) <= cap
  BY <1>5, <1>7 DEF AtMost, AtLeast
<1>9. Delay(x) <= Delay(2 * x) /\ Delay(2 * x) <= 2 * Delay(x) /\ Delay(x) <= 2 * Delay(x)
  BY <1>5, <1>7 DEF AtMost, AtLeast
<1>10. \A e \in {x, 2 * x} : Delay(x) <= Delay(e) /\ Delay(e) <= 2 * Delay(x)
  BY <1>8, <1>9
<1> QED
  BY <1>3, <1>4, <1>6, <1>8, <1>10 DEF base, cap

-----------------------------------------------------------------------------
(* The order that resolve_routing_decision makes *)

FiveInts(a) == DOMAIN a = {1, 2, 3, 4, 5} /\ \A i \in {1, 2, 3, 4, 5} : a[i] \in Int
TwoInts(a) == DOMAIN a = {1, 2} /\ \A i \in {1, 2} : a[i] \in Int

\* The comparison of Python tuples, spelled out.
LEMMA FiveKeys ==
    ASSUME NEW a, NEW b, FiveInts(a), FiveInts(b)
    PROVE  KeyLess(a, b) <=>
              \/ a[1] < b[1]
              \/ a[1] = b[1] /\ a[2] < b[2]
              \/ a[1] = b[1] /\ a[2] = b[2] /\ a[3] < b[3]
              \/ a[1] = b[1] /\ a[2] = b[2] /\ a[3] = b[3] /\ a[4] < b[4]
              \/ a[1] = b[1] /\ a[2] = b[2] /\ a[3] = b[3] /\ a[4] = b[4] /\ a[5] < b[5]
<1> DEFINE Less(i) == a[i] < b[i] /\ \A j \in 1..(i - 1) : a[j] = b[j]
<1>1. KeyLess(a, b) <=> Less(1) \/ Less(2) \/ Less(3) \/ Less(4) \/ Less(5)
  <2>1. KeyLess(a, b) <=> \E i \in {1, 2, 3, 4, 5} : Less(i)
    BY DEF KeyLess, FiveInts
  <2> HIDE DEF Less
  <2> QED
    BY <2>1
<1>2. /\ 1..(1 - 1) = {} /\ 1..(2 - 1) = {1} /\ 1..(3 - 1) = {1, 2}
      /\ 1..(4 - 1) = {1, 2, 3} /\ 1..(5 - 1) = {1, 2, 3, 4}
  OBVIOUS
<1>3. Less(1) <=> a[1] < b[1]
  BY <1>2
<1>4. Less(2) <=> a[1] = b[1] /\ a[2] < b[2]
  BY <1>2
<1>5. Less(3) <=> a[1] = b[1] /\ a[2] = b[2] /\ a[3] < b[3]
  BY <1>2
<1>6. Less(4) <=> a[1] = b[1] /\ a[2] = b[2] /\ a[3] = b[3] /\ a[4] < b[4]
  BY <1>2
<1>7. Less(5) <=> a[1] = b[1] /\ a[2] = b[2] /\ a[3] = b[3] /\ a[4] = b[4] /\ a[5] < b[5]
  BY <1>2
<1> HIDE DEF Less
<1> QED
  BY <1>1, <1>3, <1>4, <1>5, <1>6, <1>7

LEMMA TwoKeys ==
    ASSUME NEW a, NEW b, TwoInts(a), TwoInts(b)
    PROVE  KeyLess(a, b) <=> a[1] < b[1] \/ (a[1] = b[1] /\ a[2] < b[2])
<1>1. 1..(1 - 1) = {} /\ 1..(2 - 1) = {1}
  OBVIOUS
<1> QED
  BY <1>1 DEF KeyLess, TwoInts

\* Tuples that differ in the name are ranked, and one that is nowhere greater and
\* somewhere less is not ranked behind.
LEMMA FiveKeysRanked ==
    ASSUME NEW a, NEW b, FiveInts(a), FiveInts(b)
    PROVE  /\ a[5] # b[5] => KeyLess(a, b) \/ KeyLess(b, a)
           /\ /\ b[1] <= a[1] /\ b[2] <= a[2] /\ b[3] <= a[3] /\ b[4] <= a[4]
              /\ b[1] < a[1] \/ b[2] < a[2] \/ b[3] < a[3] \/ b[4] < a[4]
              => ~KeyLess(a, b)
BY FiveKeys DEF FiveInts

\* b is at least as good as a in every respect, and better in one.
Dominates(b, a) ==
    /\ b.cost <= a.cost /\ b.latency <= a.latency
    /\ b.passRate >= a.passRate /\ b.availability >= a.availability
    /\ \/ b.cost < a.cost \/ b.latency < a.latency
       \/ b.passRate > a.passRate \/ b.availability > a.availability

\* Any two providers are ranked, and never the dominated one first.
LEMMA Ranked ==
    ASSUME NEW a \in ProviderHistoricalMetrics, NEW b \in ProviderHistoricalMetrics,
           NEW g \in Strategies
    PROVE  /\ a.name # b.name => \/ KeyLess(SortKey(a, g), SortKey(b, g))
                                 \/ KeyLess(SortKey(b, g), SortKey(a, g))
           /\ Dominates(b, a) => ~KeyLess(SortKey(a, g), SortKey(b, g))
<1>1. /\ a.latency \in Int /\ a.cost \in Int /\ a.passRate \in Int /\ a.availability \in Int
      /\ b.latency \in Int /\ b.cost \in Int /\ b.passRate \in Int /\ b.availability \in Int
      /\ a.name \in Int /\ b.name \in Int
  BY DEF ProviderHistoricalMetrics
<1>2. /\ -a.passRate \in Int /\ -a.availability \in Int
      /\ -b.passRate \in Int /\ -b.availability \in Int
  BY <1>1
<1>7. Dominates(b, a) =>
        /\ b.cost <= a.cost /\ b.latency <= a.latency
        /\ -b.passRate <= -a.passRate /\ -b.availability <= -a.availability
        /\ \/ b.cost < a.cost \/ b.latency < a.latency
           \/ -b.passRate < -a.passRate \/ -b.availability < -a.availability
  BY <1>1 DEF Dominates
<1>3. CASE g = "lowest_latency"
  <2>1. /\ SortKey(a, g) = <<a.latency, a.cost, -a.passRate, -a.availability, a.name>>
        /\ SortKey(b, g) = <<b.latency, b.cost, -b.passRate, -b.availability, b.name>>
    BY <1>3 DEF SortKey
  <2>2. FiveInts(SortKey(a, g)) /\ FiveInts(SortKey(b, g))
    BY <1>1, <1>2, <2>1 DEF FiveInts
  <2> QED
    BY <1>7, <2>1, <2>2, FiveKeysRanked
<1>4. CASE g = "lowest_cost"
  <2>1. /\ SortKey(a, g) = <<a.cost, a.latency, -a.passRate, -a.availability, a.name>>
        /\ SortKey(b, g) = <<b.cost, b.latency, -b.passRate, -b.availability, b.name>>
    BY <1>4 DEF SortKey
  <2>2. FiveInts(SortKey(a, g)) /\ FiveInts(SortKey(b, g))
    BY <1>1, <1>2, <2>1 DEF FiveInts
  <2> QED
    BY <1>7, <2>1, <2>2, FiveKeysRanked
<1>5. CASE g = "quality_first"
  <2>1. /\ SortKey(a, g) = <<-a.passRate, -a.availability, a.latency, a.cost, a.name>>
        /\ SortKey(b, g) = <<-b.passRate, -b.availability, b.latency, b.cost, b.name>>
    BY <1>5 DEF SortKey
  <2>2. FiveInts(SortKey(a, g)) /\ FiveInts(SortKey(b, g))
    BY <1>1, <1>2, <2>1 DEF FiveInts
  <2> QED
    BY <1>7, <2>1, <2>2, FiveKeysRanked
<1>6. CASE g = "balanced"
  <2>1. /\ SortKey(a, g) = <<BalancedScore(a), a.name>>
        /\ SortKey(b, g) = <<BalancedScore(b), b.name>>
    BY <1>6 DEF SortKey
  <2>2. BalancedScore(a) \in Int /\ BalancedScore(b) \in Int
    BY <1>1 DEF BalancedScore
  <2>3. Dominates(b, a) => BalancedScore(b) < BalancedScore(a)
    BY <1>1 DEF BalancedScore, Dominates
  <2>4. TwoInts(SortKey(a, g)) /\ TwoInts(SortKey(b, g))
    BY <1>1, <2>1, <2>2 DEF TwoInts
  <2> QED
    BY <1>1, <2>1, <2>2, <2>3, <2>4, TwoKeys
<1> QED
  BY <1>3, <1>4, <1>5, <1>6 DEF Strategies

\* What a request offers: one or two providers, each in the catalogue.
LEMMA Offered ==
    ASSUME NEW q \in Requests, NEW s \in Servers
    PROVE  /\ Candidates(q) \in Seq({"deterministic", "openai"}) /\ Len(Candidates(q)) \in Nat
           /\ ToSet(Candidates(q)) \subseteq {"deterministic", "openai"}
           /\ ToSet(Candidates(q)) \subseteq DOMAIN s.catalog
           /\ Available(q, s) \subseteq {"deterministic", "openai"}
           /\ IsFiniteSet(Available(q, s))
<1>1. Candidates(q) \in Seq({"deterministic", "openai"})
  <2>1. /\ q.candidates = None \/ q.candidates \in Seq({"deterministic", "openai"})
        /\ q.provider_order = None \/ q.provider_order \in Seq({"deterministic", "openai"})
    BY InputsAssumption DEF ValidRequest
  <2>2. <<"deterministic">> \in Seq({"deterministic", "openai"})
    OBVIOUS
  <2> QED
    BY ZenonT(30), <2>1, <2>2 DEF Candidates, Default
<1>2. ToSet(Candidates(q)) \subseteq {"deterministic", "openai"}
  BY <1>1 DEF ToSet
<1>3. {"deterministic", "openai"} \subseteq DOMAIN s.catalog
  BY SettingsTyped DEF ValidCatalog
<1>4. IsFiniteSet({"deterministic", "openai"})
  <2>1. {"deterministic"} \cup {"openai"} = {"deterministic", "openai"}
    OBVIOUS
  <2>2. IsFiniteSet({"deterministic"})
    BY ZenonT(30), FS_Singleton
  <2>3. IsFiniteSet({"deterministic"} \cup {"openai"})
    BY <2>2, FS_AddElement
  <2> QED
    BY <2>1, <2>3
<1>5. Available(q, s) \subseteq {"deterministic", "openai"}
  BY <1>2 DEF Available
<1> QED
  BY <1>1, <1>2, <1>3, <1>4, <1>5, FS_Subset

\* The length check of resolve_routing_decision finds every duplicate.
LEMMA DuplicatesCounted ==
    ASSUME NEW T, NEW list \in Seq(T), ~IsInjective(list)
    PROVE  Cardinality(ToSet(list)) < Len(list)
<1> DEFINE S == 1..Len(list)
<1>1. Len(list) \in Nat /\ DOMAIN list = S
  OBVIOUS
<1>2. IsFiniteSet(S) /\ Cardinality(S) = Len(list)
  <2>1. IsFiniteSet(S) /\ Cardinality(S) = IF 1 > Len(list) THEN 0 ELSE Len(list) - 1 + 1
    BY <1>1, FS_Interval
  <2> QED
    BY <1>1, <2>1
<1>3. list \in Surjection(S, ToSet(list))
  BY <1>1 DEF Surjection, ToSet
<1>4. list \notin Injection(S, ToSet(list))
  BY DEF Injection
<1>5. /\ IsFiniteSet(ToSet(list)) /\ Cardinality(ToSet(list)) <= Cardinality(S)
      /\ Cardinality(ToSet(list)) # Cardinality(S)
  BY <1>2, <1>3, <1>4, FS_Surjection
<1>6. Cardinality(ToSet(list)) \in Nat
  BY <1>5, FS_CardinalityType
<1> QED
  BY <1>1, <1>2, <1>5, <1>6

Key(q, s, p) == SortKey(s.catalog[p], Default(q.strategy, "balanced"))

IsOrder(q, s, order) ==
    /\ order \in SetToSeqs(Available(q, s))
    /\ \A i, j \in DOMAIN order :
          i < j => KeyLess(Key(q, s, order[i]), Key(q, s, order[j]))

\* Two available providers can be put in order, one way or the other.
LEMMA TwoInOrder ==
    ASSUME NEW q \in Requests, NEW s \in Servers, NEW a, NEW b, a # b,
           Available(q, s) = {a, b}, KeyLess(Key(q, s, a), Key(q, s, b))
    PROVE  \E order : IsOrder(q, s, order)
<1> DEFINE order == <<a, b>>
<1>1. Cardinality({a, b}) = 2
  <2>1. {a} \cup {b} = {a, b} /\ b \notin {a}
    OBVIOUS
  <2>2. IsFiniteSet({a}) /\ Cardinality({a}) = 1
    BY ZenonT(30), FS_Singleton
  <2> QED
    BY <2>1, <2>2, FS_AddElement
<1>2. order \in [1..2 -> {a, b}] /\ DOMAIN order = 1..2
  OBVIOUS
<1>3. \A i, j \in 1..2 : i # j => order[i] # order[j]
  OBVIOUS
<1>4. \A i, j \in 1..2 : i < j => order[i] = a /\ order[j] = b
  OBVIOUS
<1>5. order \in SetToSeqs(Available(q, s))
  BY <1>1, <1>2, <1>3 DEF SetToSeqs
<1>6. IsOrder(q, s, order)
  BY <1>2, <1>4, <1>5 DEF IsOrder
<1> QED
  BY <1>6

LEMMA OrderExists ==
    ASSUME NEW q \in Requests, NEW s \in Servers, Available(q, s) # {}
    PROVE  \E order : IsOrder(q, s, order)
<1> DEFINE D == "deterministic"
           O == "openai"
<1>1. Available(q, s) \subseteq {D, O}
  BY Offered
<1>2. ASSUME NEW a, Available(q, s) = {a} PROVE \E order : IsOrder(q, s, order)
  <2> DEFINE order == <<a>>
  <2>1. Cardinality({a}) = 1
    BY ZenonT(30), FS_Singleton
  <2>2. order \in [1..1 -> {a}] /\ DOMAIN order = 1..1
    OBVIOUS
  <2>3. \A i, j \in 1..1 : i = j /\ ~(i < j)
    OBVIOUS
  <2>4. order \in SetToSeqs(Available(q, s))
    BY <1>2, <2>1, <2>2, <2>3 DEF SetToSeqs
  <2>5. IsOrder(q, s, order)
    BY <2>2, <2>3, <2>4 DEF IsOrder
  <2> QED
    BY <2>5
<1>3. CASE Available(q, s) = {D, O}
  <2>1. /\ {D, O} \subseteq DOMAIN s.catalog
        /\ s.catalog[D] \in ProviderHistoricalMetrics /\ s.catalog[O] \in ProviderHistoricalMetrics
        /\ s.catalog[D].name # s.catalog[O].name
    BY SettingsTyped DEF ValidCatalog
  <2>2. Default(q.strategy, "balanced") \in Strategies
    BY RequestTyped
  <2>3. KeyLess(Key(q, s, D), Key(q, s, O)) \/ KeyLess(Key(q, s, O), Key(q, s, D))
    BY <2>1, <2>2, Ranked DEF Key
  <2>4. {D, O} = {O, D} /\ D # O
    OBVIOUS
  <2> QED
    BY <1>3, <2>3, <2>4, TwoInOrder
<1>4. Available(q, s) = {D} \/ Available(q, s) = {O} \/ Available(q, s) = {D, O}
  BY <1>1
<1> QED
  BY <1>2, <1>3, <1>4

\* The order ranks every available candidate, each once.
LEMMA Ordered ==
    ASSUME NEW q \in Requests, NEW s \in Servers, Available(q, s) # {}
    PROVE  LET S == Available(q, s)
               order == ProviderOrder(q, s)
           IN  /\ IsFiniteSet(S) /\ Cardinality(S) \in Nat /\ Cardinality(S) >= 1
               /\ order \in [1..Cardinality(S) -> S] /\ Len(order) = Cardinality(S)
               /\ \A i, j \in 1..Cardinality(S) : order[i] = order[j] => i = j
               /\ \A p \in S : \E i \in 1..Cardinality(S) : order[i] = p
               /\ \A i, j \in 1..Cardinality(S) :
                     i < j => KeyLess(Key(q, s, order[i]), Key(q, s, order[j]))
<1> DEFINE S == Available(q, s)
           order == ProviderOrder(q, s)
           k == Cardinality(S)
<1>1. IsOrder(q, s, order)
  <2>1. order = CHOOSE o \in SetToSeqs(S) :
                   \A i, j \in DOMAIN o : i < j => KeyLess(Key(q, s, o[i]), Key(q, s, o[j]))
    BY DEF ProviderOrder, Key
  <2> QED
    BY ZenonT(30), <2>1, OrderExists DEF IsOrder
<1> HIDE DEF order
<1>2. IsFiniteSet(S) /\ k \in Nat /\ k # 0
  BY Offered, FS_CardinalityType, FS_EmptySet
<1>3. /\ order \in [1..k -> S]
      /\ \A i, j \in 1..k : order[i] = order[j] => i = j
  BY <1>1 DEF IsOrder, SetToSeqs
<1>4. Len(order) = k
  BY <1>2, <1>3
<1>5. order \in Injection(1..k, S)
  BY <1>3 DEF Injection, IsInjective
<1>6. Cardinality(1..k) = k
  <2>1. Cardinality(1..k) = IF 1 > k THEN 0 ELSE k - 1 + 1
    BY <1>2, FS_Interval
  <2> QED
    BY <1>2, <2>1
<1>7. order \in Surjection(1..k, S)
  BY <1>2, <1>5, <1>6, FS_Injection
<1>8. \A p \in S : \E i \in 1..k : order[i] = p
  BY <1>7 DEF Surjection
<1>9. \A i, j \in 1..k : i < j => KeyLess(Key(q, s, order[i]), Key(q, s, order[j]))
  BY <1>1, <1>3 DEF IsOrder
<1> QED
  BY <1>2, <1>3, <1>4, <1>8, <1>9 DEF order

\* An order that can be attempted: ValidPolicy holds of every snapshot that
\* passed routing.
LEMMA SnapshotValid ==
    ASSUME NEW q \in Requests, NEW s \in Servers, Available(q, s) # {}
    PROVE  ValidPolicy(BuildPolicySnapshot(q, s))
<1> DEFINE p == BuildPolicySnapshot(q, s)
<1>1. /\ p.max_attempts \in 1..s.max_attempts /\ p.attempt_timeout \in 1..(s.lease - 1)
      /\ p.initial_backoff \in Nat /\ p.max_backoff \in Nat
      /\ 1 <= s.base_delay /\ s.base_delay <= p.initial_backoff
      /\ p.initial_backoff <= p.max_backoff
  BY SnapshotNumbers
<1>2. s.max_attempts \in Nat /\ s.lease \in Nat /\ s.base_delay \in Nat
  BY Ceilings, SettingsTyped
<1>3. p.provider_order # <<>>
  <2>1. p.provider_order = ProviderOrder(q, s)
    BY DEF BuildPolicySnapshot
  <2>2. Len(ProviderOrder(q, s)) = Cardinality(Available(q, s)) /\ Cardinality(Available(q, s)) >= 1
    BY Ordered
  <2> QED
    BY <2>1, <2>2
<1> HIDE DEF p
<1>4. p.max_attempts >= 1 /\ p.attempt_timeout > 0 /\ p.initial_backoff > 0
      /\ p.max_backoff >= p.initial_backoff
  BY <1>1, <1>2
<1>5. ValidPolicy(p)
  BY <1>3, <1>4 DEF ValidPolicy
<1> QED
  BY <1>5 DEF p

\* The provider of an attempt is one of the order, and its number says which.
LEMMA ProviderUsed ==
    ASSUME NEW q \in Requests, NEW s \in Servers, Available(q, s) # {},
           NEW n \in Nat, n >= 1
    PROVE  LET k == Cardinality(Available(q, s))
               p == ProviderOfAttempt(BuildPolicySnapshot(q, s), n)
           IN  /\ AtMost(n, k) \in 1..k
               /\ p = ProviderOrder(q, s)[AtMost(n, k)] /\ p \in Available(q, s)
<1> DEFINE S == Available(q, s)
           k == Cardinality(S)
           order == ProviderOrder(q, s)
<1>1. k \in Nat /\ k >= 1 /\ order \in [1..k -> S] /\ Len(order) = k
  BY Ordered
<1>2. BuildPolicySnapshot(q, s).provider_order = order
  BY DEF BuildPolicySnapshot
<1> HIDE DEF order, k
<1>3. AtMost(n, k) \in 1..k
  BY <1>1 DEF AtMost
<1>4. ProviderOfAttempt(BuildPolicySnapshot(q, s), n) = order[AtMost(n, k)]
  BY <1>1, <1>2 DEF ProviderOfAttempt
<1> QED
  BY <1>1, <1>3, <1>4 DEF order, k

-----------------------------------------------------------------------------
(* The inductive invariant *)

\* What is known of an accepted run: its policy is the one built at submission,
\* its attempts followed the fallback order, and their number is within it.
AcceptedInv ==
    /\ policy = BuildPolicySnapshot(request, admitted)
    /\ ~Rejected(request, admitted)
    /\ tried \in Seq(Available(request, admitted))
    /\ \A i \in 1..Len(tried) : tried[i] = ProviderOfAttempt(policy, i)
    /\ Len(tried) <= policy.max_attempts
    /\ phase \in {"queued", "waiting"} => Len(tried) < policy.max_attempts
    /\ phase = "running" => Len(tried) >= 1 /\ AttemptEndsBeforeLease

\* The last delay is the one after the last attempt that has ended.
DelayInv ==
    /\ delay \in Nat
    /\ delay # 0 => admitted.base_delay <= delay /\ delay <= admitted.max_backoff
    /\ phase \in {"queued", "waiting"} /\ delay # 0 =>
          Len(tried) >= 1 /\ delay = DelayAfterAttempt(policy, Len(tried))
    /\ phase = "running" /\ delay # 0 =>
          Len(tried) >= 2 /\ delay = DelayAfterAttempt(policy, Len(tried) - 1)

PolicyInv ==
    /\ server \in Servers /\ admitted \in Servers
    /\ deploys \in Nat /\ (deploys = 0 => server = admitted)
    /\ phase = "new" => delay = 0
    /\ phase # "new" => request \in Requests
    /\ phase \in {"new", "rejected"} => policy = None /\ tried = <<>>
    /\ phase = "rejected" => Rejected(request, admitted)
    /\ phase \notin {"new", "rejected"} => AcceptedInv
    /\ DelayInv
    /\ AcceptedPolicyRunnable

LEMMA InitPolicy == Init => PolicyInv
BY DEF Init, PolicyInv, DelayInv, AcceptedPolicyRunnable

\* An attempt never ends with the code of a failed claim.
LEMMA ErrorCodes ==
    ASSUME NEW e \in Exceptions
    PROVE  ClassifyException(e) # "INVALID_STORED_POLICY"
BY DEF ClassifyException

LEMMA SubmitKeeps ==
    ASSUME PolicyInv, NEW q \in Requests, Submit(q)
    PROVE  PolicyInv'
<1>1. /\ phase = "new" /\ request' = q /\ admitted' = server
      /\ UNCHANGED <<server, deploys, tried, lease, timeout, delay, error>>
      /\ delay = 0 /\ tried = <<>> /\ policy = None
  BY DEF Submit, PolicyInv
<1>2. DelayInv'
  BY <1>1 DEF DelayInv
<1>3. AcceptedPolicyRunnable'
  BY <1>1 DEF PolicyInv, AcceptedPolicyRunnable
<1>4. CASE Rejected(q, server)
  <2>1. phase' = "rejected" /\ policy' = policy
    BY <1>4 DEF Submit
  <2>2. Rejected(request, admitted)'
    BY <1>1, <1>4 DEF Rejected
  <2> QED
    BY <1>1, <1>2, <1>3, <2>1, <2>2 DEF PolicyInv
<1>5. CASE ~Rejected(q, server)
  <2>1. phase' = "queued" /\ policy' = BuildPolicySnapshot(q, server)
    BY <1>5 DEF Submit
  <2>2. server \in Servers
    BY DEF PolicyInv
  <2>3. policy'.max_attempts >= 1 /\ policy'.max_attempts \in Nat
    <3>1. policy'.max_attempts \in 1..server.max_attempts /\ server.max_attempts \in Nat
      BY <2>1, <2>2, SnapshotNumbers, SettingsTyped
    <3> QED
      BY <3>1
  <2>4. AcceptedInv'
    BY <1>1, <1>5, <2>1, <2>3 DEF AcceptedInv
  <2> QED
    BY <1>1, <1>2, <1>3, <2>1, <2>4 DEF PolicyInv
<1> QED
  BY <1>4, <1>5

\* What holds of an accepted run before a step.
LEMMA AcceptedFacts ==
    ASSUME PolicyInv, phase \notin {"new", "rejected"}
    PROVE  /\ AcceptedInv /\ request \in Requests /\ admitted \in Servers /\ server \in Servers
           /\ Available(request, admitted) # {} /\ ValidPolicy(policy)
           /\ policy.max_attempts \in Nat /\ policy.max_attempts <= admitted.max_attempts
           /\ policy.attempt_timeout \in Nat /\ policy.attempt_timeout >= 1
           /\ server.max_attempts \in Nat /\ server.lease \in Nat /\ server.lease >= 5
           /\ Len(tried) \in Nat /\ DOMAIN tried = 1..Len(tried)
<1>1. AcceptedInv /\ request \in Requests /\ admitted \in Servers /\ server \in Servers
  BY DEF PolicyInv
<1>2. ~Rejected(request, admitted) /\ policy = BuildPolicySnapshot(request, admitted)
  BY <1>1 DEF AcceptedInv
<1>3. Available(request, admitted) # {} /\ ValidPolicy(policy)
  BY <1>2 DEF Rejected, RoutingRejects
<1>4. /\ policy.max_attempts \in 1..admitted.max_attempts
      /\ policy.attempt_timeout \in 1..(admitted.lease - 1)
  BY <1>1, <1>2, SnapshotNumbers
<1>5. /\ admitted.max_attempts \in Nat /\ admitted.lease \in Nat
      /\ server.max_attempts \in Nat /\ server.lease \in Nat /\ server.lease >= 5
  BY <1>1, Ceilings, SettingsTyped
<1>6. Len(tried) \in Nat /\ DOMAIN tried = 1..Len(tried)
  BY <1>1 DEF AcceptedInv
<1> QED
  BY <1>1, <1>3, <1>4, <1>5, <1>6

LEMMA ClaimKeeps ==
    ASSUME PolicyInv, Claim
    PROVE  PolicyInv'
<1> DEFINE n == Len(tried) + 1
<1>1. phase = "queued" /\ UNCHANGED <<request, server, admitted, deploys, policy, delay>>
  BY DEF Claim
<1>2. /\ AcceptedInv /\ request \in Requests /\ admitted \in Servers /\ server \in Servers
      /\ Available(request, admitted) # {} /\ ValidPolicy(policy)
      /\ policy.max_attempts \in Nat /\ policy.max_attempts <= admitted.max_attempts
      /\ policy.attempt_timeout \in Nat /\ policy.attempt_timeout >= 1
      /\ server.max_attempts \in Nat /\ server.lease \in Nat /\ server.lease >= 5
      /\ Len(tried) \in Nat /\ DOMAIN tried = 1..Len(tried)
  BY <1>1, AcceptedFacts
<1>3. /\ policy = BuildPolicySnapshot(request, admitted) /\ ~Rejected(request, admitted)
      /\ tried \in Seq(Available(request, admitted))
      /\ \A i \in 1..Len(tried) : tried[i] = ProviderOfAttempt(policy, i)
      /\ Len(tried) < policy.max_attempts
  BY <1>1, <1>2 DEF AcceptedInv
<1>4. /\ n \in Nat /\ n >= 1 /\ n <= policy.max_attempts
      /\ AtMost(policy.max_attempts, server.max_attempts) \in Nat
  BY <1>2, <1>3 DEF AtMost
<1>5. CASE ~ValidPolicy(policy) \/ n > AtMost(policy.max_attempts, server.max_attempts)
  <2>1. /\ phase' = "failed" /\ error' = "INVALID_STORED_POLICY"
        /\ UNCHANGED <<tried, lease, timeout>>
    BY <1>4, <1>5 DEF Claim
  <2>2. deploys > 0
    <3>1. deploys # 0
      BY <1>2, <1>4, <1>5 DEF PolicyInv, AtMost
    <3> QED
      BY <3>1 DEF PolicyInv
  <2>3. AcceptedInv'
    BY <1>1, <1>2, <1>3, <2>1 DEF AcceptedInv, Rejected, RoutingRejects
  <2>4. DelayInv'
    BY <1>1, <2>1 DEF PolicyInv, DelayInv
  <2> QED
    BY <1>1, <2>1, <2>2, <2>3, <2>4 DEF PolicyInv, AcceptedPolicyRunnable
<1>6. CASE ValidPolicy(policy) /\ n <= AtMost(policy.max_attempts, server.max_attempts)
  <2>1. /\ phase' = "running" /\ tried' = Append(tried, ProviderOfAttempt(policy, n))
        /\ lease' = server.lease /\ timeout' = ClaimTimeout(policy, server) /\ error' = error
    BY <1>4, <1>6 DEF Claim
  <2>2. ProviderOfAttempt(policy, n) \in Available(request, admitted)
    BY ZenonT(30), <1>2, <1>3, <1>4, ProviderUsed
  <2>3. /\ tried' \in Seq(Available(request, admitted)) /\ Len(tried') = n
        /\ \A i \in 1..n : tried'[i] = IF i = n THEN ProviderOfAttempt(policy, n) ELSE tried[i]
    BY <1>2, <1>3, <2>1, <2>2
  <2>4. \A i \in 1..n : tried'[i] = ProviderOfAttempt(policy, i)
    <3>1. \A i \in 1..n : i # n => i \in 1..Len(tried)
      BY <1>2
    <3> QED
      BY <1>3, <2>3, <3>1
  <2>5. 0 < timeout' /\ timeout' < lease'
    BY <1>2, <2>1 DEF ClaimTimeout, AtMost
  <2>6. AcceptedInv'
    <3>1. /\ policy' = BuildPolicySnapshot(request', admitted')
          /\ ~Rejected(request, admitted)'
      BY <1>1, <1>3 DEF Rejected, RoutingRejects
    <3>2. \A i \in 1..Len(tried') : tried'[i] = ProviderOfAttempt(policy', i)
      BY <1>1, <2>3, <2>4
    <3>3. Len(tried') <= policy'.max_attempts /\ Len(tried') >= 1
      BY <1>1, <1>4, <2>3
    <3> QED
      BY <1>1, <2>1, <2>3, <2>5, <3>1, <3>2, <3>3 DEF AcceptedInv, AttemptEndsBeforeLease
  <2>7. DelayInv'
    <3>1. Len(tried') - 1 = Len(tried)
      BY <1>2, <2>3
    <3>2. Len(tried) >= 1 => Len(tried') >= 2
      BY <1>2, <2>3
    <3> QED
      BY <1>1, <2>1, <3>1, <3>2 DEF PolicyInv, DelayInv
  <2>8. AcceptedPolicyRunnable'
    BY <1>1, <2>1 DEF PolicyInv, AcceptedPolicyRunnable
  <2> QED
    BY <1>1, <2>1, <2>6, <2>7, <2>8 DEF PolicyInv
<1> QED
  BY <1>4, <1>5, <1>6

\* An attempt ends without a result.
LEMMA FinishKeeps ==
    ASSUME PolicyInv, NEW code, code # "INVALID_STORED_POLICY", FinishFailed(code)
    PROVE  /\ PolicyInv'
           /\ \/ delay' = delay
              \/ /\ admitted.base_delay <= delay' /\ delay' <= admitted.max_backoff
                 /\ delay # 0 => delay <= delay' /\ delay' <= 2 * delay
<1>1. /\ phase = "running" /\ error' = code
      /\ UNCHANGED <<request, server, admitted, deploys, policy, tried, lease, timeout>>
  BY DEF FinishFailed
<1>2. /\ AcceptedInv /\ request \in Requests /\ admitted \in Servers
      /\ policy.max_attempts \in Nat /\ Len(tried) \in Nat
  BY <1>1, AcceptedFacts
<1>3. /\ policy = BuildPolicySnapshot(request, admitted) /\ Len(tried) >= 1
      /\ Len(tried) <= policy.max_attempts
  BY <1>1, <1>2 DEF AcceptedInv
<1>4. AcceptedPolicyRunnable'
  BY <1>1 DEF AcceptedPolicyRunnable
<1>5. ASSUME phase' \in {"waiting", "dead-lettered", "failed"},
             phase' = "waiting" => Len(tried) < policy.max_attempts, DelayInv'
      PROVE  PolicyInv'
  <2>1. AcceptedInv'
    BY <1>1, <1>2, <1>5 DEF AcceptedInv, Rejected, RoutingRejects
  <2> QED
    BY <1>1, <1>4, <1>5, <2>1 DEF PolicyInv
<1>6. CASE IsRetryableError(code) /\ Len(tried) < policy.max_attempts
  <2>1. phase' = "waiting" /\ delay' = DelayAfterAttempt(policy, Len(tried))
    BY <1>2, <1>6 DEF FinishFailed
  <2>2. /\ policy.initial_backoff \in Nat /\ policy.max_backoff \in Nat
        /\ 1 <= admitted.base_delay /\ admitted.base_delay <= policy.initial_backoff
        /\ policy.initial_backoff <= policy.max_backoff
        /\ policy.max_backoff <= admitted.max_backoff
    BY <1>2, <1>3, SnapshotNumbers
  <2>3. admitted.base_delay \in Nat /\ admitted.max_backoff \in Int
    BY <1>2, Ceilings, SettingsTyped
  <2>4. policy.initial_backoff >= 1 /\ policy.max_backoff >= policy.initial_backoff
    BY <2>2, <2>3
  <2>5. /\ delay' \in Nat /\ policy.initial_backoff <= delay' /\ delay' <= policy.max_backoff
    BY ZenonT(30), <1>2, <1>3, <2>1, <2>2, <2>4, Delays
  <2>6. admitted.base_delay <= delay' /\ delay' <= admitted.max_backoff
    BY <2>2, <2>3, <2>5
  <2>7. DelayInv'
    BY <1>1, <1>3, <2>1, <2>5, <2>6 DEF DelayInv
  <2>8. ASSUME delay # 0 PROVE delay <= delay' /\ delay' <= 2 * delay
    <3>1. Len(tried) >= 2 /\ delay = DelayAfterAttempt(policy, Len(tried) - 1)
      BY <1>1, <2>8 DEF PolicyInv, DelayInv
    <3>2. /\ Len(tried) - 1 \in Nat /\ Len(tried) - 1 >= 1
          /\ (Len(tried) - 1) + 1 = Len(tried)
      BY <1>2, <3>1
    <3> QED
      BY ZenonT(30), <2>1, <2>2, <2>4, <3>1, <3>2, Delays
  <2> QED
    BY <1>5, <1>6, <2>1, <2>6, <2>7, <2>8
<1>7. CASE ~(IsRetryableError(code) /\ Len(tried) < policy.max_attempts)
  <2>1. phase' \in {"dead-lettered", "failed"} /\ delay' = delay
    BY <1>2, <1>7 DEF FinishFailed
  <2>2. DelayInv'
    BY <1>1, <2>1 DEF PolicyInv, DelayInv
  <2> QED
    BY <1>5, <2>1, <2>2
<1> QED
  BY <1>6, <1>7

\* The other steps of an accepted run.
LEMMA RestKeeps ==
    ASSUME PolicyInv, AttemptSucceeds \/ RetryDue \/ \E s \in Servers : Redeploy(s)
    PROVE  PolicyInv'
<1>1. /\ UNCHANGED <<request, admitted, policy, tried, lease, timeout, delay>>
      /\ phase \in {"queued", "running", "waiting"}
      /\ \/ phase' = phase
         \/ phase = "waiting" /\ phase' = "queued"
         \/ phase = "running" /\ phase' = "succeeded"
  BY DEF AttemptSucceeds, RetryDue, Redeploy
<1>2. AcceptedInv'
  <2>1. AcceptedInv
    BY <1>1 DEF PolicyInv
  <2> QED
    BY <1>1, <2>1 DEF AcceptedInv, AttemptEndsBeforeLease, Rejected, RoutingRejects
<1>3. DelayInv'
  BY <1>1 DEF PolicyInv, DelayInv
<1>4. CASE AttemptSucceeds \/ RetryDue
  <2>1. server' = server /\ deploys' = deploys /\ error' \in {"NONE", error}
    BY <1>4 DEF AttemptSucceeds, RetryDue
  <2>2. AcceptedPolicyRunnable'
    BY <2>1 DEF PolicyInv, AcceptedPolicyRunnable
  <2> QED
    BY <1>1, <1>2, <1>3, <2>1, <2>2 DEF PolicyInv
<1>5. CASE \E s \in Servers : Redeploy(s)
  <2>1. server' \in Servers /\ deploys' = deploys + 1 /\ phase' = phase
    BY <1>5 DEF Redeploy
  <2>2. deploys' \in Nat /\ deploys' > 0
    BY <2>1 DEF PolicyInv
  <2>3. AcceptedPolicyRunnable'
    BY <2>2 DEF AcceptedPolicyRunnable
  <2> QED
    BY <1>1, <1>2, <1>3, <2>1, <2>2, <2>3 DEF PolicyInv
<1> QED
  BY <1>4, <1>5

LEMMA UnchangedKeeps ==
    ASSUME PolicyInv, UNCHANGED vars
    PROVE  PolicyInv'
BY DEF vars, PolicyInv, AcceptedInv, DelayInv, AcceptedPolicyRunnable,
       AttemptEndsBeforeLease, Rejected, RoutingRejects

LEMMA PolicyStep == PolicyInv /\ [Next]_vars => PolicyInv'
<1> SUFFICES ASSUME PolicyInv, [Next]_vars PROVE PolicyInv'
  OBVIOUS
<1>1. ASSUME NEW e \in Exceptions, AttemptFails(e) PROVE PolicyInv'
  BY <1>1, ErrorCodes, FinishKeeps DEF AttemptFails
<1>2. CASE LeaseRecovered
  <2>1. "EXECUTION_LEASE_EXPIRED" # "INVALID_STORED_POLICY"
    OBVIOUS
  <2> QED
    BY <1>2, <2>1, FinishKeeps DEF LeaseRecovered
<1> QED
  BY <1>1, <1>2, SubmitKeeps, ClaimKeeps, RestKeeps, UnchangedKeeps DEF Next

LEMMA PolicyInvariant == Spec => []PolicyInv
BY InitPolicy, PolicyStep, PTL DEF Spec

-----------------------------------------------------------------------------
(* Theorems *)

\* While the settings stay what they were at submission, no claim of an accepted
\* run finds its stored policy invalid or its attempts used up.
\* (build_policy_snapshot and RetryPolicy, retry.py; claim, execution_service.py.)
THEOREM AcceptedPoliciesRun == Spec => []AcceptedPolicyRunnable
<1>1. PolicyInv => AcceptedPolicyRunnable
  BY DEF PolicyInv
<1> QED
  BY <1>1, PolicyInvariant, PTL

\* However the settings change, the time limit a claim gives its attempt ends
\* before the lease the same claim takes.  (claim, execution_service.py.)
THEOREM TimeoutsWithinLeases == Spec => []AttemptEndsBeforeLease
<1>1. PolicyInv => AttemptEndsBeforeLease
  BY DEF PolicyInv, AcceptedInv, AttemptEndsBeforeLease
<1> QED
  BY <1>1, PolicyInvariant, PTL

\* Clamping and ranking turn no consistent request into a rejected one.
\* (build_policy_snapshot, retry.py; resolve_routing_decision, routing.py.)
THEOREM GoodRequestsAccepted == Spec => []ConsistentRequestsAccepted
<1>1. PolicyInv => ConsistentRequestsAccepted
  <2> SUFFICES ASSUME PolicyInv, phase = "rejected",
                      ~(Cardinality(ToSet(Candidates(request))) < Len(Candidates(request))),
                      Available(request, admitted) # {}
               PROVE  Contradictory(request, admitted)
    BY DEF ConsistentRequestsAccepted, Contradictory, Available
  <2>1. request \in Requests /\ admitted \in Servers /\ Rejected(request, admitted)
    BY DEF PolicyInv
  <2>2. IsInjective(Candidates(request))
    BY <2>1, Offered, DuplicatesCounted
  <2>3. ToSet(Candidates(request)) \subseteq DOMAIN admitted.catalog
    BY <2>1, Offered
  <2>4. ValidPolicy(BuildPolicySnapshot(request, admitted))
    BY <2>1, SnapshotValid
  <2> QED
    BY <2>1, <2>2, <2>3, <2>4 DEF Rejected, RoutingRejects
<1> QED
  BY <1>1, PolicyInvariant, PTL

\* What the first attempts of a run went through: the order, from its start.
LEMMA TriedInOrder ==
    ASSUME PolicyInv, phase \notin {"new", "rejected"}
    PROVE  LET S == Available(request, admitted)
               order == ProviderOrder(request, admitted)
           IN  /\ Len(tried) \in Nat /\ DOMAIN tried = 1..Len(tried)
               /\ \A i \in 1..Len(tried) :
                     /\ AtMost(i, Cardinality(S)) \in 1..Cardinality(S)
                     /\ tried[i] = order[AtMost(i, Cardinality(S))]
<1>1. /\ AcceptedInv /\ request \in Requests /\ admitted \in Servers
      /\ Available(request, admitted) # {}
      /\ Len(tried) \in Nat /\ DOMAIN tried = 1..Len(tried)
  BY AcceptedFacts
<1>2. \A i \in 1..Len(tried) : tried[i] = ProviderOfAttempt(BuildPolicySnapshot(request, admitted), i)
  BY <1>1 DEF AcceptedInv
<1>3. \A i \in 1..Len(tried) : i \in Nat /\ i >= 1
  BY <1>1
<1> QED
  BY <1>1, <1>2, <1>3, ProviderUsed

LEMMA LastAppended ==
    ASSUME NEW T, NEW seq \in Seq(T), NEW p \in T
    PROVE  Append(seq, p)[Len(Append(seq, p))] = p
OBVIOUS

\* After an error that has fallback the next attempt goes to a candidate that was
\* not tried before, while there is one.
\* (claim takes providers from the order that resolve_routing_decision made.)
THEOREM FallbackIsComplete == Spec => FallbackCoversCandidates
<1>1. PolicyInv /\ [Next]_vars =>
        [tried' # tried /\ error \in FallbackErrors =>
          LET usable == ToSet(Candidates(request)) \cap admitted.available
              next == tried'[Len(tried')]
          IN next \in usable /\ (next \in ToSet(tried) => ToSet(tried) = usable)]_vars
  <2> DEFINE S == Available(request, admitted)
             order == ProviderOrder(request, admitted)
             k == Cardinality(S)
             n == Len(tried) + 1
             next == tried'[Len(tried')]
  <2> SUFFICES ASSUME PolicyInv, [Next]_vars, tried' # tried
               PROVE  next \in S /\ (next \in ToSet(tried) => ToSet(tried) = S)
    BY Zenon DEF Available
  <2>1. Claim
    BY DEF Next, vars, Submit, AttemptFails, LeaseRecovered, FinishFailed, AttemptSucceeds,
       RetryDue, Redeploy
  <2>2. phase = "queued" /\ tried' = Append(tried, ProviderOfAttempt(policy, n))
    BY <2>1 DEF Claim
  <2>3. /\ AcceptedInv /\ request \in Requests /\ admitted \in Servers /\ S # {}
        /\ Len(tried) \in Nat /\ DOMAIN tried = 1..Len(tried)
    BY ZenonT(30), <2>2, AcceptedFacts
  <2>4. tried \in Seq(S) /\ policy = BuildPolicySnapshot(request, admitted)
    BY <2>3 DEF AcceptedInv
  <2>5. /\ k \in Nat /\ k >= 1 /\ order \in [1..k -> S]
        /\ \A i, j \in 1..k : order[i] = order[j] => i = j
        /\ \A p \in S : \E i \in 1..k : order[i] = p
    BY <2>3, Ordered
  <2>6. \A i \in 1..Len(tried) : AtMost(i, k) \in 1..k /\ tried[i] = order[AtMost(i, k)]
    BY ZenonT(30), <2>2, TriedInOrder
  <2>7. n \in Nat /\ n >= 1
    BY <2>3
  <2>8. AtMost(n, k) \in 1..k /\ ProviderOfAttempt(policy, n) = order[AtMost(n, k)]
    BY <2>3, <2>4, <2>7, ProviderUsed
  <2> HIDE DEF order, k, S
  <2>9. next = order[AtMost(n, k)]
    <3>1. PICK p \in S : p = ProviderOfAttempt(policy, n)
      BY <2>5, <2>8
    <3>2. tried' = Append(tried, p)
      BY Zenon, <2>2, <3>1
    <3>3. Append(tried, p)[Len(Append(tried, p))] = p
      BY Zenon, <2>4, LastAppended
    <3> QED
      BY Zenon, <2>8, <3>1, <3>2, <3>3
  <2>10. next \in S
    BY <2>5, <2>8, <2>9
  <2> HIDE DEF next
  <2>11. ASSUME next \in ToSet(tried) PROVE ToSet(tried) = S
    <3>1. PICK i \in 1..Len(tried) : tried[i] = next
      BY <2>3, <2>11 DEF ToSet
    <3>2. AtMost(i, k) = AtMost(n, k)
      BY <2>5, <2>6, <2>8, <2>9, <3>1
    <3>3. i >= k
      BY <2>3, <2>5, <3>1, <3>2 DEF AtMost
    <3>4. \A j \in 1..k : j \in 1..Len(tried) /\ AtMost(j, k) = j
      BY <2>3, <2>5, <3>1, <3>3 DEF AtMost
    <3>5. \A j \in 1..k : order[j] \in ToSet(tried)
      BY <2>3, <2>6, <3>4 DEF ToSet
    <3>6. S \subseteq ToSet(tried)
      BY <2>5, <3>5
    <3>7. ToSet(tried) \subseteq S
      BY <2>3, <2>5, <2>6 DEF ToSet
    <3> QED
      BY Zenon, <3>6, <3>7
  <2> QED
    BY <2>10, <2>11
<1> QED
  BY <1>1, PolicyInvariant, PTL DEF Spec, FallbackCoversCandidates

\* No attempt goes to a provider while one that is better and nowhere worse is
\* still untried, whatever the strategy.  (_ranked_candidate, routing.py.)
THEOREM ChoicesUndominated == Spec => []NoDominatedChoice
<1>1. PolicyInv => NoDominatedChoice
  <2> SUFFICES ASSUME PolicyInv, NEW i \in DOMAIN tried, NEW p \in Available(request, admitted),
                      Dominates(admitted.catalog[p], admitted.catalog[tried[i]])
               PROVE  \E j \in 1..(i - 1) : tried[j] = p
    BY DEF NoDominatedChoice, Dominates
  <2>1. phase \notin {"new", "rejected"}
    BY DEF PolicyInv
  <2> DEFINE S == Available(request, admitted)
             order == ProviderOrder(request, admitted)
             k == Cardinality(S)
             g == Default(request.strategy, "balanced")
             at == AtMost(i, k)
  <2>2. request \in Requests /\ admitted \in Servers /\ S # {}
    BY <2>1, AcceptedFacts
  <2>3. /\ k \in Nat /\ k >= 1 /\ order \in [1..k -> S]
        /\ \A q \in S : \E j \in 1..k : order[j] = q
        /\ \A j, m \in 1..k : j < m =>
              KeyLess(Key(request, admitted, order[j]), Key(request, admitted, order[m]))
    BY <2>2, Ordered
  <2>4. /\ Len(tried) \in Nat /\ i \in 1..Len(tried)
        /\ \A j \in 1..Len(tried) : AtMost(j, k) \in 1..k /\ tried[j] = order[AtMost(j, k)]
    BY <2>1, TriedInOrder
  <2> HIDE DEF order, k
  <2>5. tried[i] = order[at] /\ at \in 1..k /\ tried[i] \in S
    BY <2>3, <2>4
  <2>6. PICK j \in 1..k : order[j] = p
    BY <2>3
  <2>7. /\ admitted.catalog[p] \in ProviderHistoricalMetrics
        /\ admitted.catalog[tried[i]] \in ProviderHistoricalMetrics
    <3>1. S \subseteq DOMAIN admitted.catalog
      BY ZenonT(30), <2>2, Offered DEF Available
    <3>2. \A q \in DOMAIN admitted.catalog : admitted.catalog[q] \in ProviderHistoricalMetrics
      BY <2>2, SettingsTyped DEF ValidCatalog
    <3> QED
      BY <2>5, <3>1, <3>2
  <2>8. ~KeyLess(Key(request, admitted, tried[i]), Key(request, admitted, p))
    BY <2>2, <2>7, RequestTyped, Ranked DEF Key
  <2>9. ~(at < j)
    BY <2>3, <2>5, <2>6, <2>8
  <2>10. j # at
    <3>1. CASE p = tried[i]
      BY <2>7, <3>1 DEF Dominates, ProviderHistoricalMetrics
    <3> QED
      BY <2>5, <2>6, <3>1
  <2>11. j \in 1..(i - 1) /\ j \in 1..Len(tried) /\ AtMost(j, k) = j
    BY <2>3, <2>4, <2>5, <2>6, <2>9, <2>10 DEF AtMost
  <2>12. tried[j] = p
    BY <2>4, <2>6, <2>11
  <2> QED
    BY <2>11, <2>12
<1> QED
  BY <1>1, PolicyInvariant, PTL

\* Retries wait at least the server's base delay and at most its cap, and each
\* waits at least as long as the one before and at most twice as long.
\* (delay_after_attempt, retry.py; _schedule_retry_or_finalize.)
THEOREM BackoffsScheduled == Spec => BackoffSchedule
<1>1. PolicyInv /\ [Next]_vars =>
        [delay' # 0 =>
          /\ admitted.base_delay <= delay' /\ delay' <= admitted.max_backoff
          /\ delay # 0 => delay <= delay' /\ delay' <= 2 * delay]_vars
  <2> SUFFICES ASSUME PolicyInv, [Next]_vars, delay' # 0
               PROVE  /\ admitted.base_delay <= delay' /\ delay' <= admitted.max_backoff
                      /\ delay # 0 => delay <= delay' /\ delay' <= 2 * delay
    OBVIOUS
  <2>1. CASE delay' = delay
    BY <2>1 DEF PolicyInv, DelayInv
  <2>2. ASSUME NEW e \in Exceptions, AttemptFails(e)
        PROVE  \/ delay' = delay
               \/ /\ admitted.base_delay <= delay' /\ delay' <= admitted.max_backoff
                  /\ delay # 0 => delay <= delay' /\ delay' <= 2 * delay
    BY <2>2, ErrorCodes, FinishKeeps DEF AttemptFails
  <2>3. CASE LeaseRecovered
    <3>1. "EXECUTION_LEASE_EXPIRED" # "INVALID_STORED_POLICY"
      OBVIOUS
    <3> QED
      BY <2>1, <2>3, <3>1, FinishKeeps DEF LeaseRecovered
  <2> QED
    BY <2>1, <2>2, <2>3 DEF Next, Submit, Claim, AttemptSucceeds, RetryDue, Redeploy, vars
<1> QED
  BY <1>1, PolicyInvariant, PTL DEF Spec, BackoffSchedule
=============================================================================
