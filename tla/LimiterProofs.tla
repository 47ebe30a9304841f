---------------------------- MODULE LimiterProofs ----------------------------
(***************************************************************************)
(* The properties of the two limiters, for any limits, windows and         *)
(* thresholds, and for any clients and errors.                             *)
(*                                                                         *)
(* RateLimiter: the total is a weighted mean of two counts, so it lies     *)
(* between them; the rest is bookkeeping.                                  *)
(*                                                                         *)
(* ErrorLimiter: its records are always the latest errors, and the ones    *)
(* before them were out of the window when the last error came.  So of the *)
(* errors a burst could end with, none is dropped before it is counted.    *)
(***************************************************************************)
EXTENDS MCLimiters, SequenceTheorems, WellFoundedInduction, TLAPS

(* The rate limiter.                                                       *)

\* Multiplication by a number that is not negative keeps the order.
LEMMA MulOrder ==
    ASSUME NEW a \in Int, NEW b \in Int, NEW k \in Nat, a <= b
    PROVE  a * k <= b * k
OBVIOUS

\* Multiplying by a positive factor keeps a strict inequality; the solvers
\* need it as a fact.
LEMMA MulStrictOrder ==
    ASSUME NEW a \in Int, NEW b \in Int, NEW k \in Nat, a < b, k > 0
    PROVE  a * k < b * k
OBVIOUS

\* A mean of two counts with weights s - d and d is at most a bound of both.
LEMMA MeanAtMost ==
    ASSUME NEW p \in Nat, NEW c \in Nat, NEW l \in Nat, NEW s \in Nat, NEW d \in 0 .. s,
           p <= l, c <= l
    PROVE  p * (s - d) + c * d <= l * s
<1>1. p * (s - d) <= l * (s - d)
  BY MulOrder
<1>2. c * d <= l * d
  BY MulOrder
<1>3. l * (s - d) + l * d = l * s
  OBVIOUS
<1> QED BY <1>1, <1>2, <1>3

\* And above a number below both.
LEMMA MeanAbove ==
    ASSUME NEW p \in Nat, NEW c \in Nat, NEW l \in Nat, NEW s \in Nat \ {0}, NEW d \in 0 .. s,
           p > l, c > l
    PROVE  p * (s - d) + c * d > l * s
<1>1. p * (s - d) >= (l + 1) * (s - d)
  BY MulOrder
<1>2. c * d >= (l + 1) * d
  BY MulOrder
<1>3. (l + 1) * (s - d) + (l + 1) * d = (l + 1) * s
  OBVIOUS
<1>4. (l + 1) * s > l * s
  OBVIOUS
<1> QED BY <1>1, <1>2, <1>3, <1>4

\* Up to half the span, one count above twice a number is enough.
LEMMA HalfMeanAbove ==
    ASSUME NEW p \in Nat, NEW c \in Nat, NEW l \in Nat, NEW w \in Nat \ {0}, NEW d \in 0 .. w,
           p > 2 * l
    PROVE  p * (2 * w - d) + c * d > l * (2 * w)
<1>1. p * (2 * w - d) >= p * w
  <2>1. w * p <= (2 * w - d) * p
    BY MulOrder
  <2> QED BY <2>1
<1>2. p * w > (2 * l) * w
  BY MulStrictOrder
<1>3. (2 * l) * w = l * (2 * w)
  OBVIOUS
<1>4. c * d >= 0
  OBVIOUS
<1> QED BY <1>1, <1>2, <1>3, <1>4

-----------------------------------------------------------------------------

\* What a request leaves in the client's entry.
LEMMA CountedType ==
    ASSUME TypeOK, NEW c \in Client
    PROVE  /\ Counted(c) \in LimitData
           /\ Counted(c).timePivot <= now
           /\ Counted(c).timePivot \in Nat \/ Counted(c).timePivot = limits[c].timePivot
           /\ Before(Counted(c)) \in Nat
           /\ Counted(c).currentWindow \in Nat \ {0}
<1>1. /\ now \in Nat
      /\ limits[c] \in LimitData
      /\ limits[c].timePivot <= now
  BY DEF TypeOK
<1>2. /\ Counted(c) \in LimitData
      /\ Counted(c).timePivot <= now
      /\ Counted(c).timePivot \in Nat \/ Counted(c).timePivot = limits[c].timePivot
      /\ Counted(c).currentWindow \in Nat \ {0}
  <2>1. CASE limits[c] = Unknown
    BY <1>1, <2>1 DEF Counted, LimitData, NoWindow
  <2>2. CASE limits[c] # Unknown /\ Rolls(c)
    BY <1>1, <2>2 DEF Counted, LimitData, NoWindow
  <2>3. CASE limits[c] # Unknown /\ ~Rolls(c)
    BY <1>1, <2>3 DEF Counted, LimitData, NoWindow
  <2> QED BY <2>1, <2>2, <2>3
<1>3. Before(Counted(c)) \in Nat
  BY <1>2 DEF Before, LimitData
<1> QED BY <1>2, <1>3

\* The age of a pivot is a natural number.
LEMMA DeltaType ==
    ASSUME TypeOK, NEW c \in Client
    PROVE  Delta(c) \in Nat
BY DEF TypeOK, Delta, LimitData, NoWindow

\* Every step of the limiter keeps the type invariant.
LEMMA TypeStep == ASSUME TypeOK, [Next]_vars PROVE TypeOK'
<1>1. CASE Tick
  BY <1>1 DEF TypeOK, Tick, LimitData, NoWindow
<1>2. ASSUME NEW c \in Client, GrantsAccess(c) PROVE TypeOK'
  <2>1. /\ limits' = [limits EXCEPT ![c] = IF Limit = 0 THEN @ ELSE Counted(c)]
        /\ verdict' = [verdict EXCEPT ![c] = IF Granted(c) THEN "granted" ELSE "refused"]
        /\ grants' = [grants EXCEPT ![c] =
                         IF Limit = 0 THEN @
                         ELSE (IF Rolls(c) THEN 0 ELSE @) + (IF Granted(c) THEN 1 ELSE 0)]
        /\ now' = now
    BY <1>2 DEF GrantsAccess
  <2>2. Counted(c) \in LimitData /\ Counted(c).timePivot <= now
    BY CountedType
  <2>3. limits' \in [Client -> LimitData] /\ \A k \in Client : limits'[k].timePivot <= now
    BY <2>1, <2>2 DEF TypeOK
  <2>4. verdict' \in [Client -> {"none", "granted", "refused"}]
    BY <2>1 DEF TypeOK
  <2>5. grants' \in [Client -> Nat]
    BY <2>1 DEF TypeOK
  <2> QED BY <2>1, <2>3, <2>4, <2>5 DEF TypeOK
<1>3. CASE UNCHANGED vars
  BY <1>3 DEF TypeOK, vars
<1> QED BY <1>1, <1>2, <1>3 DEF Next

\* Every entry of the limiter's map keeps its type (RateLimiter.ts:1-5).
THEOREM RateLimiterTypeOK == Spec => []TypeOK
<1>1. Init => TypeOK
  BY DEF Init, TypeOK, LimitData, Unknown, NoWindow
<1>2. TypeOK /\ [Next]_vars => TypeOK'
  BY TypeStep
<1> QED BY <1>1, <1>2, PTL DEF Spec

\* A request seen in a step is that step's, and its verdict as computed.
LEMMA AsksIsGrantsAccess ==
    ASSUME TypeOK, [Next]_vars, NEW c \in Client, Asks(c)
    PROVE  /\ Limit # 0
           /\ limits'[c] = Counted(c)
           /\ verdict'[c] = IF Granted(c) THEN "granted" ELSE "refused"
<1>1. ~Tick /\ ~UNCHANGED vars
  BY DEF Asks, Tick, vars
<1>2. PICK k \in Client : GrantsAccess(k)
  BY <1>1 DEF Next
<1>3. /\ limits' = [limits EXCEPT ![k] = IF Limit = 0 THEN @ ELSE Counted(k)]
      /\ verdict' = [verdict EXCEPT ![k] = IF Granted(k) THEN "granted" ELSE "refused"]
  BY <1>2 DEF GrantsAccess
<1>4. k = c /\ Limit # 0
  BY <1>3 DEF Asks, TypeOK
<1> QED BY <1>3, <1>4 DEF TypeOK

\* A client that exceeds the limit in neither window is not refused while its
\* pivot is no older than the span (RateLimiter.ts:39-45).
THEOREM RateLimiterNoFalseRefusal == Spec => NoFalseRefusal
<1>1. ASSUME TypeOK, [Next]_vars, NEW c \in Client,
             Asks(c), Delta(c) <= WindowSpan, verdict'[c] = "refused"
      PROVE  Exceeds(Before(limits'[c])) \/ Exceeds(limits'[c].currentWindow)
  <2>1. limits'[c] = Counted(c) /\ ~Granted(c)
    BY <1>1, AsksIsGrantsAccess
  <2>2. Before(Counted(c)) \in Nat /\ Counted(c).currentWindow \in Nat
    BY <1>1, CountedType
  <2>3. Limit \in Nat /\ WindowSpan \in Nat /\ Delta(c) \in 0 .. WindowSpan
    BY <1>1, DeltaType, RateAssumption DEF WindowSpan
  <2>4. ~(Before(Counted(c)) * (WindowSpan - Delta(c))
            + Counted(c).currentWindow * Delta(c) <= Limit * WindowSpan)
    BY <2>1 DEF Granted, WithinLimit
  <2>5. ~(Before(Counted(c)) <= Limit /\ Counted(c).currentWindow <= Limit)
    BY <2>2, <2>3, <2>4, MeanAtMost
  <2> QED BY <2>1, <2>2, <2>3, <2>5 DEF Exceeds
<1>2. TypeOK /\ [Next]_vars =>
        [\A c \in Client :
            /\ Asks(c)
            /\ Delta(c) <= WindowSpan
            /\ verdict'[c] = "refused"
            => Exceeds(Before(limits'[c])) \/ Exceeds(limits'[c].currentWindow)]_vars
  BY <1>1
<1> QED BY <1>2, RateLimiterTypeOK, PTL DEF Spec, NoFalseRefusal

\* A client that exceeds the limit in both windows is refused, at any moment
\* (RateLimiter.ts:39-45).
THEOREM RateLimiterFloodRefused == Spec => FloodRefused
<1>1. ASSUME TypeOK, [Next]_vars, NEW c \in Client,
             Asks(c), Delta(c) <= WindowSpan,
             Exceeds(Before(limits'[c])), Exceeds(limits'[c].currentWindow)
      PROVE  verdict'[c] = "refused"
  <2>1. /\ limits'[c] = Counted(c)
        /\ Limit # 0
        /\ verdict'[c] = IF Granted(c) THEN "granted" ELSE "refused"
    BY <1>1, AsksIsGrantsAccess
  <2>2. Before(Counted(c)) \in Nat /\ Counted(c).currentWindow \in Nat
    BY <1>1, CountedType
  <2>3. Limit \in Nat /\ WindowSpan \in Nat \ {0} /\ Delta(c) \in 0 .. WindowSpan
    BY <1>1, DeltaType, RateAssumption DEF WindowSpan
  <2>4. Before(Counted(c)) * (WindowSpan - Delta(c))
          + Counted(c).currentWindow * Delta(c) > Limit * WindowSpan
    BY <1>1, <2>1, <2>2, <2>3, MeanAbove DEF Exceeds
  <2>5. ~Granted(c)
    BY <2>1, <2>2, <2>3, <2>4 DEF Granted, WithinLimit
  <2> QED BY <2>1, <2>5
<1>2. TypeOK /\ [Next]_vars =>
        [\A c \in Client :
            /\ Asks(c)
            /\ Delta(c) <= WindowSpan
            /\ Exceeds(Before(limits'[c]))
            /\ Exceeds(limits'[c].currentWindow)
            => verdict'[c] = "refused"]_vars
  BY <1>1
<1> QED BY <1>2, RateLimiterTypeOK, PTL DEF Spec, FloodRefused

-----------------------------------------------------------------------------

\* Every step keeps what HeavyClientWaits rests on.
LEMMA HeavyStep ==
    ASSUME TypeOK, HeavyClientWaits, [Next]_vars PROVE HeavyClientWaits'
<1>1. CASE Tick \/ UNCHANGED vars
  BY <1>1 DEF Tick, vars, HeavyClientWaits
<1>2. ASSUME NEW k \in Client, GrantsAccess(k), NEW c \in Client,
             limits'[c].previousWindow > 2 * Limit, Limit > 0
      PROVE  grants'[c] <= 1
  <2>1. /\ limits' = [limits EXCEPT ![k] = IF Limit = 0 THEN @ ELSE Counted(k)]
        /\ grants' = [grants EXCEPT ![k] =
                         IF Limit = 0 THEN @
                         ELSE (IF Rolls(k) THEN 0 ELSE @) + (IF Granted(k) THEN 1 ELSE 0)]
    BY <1>2 DEF GrantsAccess
  <2>2. CASE c # k
    BY <1>2, <2>1, <2>2 DEF TypeOK, HeavyClientWaits
  <2>3. CASE c = k
    <3>1. /\ limits'[c] = Counted(c)
          /\ grants'[c] = (IF Rolls(c) THEN 0 ELSE grants[c])
                             + (IF Granted(c) THEN 1 ELSE 0)
      BY <1>2, <2>1, <2>3 DEF TypeOK
    <3>2. CASE Rolls(c)
      BY <3>1, <3>2
    <3>3. CASE ~Rolls(c)
      <4>1. limits[c] # Unknown
        BY <1>2, <3>1, RateAssumption DEF Counted, NoWindow
      <4>2. /\ Counted(c) = [limits[c] EXCEPT !.currentWindow = @ + 1]
            /\ limits[c] \in LimitData
        BY <3>3, <4>1 DEF Counted, TypeOK
      <4>3. /\ Counted(c).previousWindow = limits[c].previousWindow
            /\ limits[c].previousWindow \in Nat \cup {NoWindow}
        BY <4>2 DEF LimitData
      <4>4. limits[c].previousWindow > 2 * Limit
        BY <1>2, <3>1, <4>3
      <4>5. Before(Counted(c)) > 2 * Limit
        BY <4>3, <4>4, RateAssumption DEF Before, NoWindow
      <4>6. grants[c] <= 1
        BY <1>2, <4>4 DEF HeavyClientWaits
      <4>7. Before(Counted(c)) \in Nat /\ Counted(c).currentWindow \in Nat
        BY CountedType
      <4>8. Limit \in Nat /\ WindowSize \in Nat \ {0} /\ Delta(c) \in 0 .. WindowSize
        BY <3>3, DeltaType, RateAssumption DEF Rolls
      <4>9. Before(Counted(c)) * (2 * WindowSize - Delta(c))
              + Counted(c).currentWindow * Delta(c) > Limit * (2 * WindowSize)
        BY <4>5, <4>7, <4>8, HalfMeanAbove
      <4>10. WindowSpan = 2 * WindowSize
        BY <4>8 DEF WindowSpan
      <4>11. ~WithinLimit(Counted(c), Delta(c))
        BY <4>7, <4>8, <4>9, <4>10 DEF WithinLimit
      <4>12. ~Granted(c)
        BY <1>2, <4>11 DEF Granted
      <4> QED BY <3>1, <3>3, <4>6, <4>12 DEF TypeOK
    <3> QED BY <3>2, <3>3
  <2> QED BY <2>2, <2>3
<1> QED BY <1>1, <1>2 DEF Next, HeavyClientWaits

\* A client that exceeded twice the limit in one window is granted at most
\* the first request of the next (RateLimiter.ts:39-45).
THEOREM RateLimiterHeavyClientWaits == Spec => []HeavyClientWaits
<1>1. Init => HeavyClientWaits
  BY RateAssumption DEF Init, HeavyClientWaits, Unknown, NoWindow
<1>2. TypeOK /\ HeavyClientWaits /\ [Next]_vars => HeavyClientWaits'
  BY HeavyStep
<1> QED BY <1>1, <1>2, RateLimiterTypeOK, PTL DEF Spec

-----------------------------------------------------------------------------

\* With one count for both windows the total is that count.
LEMMA MeanOfOne ==
    ASSUME NEW c \in Nat, NEW l \in Nat, NEW s \in Nat \ {0}, NEW d \in Int
    PROVE  c * (s - d) + c * d <= l * s <=> c <= l
<1>1. c * (s - d) + c * d = c * s
  OBVIOUS
<1>2. CASE c <= l
  BY <1>1, <1>2, MulOrder
<1>3. CASE c > l
  <2>1. l * s < c * s
    BY <1>3, MulStrictOrder
  <2> QED BY <2>1, <1>1, <1>3
<1> QED BY <1>2, <1>3

\* Every step keeps what FirstWindowExact rests on.
LEMMA FirstWindowStep ==
    ASSUME TypeOK, FirstWindowExact, [Next]_vars PROVE FirstWindowExact'
<1>1. CASE Tick \/ UNCHANGED vars
  BY <1>1 DEF Tick, vars, FirstWindowExact
<1>2. ASSUME NEW k \in Client, GrantsAccess(k), NEW c \in Client,
             limits'[c].previousWindow = NoWindow
      PROVE  grants'[c] = IF limits'[c].currentWindow <= Limit
                          THEN limits'[c].currentWindow ELSE Limit
  <2>1. /\ limits' = [limits EXCEPT ![k] = IF Limit = 0 THEN @ ELSE Counted(k)]
        /\ grants' = [grants EXCEPT ![k] =
                         IF Limit = 0 THEN @
                         ELSE (IF Rolls(k) THEN 0 ELSE @) + (IF Granted(k) THEN 1 ELSE 0)]
    BY <1>2 DEF GrantsAccess
  <2>2. CASE c # k \/ Limit = 0
    BY <1>2, <2>1, <2>2 DEF TypeOK, FirstWindowExact
  <2>3. CASE c = k /\ Limit # 0
    <3>1. /\ limits'[c] = Counted(c)
          /\ grants'[c] = (IF Rolls(c) THEN 0 ELSE grants[c])
                             + (IF Granted(c) THEN 1 ELSE 0)
      BY <2>1, <2>3 DEF TypeOK
    <3>2. limits[c] \in LimitData /\ Limit \in Nat \ {0} /\ WindowSize \in Nat \ {0}
      BY <2>3, RateAssumption DEF TypeOK
    <3>3. ~Rolls(c)
      <4>1. CASE limits[c] = Unknown
        BY <3>2, <4>1 DEF Rolls, Delta
      <4>2. CASE limits[c] # Unknown /\ Rolls(c)
        BY <1>2, <3>1, <3>2, <4>2 DEF Counted, LimitData, NoWindow
      <4> QED BY <4>1, <4>2
    <3>4. /\ limits[c].previousWindow = NoWindow
          /\ Counted(c).previousWindow = NoWindow
          /\ Counted(c).currentWindow = limits[c].currentWindow + 1
      <4>1. CASE limits[c] = Unknown
        BY <4>1 DEF Counted, Unknown
      <4>2. CASE limits[c] # Unknown
        BY <1>2, <3>1, <3>2, <3>3, <4>2 DEF Counted, LimitData
      <4> QED BY <4>1, <4>2
    <3>5. grants[c] = IF limits[c].currentWindow <= Limit
                      THEN limits[c].currentWindow ELSE Limit
      BY <3>4 DEF FirstWindowExact
    <3>6. Granted(c) <=> limits[c].currentWindow + 1 <= Limit
      <4>1. Before(Counted(c)) = Counted(c).currentWindow
        BY <3>4 DEF Before
      <4>2. Delta(c) \in Int /\ WindowSpan \in Nat \ {0}
        BY <3>2, DeltaType DEF WindowSpan
      <4>3. limits[c].currentWindow + 1 \in Nat
        BY <3>2 DEF LimitData
      <4>4. WithinLimit(Counted(c), Delta(c)) <=> limits[c].currentWindow + 1 <= Limit
        BY <3>2, <3>4, <4>1, <4>2, <4>3, MeanOfOne DEF WithinLimit
      <4> QED BY <2>3, <4>4 DEF Granted
    <3>7. limits[c].currentWindow \in Nat
      BY <3>2 DEF LimitData
    <3> QED BY <3>1, <3>2, <3>3, <3>4, <3>5, <3>6, <3>7
  <2> QED BY <2>2, <2>3
<1> QED BY <1>1, <1>2 DEF Next, FirstWindowExact

\* In its first window a client is granted exactly its first requests, up to
\* the limit (RateLimiter.ts:21-25, 41).
THEOREM RateLimiterFirstWindowExact == Spec => []FirstWindowExact
<1>1. Init => FirstWindowExact
  BY RateAssumption DEF Init, FirstWindowExact, Unknown
<1>2. TypeOK /\ FirstWindowExact /\ [Next]_vars => FirstWindowExact'
  BY FirstWindowStep
<1> QED BY <1>1, <1>2, RateLimiterTypeOK, PTL DEF Spec

-----------------------------------------------------------------------------
(* The error limiter.                                                      *)

\* The range of each variable of ErrorLimiter.
ErrorTyped ==
    /\ now \in Nat
    /\ isInitPeriod \in BOOLEAN /\ terminated \in BOOLEAN
    /\ records \in Seq(Nat)
    /\ fed \in Seq(Nat)

\* The clock does not run backwards.
Chronological ==
    \A i, j \in 1 .. Len(fed) : i <= j => fed[i] <= fed[j] /\ fed[j] <= now

\* The errors that have no record any more are the first ones, as many as
Dropped == Len(fed) - Len(records)

RecordsLatest ==
    /\ Dropped >= 0
    /\ \A i \in 1 .. Len(records) : records[i] = fed[Dropped + i]

\* and all of them were out of the window when the last error came.
DroppedTooOld ==
    \A i \in 1 .. Len(fed) : i <= Dropped => fed[Len(fed)] - fed[i] > WindowMs

\* The inductive invariant.
ErrorInv ==
    /\ ErrorTyped
    /\ Chronological
    /\ RecordsLatest
    /\ DroppedTooOld
    /\ TerminatesOnBurst

-----------------------------------------------------------------------------
(* The filter.                                                             *)

\* A set of natural numbers has a least member; this takes the place of induction.
LEMMA LeastNatural ==
    ASSUME NEW T \in SUBSET Nat, T # {}
    PROVE  \E m \in T : \A n \in T : m <= n
<1> DEFINE R == OpToRel(<, Nat)
<1>1. IsWellFoundedOn(R, Nat)
  BY NatLessThanWellFounded
<1>2. R = {ss \in Nat \X Nat : ss[1] < ss[2]}
  BY DEF OpToRel
<1> HIDE DEF R
<1>3. PICK m \in T : \A n \in T : ~(<<n, m>> \in R)
  BY <1>1, WFMin
<1>4. ASSUME NEW n \in T PROVE m <= n
  <2>1. m \in Nat /\ n \in Nat /\ <<n, m>> \in Nat \X Nat
    OBVIOUS
  <2>2. ~(n < m)
    BY <1>2, <1>3, <2>1
  <2> QED BY <2>1, <2>2
<1> QED BY <1>4

\* Of times in their order, those in the window are the last ones.
LEMMA WindowIsSuffix ==
    ASSUME records \in Seq(Nat), now \in Nat,
           \A i, j \in 1 .. Len(records) : i <= j => records[i] <= records[j]
    PROVE  \E m \in 1 .. Len(records) + 1 :
              \A i \in 1 .. Len(records) : Errors!InWindow(records[i]) <=> i >= m
<1> DEFINE W == {i \in 1 .. Len(records) : Errors!InWindow(records[i])} \cup {Len(records) + 1}
<1>1. Len(records) \in Nat /\ \A i \in 1 .. Len(records) : records[i] \in Nat
  OBVIOUS
<1>2. W \in SUBSET Nat /\ W # {} /\ W \subseteq 1 .. Len(records) + 1
  BY <1>1
<1>3. PICK m \in W : \A n \in W : m <= n
  BY <1>2, LeastNatural
<1>4. ASSUME NEW i \in 1 .. Len(records)
      PROVE  Errors!InWindow(records[i]) <=> i >= m
  <2>0. m \in Nat /\ i \in Nat
    BY <1>1, <1>2, <1>3
  <2>1. Errors!InWindow(records[i]) => i >= m
    BY <1>3, <1>4
  <2>2. CASE i >= m
    <3>1. m \in 1 .. Len(records) /\ Errors!InWindow(records[m])
      BY <1>1, <1>2, <1>3, <1>4, <2>2
    <3>2. records[m] <= records[i]
      BY <1>4, <2>2, <3>1
    <3>3. records[m] \in Nat /\ records[i] \in Nat
      BY <1>1, <1>4, <3>1
    <3>4. WindowMs \in Nat
      BY ErrorAssumption
    <3>5. Errors!InWindow(records[i])
      <4> HIDE DEF W
      <4>1. now - records[m] <= WindowMs
        BY <3>1 DEF Errors!InWindow
      <4>2. now - records[i] <= WindowMs
        BY <3>2, <3>3, <3>4, <4>1
      <4> QED BY <4>2 DEF Errors!InWindow
    <3> QED BY <2>2, <3>5
  <2> QED BY <2>1, <2>2
<1> QED BY <1>2, <1>3, <1>4

\* The filter keeps them in their order.
LEMMA FilterKeepsSuffix ==
    ASSUME records \in Seq(Nat), NEW m \in 1 .. Len(records) + 1,
           \A i \in 1 .. Len(records) : Errors!InWindow(records[i]) <=> i >= m
    PROVE  Errors!Recent = SubSeq(records, m, Len(records))
<1> DEFINE n == Len(records)
           Step(f) == [i \in 0 .. n |->
               IF i = 0 THEN <<>>
               ELSE IF Errors!InWindow(records[i]) THEN Append(f[i - 1], records[i]) ELSE f[i - 1]]
           g == [i \in 0 .. n |-> SubSeq(records, m, i)]
<1>1. n \in Nat /\ m \in 1 .. n + 1
  OBVIOUS
<1>2. ASSUME NEW i \in 0 .. n, i < m PROVE SubSeq(records, m, i) = <<>>
  BY <1>1, <1>2, SubSeqEmpty
<1>3. ASSUME NEW i \in m .. n
      PROVE  SubSeq(records, m, i) = Append(SubSeq(records, m, i - 1), records[i])
  <2>1. SubSeq(records, m, i) = SubSeq(records, m, i - 1) \o <<records[i]>>
    BY <1>1, <1>3, SubSeqRecursiveSecond
  <2>2. SubSeq(records, m, i - 1) \in Seq(Nat) /\ records[i] \in Nat
    BY <1>1, <1>3, SubSeqProperties
  <2> QED BY <2>1, <2>2, AppendIsConcat
<1>4. ASSUME NEW i \in 0 .. n
      PROVE  g[i] = IF i = 0 THEN <<>>
                    ELSE IF Errors!InWindow(records[i]) THEN Append(g[i - 1], records[i]) ELSE g[i - 1]
  <2>1. CASE i = 0
    BY <1>1, <1>2, <2>1
  <2>2. CASE i # 0 /\ i < m
    BY <1>1, <1>2, <1>4, <2>2
  <2>3. CASE i >= m
    <3>1. i \in m .. n /\ i # 0 /\ i - 1 \in 0 .. n /\ i \in 1 .. Len(records)
      BY <1>1, <1>4, <2>3
    <3>2. SubSeq(records, m, i) = Append(SubSeq(records, m, i - 1), records[i])
      BY <1>3, <3>1
    <3>3. g[i] = SubSeq(records, m, i) /\ g[i - 1] = SubSeq(records, m, i - 1)
      BY <3>1
    <3>4. Errors!InWindow(records[i])
      BY <2>3, <3>1
    <3> HIDE DEF g
    <3> QED BY <3>1, <3>2, <3>3, <3>4
  <2>4. i \in Int /\ m \in Int
    BY <1>1, <1>4
  <2> HIDE DEF g
  <2> QED BY <2>1, <2>2, <2>3, <2>4
<1>5. g = Step(g)
  BY <1>4
<1>6. Errors!Kept = CHOOSE f : f = Step(f)
  BY DEF Errors!Kept
<1>7. Errors!Kept = Step(Errors!Kept)
  <2> HIDE DEF g, Step
  <2> QED BY <1>5, <1>6
<1>8. ASSUME NEW i \in 0 .. n
      PROVE  Errors!Kept[i] = g[i]
  <2> DEFINE T == {k \in 0 .. n : Errors!Kept[k] # g[k]}
  <2> HIDE DEF g
  <2>1. SUFFICES ASSUME T # {} PROVE FALSE
    BY <1>8
  <2>2. PICK k \in T : \A l \in T : k <= l
    <3>1. T \in SUBSET Nat
      BY <1>1
    <3> HIDE DEF T
    <3> QED BY <2>1, <3>1, LeastNatural
  <2>3. \A l \in 0 .. n : l < k => Errors!Kept[l] = g[l]
    BY <1>1, <2>2
  <2>4. k \in 0 .. n /\ (k # 0 => k - 1 \in 0 .. n /\ Errors!Kept[k - 1] = g[k - 1])
    BY <1>1, <2>2, <2>3
  <2>5. Errors!Kept[k] = g[k]
    BY <1>4, <1>7, <2>4
  <2> QED BY <2>2, <2>5
<1> QED BY <1>1, <1>8 DEF Errors!Recent

-----------------------------------------------------------------------------
(* The steps.                                                              *)

\* No error has come in the beginning.
LEMMA InitErrors == Errors!Init => ErrorInv
<1> SUFFICES ASSUME Errors!Init PROVE ErrorInv
  OBVIOUS
<1>1. /\ now = 0 /\ records = <<>> /\ fed = <<>> /\ terminated = FALSE
      /\ isInitPeriod = (InitPeriodMs > 0)
  BY DEF Errors!Init
<1>2. Len(records) = 0 /\ Len(fed) = 0
  BY <1>1
<1>3. ErrorTyped
  <2>1. \A x, y : (x > y) \in BOOLEAN
    OBVIOUS
  <2>2. isInitPeriod \in BOOLEAN /\ terminated \in BOOLEAN
    BY <1>1, <2>1, Zenon
  <2> QED BY <1>1, <2>2 DEF ErrorTyped
<1>4. Chronological /\ RecordsLatest /\ DroppedTooOld
  BY <1>2 DEF Chronological, RecordsLatest, DroppedTooOld, Dropped
<1>5. ~Errors!Burst
  BY <1>2 DEF Errors!Burst
<1>6. TerminatesOnBurst
  BY <1>1, <1>5, Zenon DEF TerminatesOnBurst, Errors!TerminatesOnBurst
<1> QED BY <1>3, <1>4, <1>6 DEF ErrorInv

\* What feed does to the records: a number of the first ones are dropped, all
\* that are out of the window and no other.
LEMMA FeedDropsTooOld ==
    ASSUME ErrorInv, Errors!Feed
    PROVE  /\ ErrorTyped'
           /\ Chronological'
           /\ RecordsLatest'
           /\ DroppedTooOld'
           /\ \A i \in 1 .. Len(fed) : i > Dropped' => now - fed[i] <= WindowMs
           /\ fed' = Append(fed, now) /\ Dropped' >= Dropped
           /\ Len(records') > 0
<1>1. /\ records' = Append(Errors!Recent, now)
      /\ terminated' = Errors!TooMany(Len(records'))
      /\ fed' = Append(fed, now)
      /\ now' = now /\ isInitPeriod' = isInitPeriod
  BY DEF Errors!Feed
<1>2. /\ now \in Nat /\ records \in Seq(Nat) /\ fed \in Seq(Nat)
      /\ isInitPeriod \in BOOLEAN
  BY DEF ErrorInv, ErrorTyped
<1>3. /\ Len(records) \in Nat /\ Len(fed) \in Nat
      /\ \A i \in 1 .. Len(fed) : fed[i] \in Nat
      /\ WindowMs \in Nat
  BY <1>2, ErrorAssumption
<1>4. /\ Len(fed) >= Len(records)
      /\ \A i \in 1 .. Len(records) : records[i] = fed[Len(fed) - Len(records) + i]
  BY <1>3 DEF ErrorInv, RecordsLatest, Dropped
<1>5. \A i, j \in 1 .. Len(fed) : i <= j => fed[i] <= fed[j] /\ fed[j] <= now
  BY DEF ErrorInv, Chronological
<1>6. \A i, j \in 1 .. Len(records) : i <= j => records[i] <= records[j]
  BY <1>3, <1>4, <1>5
<1>7. PICK m \in 1 .. Len(records) + 1 :
         \A i \in 1 .. Len(records) : Errors!InWindow(records[i]) <=> i >= m
  BY <1>2, <1>6, WindowIsSuffix
<1>8. Errors!Recent = SubSeq(records, m, Len(records))
  BY <1>2, <1>7, FilterKeepsSuffix
<1>9. /\ Errors!Recent \in Seq(Nat)
      /\ Len(Errors!Recent) = Len(records) - m + 1
      /\ \A i \in 1 .. Len(records) - m + 1 : Errors!Recent[i] = records[m + i - 1]
  <2>1. \A i \in m .. Len(records) : records[i] \in Nat
    BY <1>2
  <2>2. m \in Int /\ Len(records) \in Int /\ m <= Len(records) + 1
    BY <1>3
  <2> QED BY <1>8, <2>1, <2>2, SubSeqProperties
<1>10. /\ records' \in Seq(Nat) /\ Len(records') = Len(records) - m + 2
       /\ \A i \in 1 .. Len(records) - m + 1 : records'[i] = records[m + i - 1]
       /\ records'[Len(records) - m + 2] = now
  <2>1. ASSUME NEW r \in Seq(Nat), Len(r) = Len(records) - m + 1, records' = Append(r, now),
               \A i \in 1 .. Len(records) - m + 1 : r[i] = records[m + i - 1]
        PROVE  /\ records' \in Seq(Nat) /\ Len(records') = Len(records) - m + 2
               /\ \A i \in 1 .. Len(records) - m + 1 : records'[i] = records[m + i - 1]
               /\ records'[Len(records) - m + 2] = now
    <3>1. /\ Append(r, now) \in Seq(Nat) /\ Len(Append(r, now)) = Len(r) + 1
          /\ \A i \in 1 .. Len(r) : Append(r, now)[i] = r[i]
          /\ Append(r, now)[Len(r) + 1] = now
      BY <1>2, AppendProperties
    <3>2. Len(r) + 1 = Len(records) - m + 2
      BY <1>3, <2>1
    <3> QED BY <2>1, <3>1, <3>2
  <2> QED BY <1>1, <1>9, <2>1
<1>11. /\ fed' \in Seq(Nat) /\ Len(fed') = Len(fed) + 1
       /\ \A i \in 1 .. Len(fed) : fed'[i] = fed[i]
       /\ fed'[Len(fed) + 1] = now
  BY <1>1, <1>2, <1>3
<1>12. Dropped' = Len(fed) - Len(records) + m - 1
  BY <1>3, <1>10, <1>11 DEF Dropped
<1>13. ErrorTyped'
  <2>1. terminated' \in BOOLEAN
    BY <1>1, Zenon DEF Errors!TooMany
  <2> QED BY <1>1, <1>2, <1>10, <1>11, <2>1 DEF ErrorTyped
<1>14. Chronological'
  BY <1>1, <1>2, <1>3, <1>5, <1>11 DEF Chronological
<1>15. RecordsLatest'
  <2>1. Dropped' >= 0
    BY <1>3, <1>4, <1>12
  <2>2. ASSUME NEW i \in 1 .. Len(records')
        PROVE  records'[i] = fed'[Dropped' + i]
    <3>1. CASE i <= Len(records) - m + 1
      <4>1. /\ m + i - 1 \in 1 .. Len(records)
            /\ Dropped' + i = Len(fed) - Len(records) + (m + i - 1)
            /\ Dropped' + i \in 1 .. Len(fed)
        BY <1>3, <1>4, <1>12, <3>1
      <4>2. records'[i] = records[m + i - 1]
        <5>1. i \in 1 .. Len(records) - m + 1
          BY <1>3, <1>10, <3>1
        <5> QED BY <1>10, <5>1
      <4> QED BY <1>4, <1>11, <4>1, <4>2
    <3>2. CASE i = Len(records) - m + 2
      <4>1. Dropped' + i = Len(fed) + 1
        BY <1>3, <1>12, <3>2
      <4> QED BY <1>10, <1>11, <3>2, <4>1
    <3> QED BY <1>3, <1>10, <3>1, <3>2
  <2> QED BY <2>1, <2>2 DEF RecordsLatest
<1>16. ASSUME NEW i \in 1 .. Len(fed), i <= Dropped'
       PROVE  now - fed[i] > WindowMs
  <2>1. CASE i <= Len(fed) - Len(records)
    <3>1. fed[Len(fed)] - fed[i] > WindowMs
      BY <2>1 DEF ErrorInv, DroppedTooOld, Dropped
    <3>2. Len(fed) \in 1 .. Len(fed) /\ i <= Len(fed)
      BY <1>3
    <3>3. fed[Len(fed)] <= now
      BY <1>5, <3>2
    <3> QED BY <1>2, <1>3, <3>1, <3>2, <3>3
  <2>2. CASE i > Len(fed) - Len(records)
    <3> DEFINE k == i - (Len(fed) - Len(records))
    <3>1. k \in 1 .. Len(records) /\ k < m /\ fed[i] = records[k]
      BY <1>3, <1>4, <1>12, <1>16, <2>2
    <3>2. ~Errors!InWindow(records[k])
      BY <1>7, <3>1
    <3> QED BY <1>2, <1>3, <3>1, <3>2 DEF Errors!InWindow
  <2> QED BY <1>3, <2>1, <2>2
<1>17. DroppedTooOld'
  <2>1. ASSUME NEW i \in 1 .. Len(fed'), i <= Dropped'
        PROVE  fed'[Len(fed')] - fed'[i] > WindowMs
    <3>1. i \in 1 .. Len(fed)
      BY <1>3, <1>10, <1>11, <1>12, <2>1
    <3> QED BY <1>11, <1>16, <2>1, <3>1
  <2> QED BY <2>1 DEF DroppedTooOld
<1>18. ASSUME NEW i \in 1 .. Len(fed), i > Dropped'
       PROVE  now - fed[i] <= WindowMs
  <2> DEFINE k == i - (Len(fed) - Len(records))
  <2>1. k \in 1 .. Len(records) /\ k >= m /\ fed[i] = records[k]
    BY <1>3, <1>4, <1>12, <1>18
  <2>2. Errors!InWindow(records[k])
    BY <1>7, <2>1
  <2> QED BY <2>1, <2>2 DEF Errors!InWindow
<1>19. Dropped' >= Dropped
  BY <1>3, <1>12 DEF Dropped
<1>20. Len(records') > 0
  BY <1>3, <1>10
<1> QED BY <1>1, <1>13, <1>14, <1>15, <1>17, <1>18, <1>19, <1>20

\* An error ends the process exactly if the window that ends with it is the
\* first to hold too many: of those, the first is recorded still.
LEMMA FeedKeepsInv == ASSUME ErrorInv, ~terminated, Errors!Feed PROVE ErrorInv'
<1>1. /\ ErrorTyped' /\ Chronological' /\ RecordsLatest' /\ DroppedTooOld'
      /\ \A i \in 1 .. Len(fed) : i > Dropped' => now - fed[i] <= WindowMs
      /\ fed' = Append(fed, now)
  BY FeedDropsTooOld
<1>2. fed \in Seq(Nat) /\ Len(fed) \in Nat /\ now \in Nat
  BY DEF ErrorInv, ErrorTyped
<1>3. /\ Len(fed') = Len(fed) + 1
      /\ \A i \in 1 .. Len(fed) : fed'[i] = fed[i]
      /\ fed'[Len(fed) + 1] = now
  BY <1>1, <1>2
<1>4. /\ terminated' = Errors!TooMany(Len(records'))
      /\ isInitPeriod' = isInitPeriod /\ isInitPeriod \in BOOLEAN
  BY DEF Errors!Feed, ErrorInv, ErrorTyped
<1>5. CASE isInitPeriod
  <2>1. terminated'
    BY <1>4, <1>5 DEF Errors!TooMany
  <2>2. fed' # <<>>
    BY <1>2, <1>3
  <2> QED BY <1>1, <1>4, <1>5, <2>1, <2>2
          DEF ErrorInv, TerminatesOnBurst, Errors!TerminatesOnBurst
<1>6. CASE ~isInitPeriod
  <2>1. ~Errors!Burst
    BY <1>6 DEF ErrorInv, TerminatesOnBurst, Errors!TerminatesOnBurst
  <2>2. Threshold \in Nat \ {0} /\ WindowMs \in Nat
    BY ErrorAssumption
  <2>3. /\ Len(records') \in Nat /\ Len(records') <= Len(fed) + 1
        /\ Dropped' = Len(fed) + 1 - Len(records')
    BY <1>1, <1>2, <1>3 DEF ErrorTyped, RecordsLatest, Dropped
  <2>4. terminated' <=> Len(records') >= Threshold
    BY <1>4, <1>6 DEF Errors!TooMany
  <2>5. ASSUME Len(records') >= Threshold PROVE Errors!Burst'
    <3> DEFINE i == Len(fed) + 2 - Threshold
    <3>1. /\ i \in 1 .. Len(fed) + 1 /\ i > Dropped'
          /\ i + Threshold - 1 = Len(fed) + 1
      BY <1>2, <2>2, <2>3, <2>5
    <3>2. fed'[i + Threshold - 1] - fed'[i] <= WindowMs
      <4>1. CASE i <= Len(fed)
        BY <1>1, <1>2, <1>3, <3>1, <4>1
      <4>2. CASE i = Len(fed) + 1
        BY <1>2, <1>3, <2>2, <3>1, <4>2
      <4> QED BY <1>2, <3>1, <4>1, <4>2
    <3> HIDE DEF i
    <3> QED BY <1>2, <1>3, <2>2, <3>1, <3>2 DEF Errors!Burst
  <2>6. ASSUME Errors!Burst' PROVE Len(records') >= Threshold
    <3>1. PICK i \in 1 .. Len(fed') :
             /\ i + Threshold - 1 <= Len(fed')
             /\ fed'[i + Threshold - 1] - fed'[i] <= WindowMs
      BY <2>6 DEF Errors!Burst
    <3>2. i + Threshold - 1 = Len(fed) + 1
      <4>1. SUFFICES ASSUME i + Threshold - 1 <= Len(fed) PROVE FALSE
        BY <1>2, <1>3, <2>2, <3>1
      <4>2. i \in 1 .. Len(fed) /\ i + Threshold - 1 \in 1 .. Len(fed)
        BY <1>2, <1>3, <2>2, <3>1, <4>1
      <4>3. fed[i + Threshold - 1] - fed[i] <= WindowMs
        BY <1>3, <3>1, <4>2
      <4> QED BY <2>1, <4>1, <4>2, <4>3 DEF Errors!Burst
    <3>3. ~(i <= Dropped')
      <4>1. SUFFICES ASSUME i <= Dropped' PROVE FALSE
        OBVIOUS
      <4>2. i \in 1 .. Len(fed') /\ fed'[Len(fed')] - fed'[i] > WindowMs
        BY <1>1, <3>1, <4>1 DEF DroppedTooOld
      <4>3. fed'[Len(fed')] = fed'[i + Threshold - 1]
        BY <1>3, <3>2
      <4>4. fed'[Len(fed')] \in Nat /\ fed'[i] \in Nat
        BY <1>1, <1>2, <1>3, <4>2 DEF ErrorTyped
      <4> QED BY <2>2, <3>1, <4>2, <4>3, <4>4
    <3> QED BY <1>2, <1>3, <2>2, <2>3, <3>1, <3>2, <3>3
  <2>7. TerminatesOnBurst'
    BY <1>4, <1>6, <2>4, <2>5, <2>6 DEF TerminatesOnBurst, Errors!TerminatesOnBurst
  <2> QED BY <1>1, <2>7 DEF ErrorInv
<1> QED BY <1>4, <1>5, <1>6

\* The initial period ends without an error, and so not within a burst.
LEMMA InitPeriodEndsKeepsInv ==
    ASSUME ErrorInv, ~terminated, Errors!InitPeriodEnds PROVE ErrorInv'
<1>1. /\ isInitPeriod /\ isInitPeriod' = FALSE
      /\ UNCHANGED <<now, records, terminated, fed>>
  BY DEF Errors!InitPeriodEnds
<1>2. fed = <<>>
  BY <1>1 DEF ErrorInv, TerminatesOnBurst, Errors!TerminatesOnBurst
<1>3. ~Errors!Burst'
  BY <1>1, <1>2 DEF Errors!Burst
<1>4. TerminatesOnBurst'
  BY <1>1, <1>3 DEF TerminatesOnBurst, Errors!TerminatesOnBurst
<1>5. ErrorTyped'
  BY <1>1 DEF ErrorInv, ErrorTyped
<1>6. Chronological' /\ RecordsLatest' /\ DroppedTooOld'
  BY <1>1 DEF ErrorInv, Chronological, RecordsLatest, DroppedTooOld, Dropped
<1> QED BY <1>4, <1>5, <1>6 DEF ErrorInv

\* Whichever limiter it is, with time nothing changes but the clock.
LEMMA ClockKeepsInv ==
    ASSUME ErrorInv, now' = now \/ now' = now + 1,
           UNCHANGED <<isInitPeriod, records, terminated, fed>>
    PROVE  ErrorInv'
<1>1. ErrorTyped'
  BY DEF ErrorInv, ErrorTyped
<1>2. Chronological'
  <2>1. now \in Nat /\ fed \in Seq(Nat) /\ \A i \in 1 .. Len(fed) : fed[i] \in Nat
    BY DEF ErrorInv, ErrorTyped
  <2> QED BY <2>1 DEF ErrorInv, Chronological
<1>3. RecordsLatest' /\ DroppedTooOld'
  BY DEF ErrorInv, RecordsLatest, DroppedTooOld, Dropped
<1>4. TerminatesOnBurst'
  BY DEF ErrorInv, TerminatesOnBurst, Errors!TerminatesOnBurst, Errors!Burst
<1> QED BY <1>1, <1>2, <1>3, <1>4 DEF ErrorInv

\* Every step keeps the invariant.
LEMMA LimiterKeepsErrorInv == ErrorInv /\ [LimiterNext]_limiterVars => ErrorInv'
<1> SUFFICES ASSUME ErrorInv, [LimiterNext]_limiterVars PROVE ErrorInv'
  OBVIOUS
<1>1. CASE UNCHANGED limiterVars
  BY <1>1, ClockKeepsInv DEF limiterVars, errors
<1>2. CASE Next /\ UNCHANGED errors
  <2>1. now' = now \/ now' = now + 1
    BY <1>2 DEF Next, Tick, GrantsAccess
  <2> QED BY <1>2, <2>1, ClockKeepsInv DEF errors
<1>3. CASE Errors!Next
  <2>1. CASE Errors!Tick
    BY <2>1, ClockKeepsInv DEF Errors!Tick
  <2> QED BY <1>3, <2>1, FeedKeepsInv, InitPeriodEndsKeepsInv DEF Errors!Next
<1> QED BY <1>1, <1>2, <1>3 DEF LimiterNext

\* What the error limiter holds always (ErrorLimiter.ts:36-52).
THEOREM ErrorInvariant == LimiterSpec => []ErrorInv
<1>1. LimiterInit => ErrorInv
  BY InitErrors DEF LimiterInit
<1> QED BY <1>1, LimiterKeepsErrorInv, PTL DEF LimiterSpec

\* Dropping records loses no burst of errors and makes none up: out of the
\* initial period the process ends exactly at the error that completes one
\* (ErrorLimiter.ts:39-51).
THEOREM ErrorTerminatesOnBurst == LimiterSpec => []TerminatesOnBurst
<1>1. ErrorInv => TerminatesOnBurst
  BY DEF ErrorInv
<1> QED BY <1>1, ErrorInvariant, PTL

\* The records that are kept are the latest errors (ErrorLimiter.ts:39-46).
THEOREM ErrorKeepsLatest == LimiterSpec => []KeepsLatest
<1>1. ASSUME ErrorInv PROVE KeepsLatest
  <2> DEFINE s == SubSeq(fed, Len(fed) - Len(records) + 1, Len(fed))
  <2>1. /\ records \in Seq(Nat) /\ fed \in Seq(Nat)
        /\ Len(records) \in Nat /\ Len(fed) \in Nat /\ Len(fed) >= Len(records)
        /\ \A i \in 1 .. Len(records) : records[i] = fed[Len(fed) - Len(records) + i]
    BY <1>1 DEF ErrorInv, ErrorTyped, RecordsLatest, Dropped
  <2>2. \A i \in Len(fed) - Len(records) + 1 .. Len(fed) : fed[i] \in Nat
    BY <2>1
  <2>3. /\ s \in Seq(Nat)
        /\ Len(s) = IF Len(fed) - Len(records) + 1 <= Len(fed)
                    THEN Len(fed) - (Len(fed) - Len(records) + 1) + 1 ELSE 0
        /\ \A i \in 1 .. Len(fed) - (Len(fed) - Len(records) + 1) + 1 :
              s[i] = fed[Len(fed) - Len(records) + 1 + i - 1]
    BY <2>1, <2>2, SubSeqProperties
  <2> HIDE DEF s
  <2>4. /\ Len(s) = Len(records)
        /\ \A i \in 1 .. Len(records) : s[i] = fed[Len(fed) - Len(records) + i]
    BY <2>1, <2>3
  <2>5. records = s
    BY <2>1, <2>3, <2>4, SeqEqual
  <2> QED BY <2>5 DEF s, KeepsLatest, Errors!KeepsLatest
<1> QED BY <1>1, ErrorInvariant, PTL

\* What the pools take the limiter for: a step of it is a Feed of AWorkerPool,
\* which forgets the times, the end of the initial period there, or nothing to
\* them (ErrorLimiter.ts:30-51).
THEOREM ErrorCountsAsInPool == LimiterSpec => CountsAsInPool
<1> DEFINE InPool == \/ Errors!Pool!Feed
                     \/ Errors!Pool!InitPeriodEnds
                     \/ UNCHANGED <<isInitPeriod, Len(records), terminated>>
<1>1. ASSUME ErrorInv, Errors!Feed PROVE InPool
  <2> DEFINE kept == Len(records') - 1
  <2>1. /\ isInitPeriod' = isInitPeriod
        /\ terminated' = Errors!TooMany(Len(records'))
    BY <1>1 DEF Errors!Feed
  <2>2. kept \in 0 .. Len(records) /\ kept + 1 = Len(records')
    <3>1. /\ ErrorTyped' /\ Dropped' >= Dropped /\ fed' = Append(fed, now)
          /\ Len(records') > 0
      BY <1>1, FeedDropsTooOld
    <3>2. /\ Len(records) \in Nat /\ Len(fed) \in Nat /\ Len(fed') = Len(fed) + 1
          /\ Len(records') \in Nat
      BY <1>1, <3>1 DEF ErrorInv, ErrorTyped
    <3> QED BY <3>1, <3>2 DEF Dropped
  <2>3. Errors!Pool!Feed
    BY <2>1, <2>2 DEF Errors!Pool!Feed, Errors!TooMany
  <2> QED BY <2>3
<1>2. ASSUME Errors!InitPeriodEnds PROVE InPool
  BY <1>2 DEF Errors!InitPeriodEnds, Errors!Pool!InitPeriodEnds, Errors!Pool!queues, Errors!Pool!promises,
       Errors!Pool!startup, Errors!Pool!workers
<1>3. ErrorInv /\ [LimiterNext]_limiterVars => InPool
  <2> SUFFICES ASSUME ErrorInv, [LimiterNext]_limiterVars PROVE InPool
    OBVIOUS
  <2>1. CASE UNCHANGED errors
    BY <2>1 DEF errors
  <2>2. CASE Errors!Next
    <3>1. CASE Errors!Tick
      BY <3>1 DEF Errors!Tick
    <3> HIDE DEF InPool
    <3> QED BY <1>1, <1>2, <2>2, <3>1 DEF Errors!Next
  <2> QED BY <2>1, <2>2 DEF LimiterNext, limiterVars
<1> QED
  BY <1>3, ErrorInvariant, PTL DEF LimiterSpec, CountsAsInPool, Errors!CountsAsInPool

=============================================================================
