------------------------- MODULE RateLimiterProofs -------------------------
(***************************************************************************)
(* With one worker thread the limiter keeps its rate over every window and *)
(* implements one unpruned bucket per client, for any number of clients,   *)
(* any burst, rate and pruning threshold.                                  *)
(***************************************************************************)
EXTENDS RateLimiter, FiniteSetTheorems, TLAPS

OneWorker == \A t, u \in Threads : t = u

LEMMA FullFact == Full \in Nat /\ Cost \in Nat \ {0} /\ Cost <= Full
<1>1. Burst \in Nat /\ Cost \in Nat /\ Burst >= 1 /\ Cost >= 1
  BY LimiterAssumption
<1>2. Burst * Cost \in Nat /\ Burst * Cost >= Cost
  BY <1>1
<1>3. QED
  BY <1>1, <1>2 DEF Full

\* The level of j once the clock has advanced to s.
Up(j, s) == IF LevelOf(j) + (s - clock) < Full THEN LevelOf(j) + (s - clock) ELSE Full

LEMMA LevelFact ==
  ASSUME IInv, NEW j \in Keys
  PROVE  LevelOf(j) \in 0..Full
<1>1. CASE j \in DOMAIN buckets
  <2>1. /\ buckets[j].tokens \in 0..Full /\ buckets[j].last \in Nat /\ clock \in Nat
        /\ buckets[j].last <= clock
    BY <1>1, LimiterAssumption DEF IInv, TypeOK, Bucket, Times
  <2>2. QED
    BY <1>1, <2>1, FullFact DEF LevelOf
<1>2. CASE j \notin DOMAIN buckets
  BY <1>2, FullFact DEF LevelOf
<1>3. QED
  BY <1>1, <1>2

(***************************************************************************)
(* A bucket is retained or full, so a lookup finds the level it has.       *)
(***************************************************************************)
LEMMA EntryFact ==
  ASSUME IInv, NEW s \in clock..now, NEW j \in Keys
  PROVE  /\ j \in Retained(s) =>
              /\ j \in DOMAIN buckets
              /\ buckets[j].tokens \in 0..Full /\ buckets[j].last \in Times
              /\ buckets[j].last <= clock
              /\ Up(j, s) = IF buckets[j].tokens + (s - buckets[j].last) < Full
                            THEN buckets[j].tokens + (s - buckets[j].last) ELSE Full
         /\ j \notin Retained(s) => Up(j, s) = Full
         /\ Refilled(j, s) = Up(j, s)
<1>1. clock \in Nat /\ s \in Nat /\ clock <= s /\ now \in Nat
  BY LimiterAssumption DEF IInv, TypeOK, Times
<1>2. ASSUME j \in DOMAIN buckets
      PROVE  /\ buckets[j].tokens \in 0..Full /\ buckets[j].last \in Times
             /\ buckets[j].last \in Nat /\ buckets[j].last <= clock
             /\ Up(j, s) = IF buckets[j].tokens + (s - buckets[j].last) < Full
                           THEN buckets[j].tokens + (s - buckets[j].last) ELSE Full
  <2>1. /\ buckets[j].tokens \in 0..Full /\ buckets[j].last \in Times
        /\ buckets[j].last \in Nat /\ buckets[j].last <= clock
    BY <1>2, LimiterAssumption DEF IInv, TypeOK, Bucket, Times
  <2>2. QED
    BY <1>1, <1>2, <2>1, FullFact DEF Up, LevelOf
<1>3. CASE j \in Retained(s)
  <2>1. j \in DOMAIN buckets /\ Entry(j, s) = buckets[j]
    BY <1>3 DEF Retained, Entry
  <2>2. Refilled(j, s) = Up(j, s)
    BY <1>1, <1>2, <2>1, FullFact DEF Refilled, Elapsed
  <2>3. QED
    BY <1>2, <1>3, <2>1, <2>2
<1>4. CASE j \notin Retained(s)
  <2>1. Entry(j, s).tokens = Full /\ Entry(j, s).last = s
    BY <1>4 DEF Entry
  <2>2. Refilled(j, s) = Full
    BY <1>1, <2>1, FullFact DEF Refilled, Elapsed
  <2>3. CASE j \in DOMAIN buckets
    <3>1. Elapsed(s, buckets[j].last) >= Full
      BY <1>1, <1>2, <1>4, <2>3, FullFact DEF Retained, Elapsed
    <3>2. QED
      BY <1>1, <1>2, <1>4, <2>2, <2>3, <3>1, FullFact DEF Elapsed
  <2>4. CASE j \notin DOMAIN buckets
    BY <1>1, <1>4, <2>2, <2>4, FullFact DEF Up, LevelOf
  <2>5. QED
    BY <2>3, <2>4
<1>5. QED
  BY <1>3, <1>4

(***************************************************************************)
(* What a decision does to every level.                                    *)
(***************************************************************************)
LEMMA DecideLevels ==
  ASSUME IInv, NEW t \in Threads, NEW k \in Keys, NEW ok \in BOOLEAN, NEW price \in 0..Full,
         stamp[t] # Unread, Refilled(k, stamp[t]) >= price, Decide(t, k, ok, price)
  PROVE  /\ stamp[t] \in clock..now /\ clock' = stamp[t] /\ stamp[t] \in Times
         /\ TypeOK'
         /\ \A j \in DOMAIN buckets' : buckets'[j].last <= clock'
         /\ \A j \in Keys :
              /\ Up(j, stamp[t]) \in 0..Full
              /\ LevelOf(j)' = IF j = k THEN Up(j, stamp[t]) - price ELSE Up(j, stamp[t])
<1> DEFINE s == stamp[t]
<1>1. s \in clock..now /\ s \in Nat /\ clock \in Nat /\ s \in Times
  BY LimiterAssumption DEF IInv, TypeOK, InOrder, Times, Unread
<1>2. clock' = s /\ now' = now /\ since' = since /\ verdict' = [key |-> k, ok |-> ok]
  BY <1>1 DEF Decide
<1>3. buckets' = [j \in Retained(s) \cup {k} |->
                    IF j = k THEN [tokens |-> Refilled(k, s) - price, last |-> s] ELSE buckets[j]]
  BY DEF Decide
<1>4. Retained(s) \subseteq DOMAIN buckets /\ DOMAIN buckets \subseteq Keys
  BY DEF Retained, IInv, TypeOK
<1>5. \A j \in Keys : Up(j, s) \in 0..Full
  BY <1>1, LevelFact, FullFact DEF Up
<1> HIDE DEF s
<1>6. /\ \A j \in Keys : j \in Retained(s) =>
           /\ buckets[j].tokens \in 0..Full /\ buckets[j].last \in Times
           /\ buckets[j].last <= clock
           /\ Up(j, s) = IF buckets[j].tokens + (s - buckets[j].last) < Full
                         THEN buckets[j].tokens + (s - buckets[j].last) ELSE Full
      /\ \A j \in Keys : j \notin Retained(s) => Up(j, s) = Full
      /\ Refilled(k, s) = Up(k, s)
  BY <1>1, EntryFact
<1>7. Refilled(k, s) - price \in 0..Full
  <2>1. Refilled(k, s) >= price
    BY DEF s
  <2>2. QED
    BY <1>5, <1>6, <2>1, FullFact
<1>8. \A j \in DOMAIN buckets' : buckets'[j] \in Bucket /\ buckets'[j].last <= clock'
  <2> SUFFICES ASSUME NEW j \in Retained(s) \cup {k}
               PROVE  buckets'[j] \in Bucket /\ buckets'[j].last <= s
    BY <1>2, <1>3
  <2>1. CASE j = k
    BY <1>1, <1>3, <1>7, <2>1 DEF Bucket
  <2>2. CASE j # k
    <3>1. buckets'[j] = buckets[j] /\ buckets[j] \in Bucket
      BY <1>3, <1>4, <2>2 DEF IInv, TypeOK
    <3>2. QED
      BY <1>1, <1>4, <1>6, <2>2, <3>1, LimiterAssumption DEF Times
  <2>3. QED
    BY <2>1, <2>2
<1>9. TypeOK'
  <2>1. DOMAIN buckets' \subseteq Keys /\ buckets' \in [DOMAIN buckets' -> Bucket]
    BY <1>3, <1>4, <1>8
  <2>2. stamp' \in [Threads -> Times \cup {Unread}]
    BY DEF Decide, IInv, TypeOK
  <2>3. spent' \in [Keys -> Nat]
    BY FullFact DEF Decide, Paid, IInv, TypeOK
  <2>4. QED
    BY <1>1, <1>2, <2>1, <2>2, <2>3 DEF IInv, TypeOK
<1>10. ASSUME NEW j \in Keys
       PROVE  LevelOf(j)' = IF j = k THEN Up(j, s) - price ELSE Up(j, s)
  <2>1. LevelOf(j)' = IF j \in DOMAIN buckets'
                      THEN IF buckets'[j].tokens + (s - buckets'[j].last) < Full
                           THEN buckets'[j].tokens + (s - buckets'[j].last) ELSE Full
                      ELSE Full
    BY <1>2 DEF LevelOf, Full
  <2>2. CASE j = k
    <3>1. buckets'[k] = [tokens |-> Refilled(k, s) - price, last |-> s] /\ k \in DOMAIN buckets'
      BY <1>3
    <3>2. buckets'[k].tokens = Refilled(k, s) - price /\ buckets'[k].last = s
      BY <3>1
    <3>3. QED
      BY <1>1, <1>6, <1>7, <2>1, <2>2, <3>1, <3>2, FullFact
  <2>3. CASE j # k /\ j \in Retained(s)
    <3>1. j \in DOMAIN buckets' /\ buckets'[j] = buckets[j]
      BY <1>3, <2>3
    <3>2. QED
      BY <1>6, <2>1, <2>3, <3>1
  <2>4. CASE j # k /\ j \notin Retained(s)
    <3>1. j \notin DOMAIN buckets'
      BY <1>3, <2>4
    <3>2. QED
      BY <1>6, <2>1, <2>4, <3>1
  <2>5. QED
    BY <2>2, <2>3, <2>4
<1>11. QED
  BY <1>1, <1>2, <1>5, <1>8, <1>9, <1>10 DEF s

LEMMA DecideStep ==
  ASSUME OneWorker, IInv, NEW t \in Threads, NEW k \in Keys, NEW ok \in BOOLEAN, NEW price \in 0..Full,
         stamp[t] # Unread, Refilled(k, stamp[t]) >= price, Decide(t, k, ok, price)
  PROVE  IInv'
<1> DEFINE s == stamp[t]
<1>1. /\ s \in clock..now /\ clock' = s /\ TypeOK'
      /\ \A j \in DOMAIN buckets' : buckets'[j].last <= clock'
      /\ \A j \in Keys : /\ Up(j, s) \in 0..Full
                         /\ LevelOf(j)' = IF j = k THEN Up(j, s) - price ELSE Up(j, s)
  BY DecideLevels
<1>2. /\ clock \in Nat /\ s \in Nat /\ now \in Nat /\ since \in Nat /\ clock <= s /\ s <= now
      /\ now' = now /\ since' = since
  BY <1>1, LimiterAssumption DEF Decide, IInv, TypeOK, Times
<1>3. spent' = Paid(k, s, price)
  BY DEF Decide
<1>4. InOrder'
  <2>1. \A u \in Threads : stamp'[u] = Unread
    BY DEF OneWorker, Decide, IInv, TypeOK
  <2>2. QED
    BY <2>1 DEF InOrder, Unread
<1> HIDE DEF s
<1>5. ASSUME NEW j \in Keys
      PROVE  IF clock' >= since' THEN spent'[j] + LevelOf(j)' <= Full + (clock' - since')
                                 ELSE spent'[j] = 0
  <2>1. /\ spent[j] \in Nat
        /\ IF clock >= since THEN spent[j] + LevelOf(j) <= Full + (clock - since)
                             ELSE spent[j] = 0
    BY DEF IInv, TypeOK
  <2>2. spent'[j] = IF s >= since /\ j = k THEN spent[j] + price ELSE spent[j]
    BY <1>3 DEF Paid, IInv, TypeOK
  <2>3. LevelOf(j) \in 0..Full /\ Up(j, s) <= Full /\ Up(j, s) <= LevelOf(j) + (s - clock)
    BY <1>2, LevelFact, FullFact DEF Up
  <2>4. Up(j, s) \in 0..Full
    BY <1>1
  <2>5. LevelOf(j)' = IF j = k THEN Up(j, s) - price ELSE Up(j, s)
    BY <1>1
  <2>6. CASE clock >= since
    BY <1>1, <1>2, <2>1, <2>2, <2>3, <2>4, <2>5, <2>6, FullFact
  <2>7. CASE clock < since
    BY <1>1, <1>2, <2>1, <2>2, <2>3, <2>4, <2>5, <2>7, FullFact
  <2>8. QED
    BY <1>2, <2>6, <2>7
<1>6. QED
  BY <1>1, <1>2, <1>4, <1>5 DEF IInv

LEMMA SameLevels ==
  ASSUME buckets' = buckets, clock' = clock
  PROVE  \A j \in Keys : LevelOf(j)' = LevelOf(j)
BY DEF LevelOf, Full

\* Reading the clock and the clock itself leave the levels alone.
LEMMA ClockStep ==
  ASSUME IInv, UNCHANGED <<buckets, verdict, clock, since, spent>>, now' \in Times, now' >= now,
         \/ stamp' = stamp
         \/ \E t \in Threads : stamp' = [stamp EXCEPT ![t] = now]
  PROVE  IInv'
<1>1. clock \in Nat /\ now \in Nat /\ now' \in Nat /\ clock <= now
  BY LimiterAssumption DEF IInv, TypeOK, Times
<1>2. TypeOK'
  BY DEF IInv, TypeOK, Bucket, Times, Full
<1>3. InOrder'
  <2> SUFFICES ASSUME NEW u \in Threads, stamp'[u] # Unread PROVE stamp'[u] \in clock..now'
    BY DEF InOrder, Unread
  <2>1. stamp'[u] = stamp[u] \/ stamp'[u] = now
    BY DEF IInv, TypeOK
  <2>2. stamp[u] # Unread => stamp[u] \in clock..now
    BY DEF IInv, InOrder
  <2>3. QED
    BY <1>1, <2>1, <2>2
<1>4. \A j \in Keys : LevelOf(j)' = LevelOf(j)
  BY SameLevels
<1>5. QED
  BY <1>1, <1>2, <1>3, <1>4 DEF IInv, Full

LEMMA NextFact == OneWorker /\ IInv /\ [Next]_vars => IInv'
<1> SUFFICES ASSUME OneWorker, IInv, [Next]_vars PROVE IInv'
  OBVIOUS
<1>1. ASSUME NEW t \in Threads, NEW k \in Keys, Grant(t, k) \/ Deny(t, k) PROVE IInv'
  <2>1. CASE Grant(t, k)
    <3>1. Cost \in 0..Full
      BY FullFact
    <3>2. /\ TRUE \in BOOLEAN /\ stamp[t] # Unread
          /\ Refilled(k, stamp[t]) >= Cost /\ Decide(t, k, TRUE, Cost)
      BY <2>1 DEF Grant
    <3>3. QED
      BY <3>1, <3>2, DecideStep
  <2>2. CASE Deny(t, k)
    <3>1. Refilled(k, stamp[t]) >= 0
      <4>1. stamp[t] \in clock..now
        BY <2>2 DEF Deny, IInv, InOrder
      <4>2. Refilled(k, stamp[t]) = Up(k, stamp[t])
        BY <4>1, EntryFact
      <4>3. clock \in Nat /\ stamp[t] \in Nat /\ clock <= stamp[t]
        BY <4>1, LimiterAssumption DEF IInv, TypeOK, Times
      <4>4. QED
        BY <4>2, <4>3, LevelFact, FullFact DEF Up
    <3>2. 0 \in 0..Full
      BY FullFact
    <3>3. FALSE \in BOOLEAN /\ stamp[t] # Unread /\ Decide(t, k, FALSE, 0)
      BY <2>2 DEF Deny
    <3>4. QED
      BY <3>1, <3>2, <3>3, DecideStep
  <2>3. QED
    BY <1>1, <2>1, <2>2
<1>2. now \in Nat /\ Horizon \in Nat /\ now \in Times
  BY LimiterAssumption DEF IInv, TypeOK, Times
<1>3. ASSUME NEW t \in Threads, ReadClock(t) PROVE IInv'
  <2>1. /\ now' = now /\ now' \in Times /\ now' >= now
        /\ stamp' = [stamp EXCEPT ![t] = now]
        /\ UNCHANGED <<buckets, verdict, clock, since, spent>>
    BY <1>2, <1>3 DEF ReadClock
  <2>2. QED
    BY <2>1, ClockStep
<1>4. CASE Tick
  <2>1. now' \in Times /\ now' >= now
    BY <1>2, <1>4 DEF Tick, Times
  <2>2. QED
    BY <1>4, <2>1, ClockStep DEF Tick
<1>5. CASE UNCHANGED vars
  BY <1>2, <1>5, ClockStep DEF vars
<1>6. QED
  BY <1>1, <1>3, <1>4, <1>5 DEF Next

LEMMA InitFact == Init => IInv
<1> SUFFICES ASSUME Init PROVE IInv
  OBVIOUS
<1>1. DOMAIN buckets = {}
  BY DEF Init
<1>2. 0 \in Times /\ 0 \in Nat
  BY LimiterAssumption DEF Times
<1>3. since \in Times /\ since \in Nat /\ now = 0 /\ clock = 0
  BY LimiterAssumption DEF Init, Times
<1>4. TypeOK
  <2>1. buckets \in [DOMAIN buckets -> Bucket]
    BY <1>1 DEF Init
  <2>2. QED
    BY <1>1, <1>2, <1>3, <2>1 DEF Init, TypeOK
<1>5. \A k \in Keys : LevelOf(k) = Full /\ spent[k] = 0
  BY <1>1 DEF Init, LevelOf
<1>6. InOrder
  BY DEF Init, InOrder
<1>7. QED
  BY <1>1, <1>3, <1>4, <1>5, <1>6, FullFact DEF IInv

(***************************************************************************)
(* With one worker thread, levels, stamps and payments keep their types    *)
(* and the accounting of IInv holds.                                       *)
(***************************************************************************)
THEOREM LimiterInvariant == OneWorker => (Spec => []IInv)
<1> SUFFICES ASSUME OneWorker PROVE Spec => []IInv
  OBVIOUS
<1>1. IInv /\ [Next]_vars => IInv'
  BY NextFact
<1>2. QED
  BY <1>1, InitFact, PTL DEF Spec

(***************************************************************************)
(* With one worker thread no client is granted more than BURST creates     *)
(* plus the refill in any window, whatever is pruned meanwhile.            *)
(***************************************************************************)
THEOREM RateHolds == OneWorker => (Spec => []WindowBound)
<1> SUFFICES ASSUME OneWorker PROVE Spec => []WindowBound
  OBVIOUS
<1>1. IInv => WindowBound
  <2> SUFFICES ASSUME IInv, NEW k \in Keys, clock >= since
               PROVE  spent[k] <= Full + (clock - since)
    BY DEF WindowBound
  <2>1. spent[k] + LevelOf(k) <= Full + (clock - since)
    BY DEF IInv
  <2>2. LevelOf(k) \in 0..Full /\ spent[k] \in Nat /\ clock \in Nat /\ since \in Nat
    BY LevelFact, LimiterAssumption DEF IInv, TypeOK, Times
  <2>3. QED
    BY <2>1, <2>2, FullFact
<1>2. QED
  BY <1>1, LimiterInvariant, PTL
-----------------------------------------------------------------------------
\* The map is finite, and beyond PRUNE_AT it holds active clients only.
Bounded == IsFiniteSet(DOMAIN buckets) /\ OnlyActiveBeyondPruneAt

LEMMA DecideBounded ==
  ASSUME IInv, Bounded, NEW t \in Threads, NEW k \in Keys, NEW ok, NEW price,
         stamp[t] # Unread, Decide(t, k, ok, price)
  PROVE  Bounded'
<1> DEFINE s == stamp[t]
           D == DOMAIN buckets
<1>1. s \in clock..now /\ s \in Nat /\ clock \in Nat /\ clock <= s
  BY LimiterAssumption DEF IInv, TypeOK, InOrder, Times
<1>2. clock' = s
  BY <1>1 DEF Decide
<1>3. DOMAIN buckets' = Retained(s) \cup {k}
  BY DEF Decide
<1>4. /\ buckets'[k].last = s
      /\ \A j \in Retained(s) : j # k => buckets'[j] = buckets[j]
  BY DEF Decide
<1>5. Retained(s) \subseteq D /\ IsFiniteSet(D) /\ Cardinality(D) \in Nat
  BY FS_CardinalityType DEF Retained, Bounded
<1>6. \A j \in D : buckets[j].last \in Nat /\ buckets[j].last <= clock
  BY LimiterAssumption DEF IInv, TypeOK, Bucket, Times
<1>7. IsFiniteSet(DOMAIN buckets')
  <2>1. IsFiniteSet(Retained(s))
    BY <1>5, FS_Subset
  <2>2. QED
    BY <1>3, <2>1, FS_AddElement
<1> HIDE DEF s
<1>8. CASE Cardinality(D) >= PruneAt
  <2>1. ASSUME NEW j \in DOMAIN buckets' PROVE clock' - buckets'[j].last < Full
    <3>1. CASE j = k
      BY <1>1, <1>2, <1>4, <3>1, FullFact
    <3>2. CASE j # k
      <4>1. j \in Retained(s) /\ buckets'[j] = buckets[j]
        BY <1>3, <1>4, <2>1, <3>2
      <4>2. Elapsed(s, buckets[j].last) < Full /\ j \in D
        BY <1>8, <4>1 DEF Retained
      <4>3. QED
        BY <1>1, <1>2, <1>6, <4>1, <4>2, FullFact DEF Elapsed
    <3>3. QED
      BY <3>1, <3>2
  <2>2. QED
    BY <1>7, <2>1 DEF Bounded, OnlyActiveBeyondPruneAt, Full
<1>9. CASE Cardinality(D) < PruneAt
  <2>1. DOMAIN buckets' \subseteq D \cup {k}
    BY <1>3, <1>5
  <2>2. /\ IsFiniteSet(D \cup {k})
        /\ Cardinality(D \cup {k}) <= Cardinality(D) + 1
        /\ Cardinality(D \cup {k}) \in Nat
    <3>1. /\ IsFiniteSet(D \cup {k})
          /\ Cardinality(D \cup {k}) = IF k \in D THEN Cardinality(D) ELSE Cardinality(D) + 1
      BY <1>5, FS_AddElement
    <3> HIDE DEF D
    <3>2. QED
      BY <1>5, <3>1
  <2>3. Cardinality(DOMAIN buckets') <= Cardinality(D \cup {k}) /\ Cardinality(DOMAIN buckets') \in Nat
    BY <1>7, <2>1, <2>2, FS_Subset, FS_CardinalityType
  <2>4. ~ (Cardinality(DOMAIN buckets') > PruneAt)
    BY <1>5, <1>9, <2>2, <2>3, LimiterAssumption
  <2>5. QED
    BY <1>7, <2>4 DEF Bounded, OnlyActiveBeyondPruneAt
<1>10. QED
  BY <1>5, <1>8, <1>9, LimiterAssumption

(***************************************************************************)
(* With one worker thread, what the map holds beyond PRUNE_AT entries are  *)
(* clients that have asked within the time a bucket takes to refill.       *)
(***************************************************************************)
THEOREM MapBounded == OneWorker => (Spec => []OnlyActiveBeyondPruneAt)
<1> SUFFICES ASSUME OneWorker PROVE Spec => []OnlyActiveBeyondPruneAt
  OBVIOUS
<1>1. Init => Bounded
  <2> SUFFICES ASSUME Init PROVE Bounded
    OBVIOUS
  <2>1. DOMAIN buckets = {}
    BY DEF Init
  <2>2. QED
    BY <2>1, FS_EmptySet, LimiterAssumption DEF Bounded, OnlyActiveBeyondPruneAt
<1>2. IInv /\ Bounded /\ [Next]_vars => Bounded'
  <2> SUFFICES ASSUME IInv, Bounded, [Next]_vars PROVE Bounded'
    OBVIOUS
  <2>1. ASSUME NEW t \in Threads, NEW k \in Keys, Grant(t, k) \/ Deny(t, k) PROVE Bounded'
    <3>1. stamp[t] # Unread
      BY <2>1 DEF Grant, Deny
    <3>2. CASE Grant(t, k)
      BY <3>1, <3>2, DecideBounded DEF Grant
    <3>3. CASE Deny(t, k)
      BY <3>1, <3>3, DecideBounded DEF Deny
    <3>4. QED
      BY <2>1, <3>2, <3>3
  <2>2. CASE UNCHANGED <<buckets, clock>>
    BY <2>2 DEF Bounded, OnlyActiveBeyondPruneAt, Full
  <2>3. QED
    BY <2>1, <2>2 DEF Next, ReadClock, Tick, vars
<1>3. Bounded => OnlyActiveBeyondPruneAt
  BY DEF Bounded
<1>4. QED
  BY <1>1, <1>2, <1>3, LimiterInvariant, PTL DEF Spec
-----------------------------------------------------------------------------
LEMMA DecideRefines ==
  ASSUME IInv, NEW t \in Threads, NEW k \in Keys, NEW ok \in BOOLEAN, NEW price \in 0..Full,
         stamp[t] # Unread, Refilled(k, stamp[t]) >= price, Decide(t, k, ok, price),
         \/ ok = TRUE /\ price = Cost
         \/ ok = FALSE /\ price = 0 /\ Refilled(k, stamp[t]) < Cost
  PROVE  Promise!Next
<1> DEFINE s == stamp[t]
           d == IF s - clock < Full THEN s - clock ELSE Full
<1>1. /\ s \in clock..now
      /\ \A j \in Keys : /\ Up(j, s) \in 0..Full
                         /\ LevelOf(j)' = IF j = k THEN Up(j, s) - price ELSE Up(j, s)
  BY DecideLevels
<1>2. clock \in Nat /\ s \in Nat /\ clock <= s
  BY <1>1, LimiterAssumption DEF IInv, TypeOK, Times
<1>3. d \in 0..Full
  BY <1>2, FullFact
<1>4. Refilled(k, s) = Up(k, s)
  BY <1>1, EntryFact
<1>5. verdict' = [key |-> k, ok |-> ok]
  BY DEF Decide
<1>6. Refilled(k, s) >= price
  OBVIOUS
<1> HIDE DEF s
<1>7. \A j \in Keys : Promise!After(j, d) = Up(j, s)
  BY <1>2, LevelFact, FullFact DEF Promise!After, Up
<1> HIDE DEF d
<1>8. CASE ok = TRUE /\ price = Cost
  <2>1. Promise!After(k, d) >= Cost
    BY <1>4, <1>6, <1>7, <1>8
  <2>2. [j \in Keys |-> LevelOf(j)]' =
          [j \in Keys |-> IF j = k THEN Promise!After(k, d) - Cost ELSE Promise!After(j, d)]
    BY <1>1, <1>7, <1>8
  <2>3. Promise!Ask(k, d)
    BY <1>5, <1>8, <2>1, <2>2 DEF Promise!Ask
  <2>4. QED
    BY <1>3, <2>3 DEF Promise!Next
<1>9. CASE ok = FALSE /\ price = 0 /\ Refilled(k, s) < Cost
  <2>1. Promise!After(k, d) < Cost
    BY <1>4, <1>7, <1>9
  <2>2. [j \in Keys |-> LevelOf(j)]' = [j \in Keys |-> Promise!After(j, d)]
    BY <1>1, <1>7, <1>9, FullFact
  <2>3. Promise!Ask(k, d)
    BY <1>5, <1>9, <2>1, <2>2 DEF Promise!Ask
  <2>4. QED
    BY <1>3, <2>3 DEF Promise!Next
<1>10. QED
  BY <1>8, <1>9 DEF s

(***************************************************************************)
(* With one worker thread the pruned map implements one independent,       *)
(* unpruned bucket per client.                                             *)
(***************************************************************************)
THEOREM LimiterRefines == OneWorker => (Spec => KeepsPromise)
<1> SUFFICES ASSUME OneWorker PROVE Spec => KeepsPromise
  OBVIOUS
<1>1. Init => Promise!Init
  <2> SUFFICES ASSUME Init PROVE Promise!Init
    OBVIOUS
  <2>1. \A k \in Keys : LevelOf(k) = Full
    BY DEF Init, LevelOf
  <2>2. QED
    BY <2>1 DEF Init, Promise!Init
<1>2. IInv /\ [Next]_vars => [Promise!Next]_(Promise!bucket)
  <2> SUFFICES ASSUME IInv, [Next]_vars PROVE Promise!Next \/ UNCHANGED Promise!bucket
    OBVIOUS
  <2>1. ASSUME NEW t \in Threads, NEW k \in Keys, Grant(t, k) PROVE Promise!Next
    <3>1. Cost \in 0..Full
      BY FullFact
    <3>2. /\ TRUE \in BOOLEAN /\ stamp[t] # Unread
          /\ Refilled(k, stamp[t]) >= Cost /\ Decide(t, k, TRUE, Cost)
      BY <2>1 DEF Grant
    <3>3. QED
      BY <3>1, <3>2, DecideRefines
  <2>2. ASSUME NEW t \in Threads, NEW k \in Keys, Deny(t, k) PROVE Promise!Next
    <3>1. stamp[t] \in clock..now
      BY <2>2 DEF Deny, IInv, InOrder
    <3>2. clock \in Nat /\ stamp[t] \in Nat /\ clock <= stamp[t]
      BY <3>1, LimiterAssumption DEF IInv, TypeOK, Times
    <3>3. Refilled(k, stamp[t]) >= 0 /\ 0 \in 0..Full
      BY <3>1, <3>2, EntryFact, LevelFact, FullFact DEF Up
    <3>4. /\ FALSE \in BOOLEAN /\ stamp[t] # Unread
          /\ Refilled(k, stamp[t]) < Cost /\ Decide(t, k, FALSE, 0)
      BY <2>2 DEF Deny
    <3>5. QED
      BY <3>3, <3>4, DecideRefines
  <2>3. ASSUME UNCHANGED <<buckets, clock, verdict>> PROVE UNCHANGED Promise!bucket
    <3>1. \A j \in Keys : LevelOf(j)' = LevelOf(j)
      BY <2>3, SameLevels
    <3>2. QED
      BY <2>3, <3>1 DEF Promise!bucket
  <2>4. QED
    BY <2>1, <2>2, <2>3 DEF Next, ReadClock, Tick, vars
<1>3. QED
  BY <1>1, <1>2, LimiterInvariant, PTL DEF Spec, KeepsPromise, Promise!Spec
=============================================================================
