----------------------------- MODULE ProbingProofs -----------------------------
(***************************************************************************)
(* One prober alone on the database: what it stores is what it measured,   *)
(* for any endpoints, addresses, thresholds and retentions.                *)
(* With the collector beside it: nothing measured is lost, and the page of *)
(* the name shows all of it.  With the collector beside any number of      *)
(* probers: a denial that was carried through holds.                       *)
(***************************************************************************)
EXTENDS TrackerPage, TLAPS, FiniteSetTheorems, WellFoundedInduction

OneProber == \A p, q \in Prober : p = q

\* The strengthening, in parts.

Result == {"live", "dead", "unknown"}
IsInterval(iv) ==
    iv \in [pair : Pair, result : Result, misses : Nat, since : Nat, until : Nat]

Stores ==
    /\ clock \in Nat /\ lastLive \in 0 .. clock
    /\ DOMAIN rows \subseteq Pair
    /\ \A k \in DOMAIN rows : rows[k] \in Row /\ rows[k].since <= clock /\ rows[k].miss <= clock
    /\ \A iv \in history : IsInterval(iv)
    /\ reach \in {"", "live", "partial", "dead", "unknown"}

\* A pass goes on with what is stored; with one prober nothing moves meanwhile.
PassIsCurrent ==
    /\ DOMAIN pass = Prober
    /\ \A p \in Prober :
         /\ pass[p].at \in {"idle", "queued", "probing", "stored"}
         /\ pass[p].at = "probing" =>
              /\ pass[p].prev = rows /\ pass[p].now = clock /\ clock > 0
              /\ pass[p].addrs \in SUBSET Addr
              /\ \A x \in attempts : x[2] < clock
              /\ \A k \in DOMAIN rows : rows[k].miss < clock
         /\ pass[p].at = "stored" =>
              /\ pass[p].now = clock
              /\ pass[p].reach = RollUp(Verdicts(rows))

\* An attempt was made at an instant there was, at most one of a pair.
AttemptsAreDated ==
    \A x \in attempts : x[1] \in Pair /\ x[2] \in Nat /\ x[2] <= clock /\ x[3] \in Outcome

\* Closed intervals end before the open one starts, and in turn.
HistoryIsPast ==
    /\ \A iv \in history : iv.since < iv.until /\ iv.until <= clock
    /\ \A iv \in history : iv.pair \in DOMAIN rows => iv.until <= rows[iv.pair].since
    /\ \A x, y \in history : x.pair = y.pair /\ x # y => x.until <= y.since \/ y.until <= x.since

FailuresAreFinite == \A k : IsFiniteSet({x \in attempts : x[1] = k})

\* An endpoint that failed everywhere for a number of rounds passed on as many
\* failures to each of its addresses.
FailuresAddUp ==
    /\ \A ep \in Endpoint : down[ep] \in Nat
    /\ \A ep \in Endpoint : down[ep] > 0 => \E k \in DOMAIN rows : k[1] = ep
    /\ \A k \in DOMAIN rows : rows[k].miss >= down[k[1]]

\* What was measured agrees with what is stored.
Measured ==
    /\ AttemptsAreDated /\ HistoryIsPast /\ FailuresAreFinite
    /\ MeasurementsAreKept /\ MissesAreAttempts
    /\ FailuresAddUp /\ FailingEverywhereIsDead

Strengthening == Stores /\ PassIsCurrent /\ Measured /\ ReachIsCurrent

-----------------------------------------------------------------------------
(* Folding an attempt in.                                                   *)

\* A set of numbers that has a bound has a greatest one.
LEMMA GreatestNatural ==
    ASSUME NEW S, S # {}, S \subseteq Nat, NEW b \in Nat, \A m \in S : m <= b
    PROVE  \E n \in S : \A m \in S : m <= n
  <1> DEFINE T == {b - m : m \in S}
  <1>1. T \subseteq Nat /\ T # {}
    <2>1. \A m \in S : b - m \in Nat
      OBVIOUS
    <2> QED BY <2>1
  <1>2. PICK x \in T : \A y \in T : <<y, x>> \notin OpToRel(<, Nat)
    BY <1>1, NatLessThanWellFounded, WFMin
  <1>3. \A y \in T : ~(y < x)
    <2>1. \A y \in Nat : \A z \in Nat : y < z => <<y, z>> \in OpToRel(<, Nat)
      BY DEF OpToRel
    <2> HIDE DEF T
    <2> QED BY <1>1, <1>2, <2>1
  <1>4. PICK n \in S : x = b - n
    BY <1>2
  <1>5. \A m \in S : b - m \in T
    OBVIOUS
  <1>6. \A m \in S : m <= n
    <2> SUFFICES ASSUME NEW m \in S PROVE m <= n
      OBVIOUS
    <2>1. ~(b - m < b - n)
      BY <1>3, <1>4, <1>5
    <2>2. m \in Nat /\ n \in Nat
      OBVIOUS
    <2> HIDE DEF T
    <2> QED BY <2>1, <2>2
  <1> QED BY <1>6

\* What an address never tried before starts with is at least what every other
\* address of its endpoint has.
LEMMA StreakBound ==
    ASSUME NEW prev, NEW ep, NEW n \in Nat, NEW b \in Nat,
           \A k \in DOMAIN prev : prev[k].miss \in Nat /\ prev[k].miss <= b,
           \A k \in DOMAIN prev : k[1] = ep => prev[k].miss >= n,
           n > 0 => \E k \in DOMAIN prev : k[1] = ep
    PROVE  Streak(prev, ep) \in Nat /\ n <= Streak(prev, ep) /\ Streak(prev, ep) <= b
  <1> DEFINE counts == {prev[k].miss : k \in {j \in DOMAIN prev : j[1] = ep}}
  <1>1. counts \subseteq Nat /\ \A m \in counts : m >= n /\ m <= b
    OBVIOUS
  <1>2. n > 0 => counts # {}
    OBVIOUS
  <1>3. Streak(prev, ep) = IF counts = {} \/ 0 \in counts THEN 0
                           ELSE CHOOSE c \in counts : \A m \in counts : m <= c
    BY DEF Streak
  <1> HIDE DEF counts
  <1>4. CASE counts = {} \/ 0 \in counts
    <2>1. Streak(prev, ep) = 0
      BY <1>3, <1>4
    <2>2. n = 0
      <3>1. 0 \in counts => n = 0
        BY <1>1
      <3> QED BY <1>2, <1>4, <3>1
    <2> QED BY <2>1, <2>2
  <1>5. CASE ~(counts = {} \/ 0 \in counts)
    <2>1. \E c \in counts : \A m \in counts : m <= c
      BY <1>1, <1>5, GreatestNatural
    <2>2. Streak(prev, ep) = CHOOSE c \in counts : \A m \in counts : m <= c
      BY <1>3, <1>5
    <2>3. Streak(prev, ep) \in counts
      BY <2>1, <2>2
    <2> QED BY <1>1, <2>3
  <1> QED BY <1>4, <1>5

\* What merge makes of an attempt on a pair, read off its definition.
LEMMA MergeEffect ==
    ASSUME Stores, FailuresAddUp, NEW k \in Pair, NEW said \in Outcome, NEW now \in Nat,
           NEW m, m = Merge(rows, k, said, now),
           NEW b \in Nat, \A j \in DOMAIN rows : rows[j].miss <= b
    PROVE  /\ m \in Row
           /\ k \in DOMAIN rows /\ rows[k].result = m.result =>
                /\ m.since = rows[k].since
                /\ m.misses = (IF Failed(said) THEN 1 ELSE 0) + rows[k].misses
           /\ ~(k \in DOMAIN rows /\ rows[k].result = m.result) =>
                /\ m.since = now
                /\ m.misses = IF Failed(said) THEN 1 ELSE 0
           /\ Fits(said, m.result)
           /\ m.miss <= b + 1
           /\ Failed(said) => m.miss > down[k[1]] /\ (m.miss >= Threshold => m.result = "dead")
  <1> DEFINE seen    == k \in DOMAIN rows
             before  == rows[k]
             carried == IF seen THEN before.miss ELSE Streak(rows, k[1])
             miss    == IF said = "live" THEN 0
                        ELSE IF Failed(said) THEN carried + 1 ELSE carried
             result  == Verdict(seen, before, said, miss)
             failure == IF Failed(said) THEN 1 ELSE 0
             stands  == seen /\ before.result = result
  <1>1. seen => /\ before \in Row /\ before.miss \in Nat /\ before.misses \in Nat
                /\ before.since \in Nat /\ before.result \in Result /\ before.miss <= b
                /\ before.miss >= down[k[1]]
    BY DEF Stores, FailuresAddUp, Row, Result
  <1>2. k[1] \in Endpoint /\ down[k[1]] \in Nat
    BY DEF Pair, FailuresAddUp
  <1>3. Streak(rows, k[1]) \in Nat /\ down[k[1]] <= Streak(rows, k[1]) /\ Streak(rows, k[1]) <= b
    <2>1. \A j \in DOMAIN rows : rows[j].miss \in Nat /\ rows[j].miss <= b
      BY DEF Stores, Row
    <2> QED BY <1>2, <2>1, StreakBound DEF FailuresAddUp
  <1>4. carried \in Nat /\ down[k[1]] <= carried /\ carried <= b
    BY <1>1, <1>3 DEF Stores
  <1>5. miss \in Nat /\ miss <= b + 1 /\ (Failed(said) => miss > down[k[1]])
    <2> HIDE DEF carried
    <2>1. Failed(said) => said # "live"
      BY DEF Failed
    <2> QED BY <1>2, <1>4, <2>1
  <1>6. m = [result |-> result, miss |-> miss,
             misses |-> failure + IF stands THEN before.misses ELSE 0,
             since |-> IF stands THEN before.since ELSE now]
    BY DEF Merge
  <1>7. result \in Result /\ Fits(said, result)
        /\ (Failed(said) /\ miss >= Threshold => result = "dead")
    <2> HIDE DEF miss, before, seen
    <2> QED BY <1>1, ProbingAssumption DEF Verdict, Fits, Failed, Result
  <1>8. m.result = result /\ m.miss = miss
        /\ m.misses = (failure + IF stands THEN before.misses ELSE 0)
        /\ m.since = IF stands THEN before.since ELSE now
    BY <1>6
  <1>9. m \in Row
    <2>1. /\ (failure + IF stands THEN before.misses ELSE 0) \in Nat
          /\ (IF stands THEN before.since ELSE now) \in Nat
      BY <1>1
    <2> HIDE DEF result, miss, failure, stands
    <2> QED BY <1>5, <1>6, <1>7, <2>1 DEF Row, Result
  <1>10. stands <=> k \in DOMAIN rows /\ rows[k].result = m.result
    BY <1>8
  <1>11. stands => m.since = rows[k].since /\ m.misses = failure + rows[k].misses
    <2> HIDE DEF failure, result
    <2> QED BY <1>8
  <1>12. ~stands => m.since = now /\ m.misses = failure
    <2> HIDE DEF result
    <2> QED BY <1>8
  <1> HIDE DEF result, miss, stands
  <1> QED BY <1>5, <1>7, <1>8, <1>9, <1>10, <1>11, <1>12

-----------------------------------------------------------------------------
(* Storing a round.                                                         *)

\* What becomes of a pair that was tried now.
Folded(k, said) ==
    /\ rows'[k] \in Row /\ rows'[k].miss <= clock
    /\ k \in DOMAIN rows /\ rows[k].result = rows'[k].result =>
         /\ rows'[k].since = rows[k].since
         /\ rows'[k].misses = (IF Failed(said) THEN 1 ELSE 0) + rows[k].misses
    /\ ~(k \in DOMAIN rows /\ rows[k].result = rows'[k].result) =>
         /\ rows'[k].since = clock
         /\ rows'[k].misses = IF Failed(said) THEN 1 ELSE 0
    /\ Fits(said, rows'[k].result)
    /\ Failed(said) =>
         rows'[k].miss > down[k[1]] /\ (rows'[k].miss >= Threshold => rows'[k].result = "dead")

\* The open interval of a pair ends now.
Ended(k) ==
    rows[k].since < clock /\ (k \in DOMAIN rows' => rows'[k].result # rows[k].result)

Stored(addrs, said) ==
    /\ clock' = clock /\ clock \in Nat
    /\ \A x \in attempts : x[2] < clock
    /\ DOMAIN rows' = Endpoint \X addrs
    /\ \A k \in Endpoint \X addrs : k \in Pair /\ said[k] \in Outcome /\ Folded(k, said[k])
    /\ history \subseteq history'
    /\ \A iv \in history' \ history :
         \E k \in DOMAIN rows : Ended(k) /\ iv = Interval(k, rows[k], clock)
    /\ \A k \in DOMAIN rows : Ended(k) => Interval(k, rows[k], clock) \in history'
    /\ attempts' = attempts \cup {<<k, clock, said[k]>> : k \in Endpoint \X addrs}
    /\ down' = DownAfter(addrs, said)

\* Storing is all of that.
LEMMA StoreEffect ==
    ASSUME OneProber, Strengthening, NEW p \in Prober, Store(p)
    PROVE  \E addrs \in SUBSET Addr : \E said \in [Endpoint \X addrs -> Outcome] :
             /\ Stored(addrs, said)
             /\ interrupted'
             /\ UNCHANGED <<reach, lastLive>>
             /\ pass' = [pass EXCEPT ![p] = [at |-> "stored", reach |-> RollUp(Verdicts(rows')),
                                             now |-> clock]]
  <1> DEFINE addrs == pass[p].addrs
             pairs == Endpoint \X addrs
  <1>1. /\ pass[p].at = "probing" /\ pass[p].prev = rows /\ pass[p].now = clock
        /\ addrs \in SUBSET Addr /\ clock \in Nat /\ clock > 0
        /\ \A x \in attempts : x[2] < clock
        /\ \A k \in DOMAIN rows : rows[k].miss < clock
    BY DEF Store, Strengthening, Measured, PassIsCurrent, Stores
  <1>2. PICK said \in [pairs -> Outcome] :
          LET table == [k \in pairs |-> Merge(pass[p].prev, k, said[k], pass[p].now)]
          IN  /\ PutProbes(table, pass[p].now)
              /\ pass' = [pass EXCEPT ![p] =
                     [at |-> "stored", reach |-> RollUp(Verdicts(table)), now |-> pass[p].now]]
              /\ attempts' = attempts \cup {<<k, pass[p].now, said[k]>> : k \in pairs}
              /\ down' = DownAfter(addrs, said)
    BY DEF Store
  <1>3. /\ rows' = [k \in pairs |-> Merge(rows, k, said[k], clock)]
        /\ history' = history
             \cup (UNION {Closed(k, rows'[k].since) : k \in DOMAIN rows \cap DOMAIN rows'})
             \cup (UNION {Closed(k, clock) : k \in DOMAIN rows \ DOMAIN rows'})
        /\ pass' = [pass EXCEPT ![p] =
               [at |-> "stored", reach |-> RollUp(Verdicts(rows')), now |-> clock]]
        /\ attempts' = attempts \cup {<<k, clock, said[k]>> : k \in pairs}
        /\ down' = DownAfter(addrs, said)
    BY <1>1, <1>2 DEF PutProbes
  <1>4. interrupted' /\ UNCHANGED <<clock, reach, lastLive>>
    BY DEF Store
  <1>5. DOMAIN rows' = pairs
    BY <1>3
  <1>6. ASSUME NEW k \in pairs
        PROVE  k \in Pair /\ said[k] \in Outcome /\ Folded(k, said[k])
    <2>1. k \in Pair /\ said[k] \in Outcome
      BY <1>1 DEF Pair
    <2>2. rows'[k] = Merge(rows, k, said[k], clock)
      BY <1>3
    <2>3. PICK m, b : m = rows'[k] /\ b = clock - 1
      OBVIOUS
    <2>4. b \in Nat /\ \A j \in DOMAIN rows : rows[j].miss <= b
      <3>1. \A j \in DOMAIN rows : rows[j].miss \in Nat
        BY DEF Strengthening, Measured, Stores, Row
      <3> QED BY <1>1, <2>3, <3>1
    <2>5. m = Merge(rows, k, said[k], clock)
      BY <2>2, <2>3
    <2>6. /\ m \in Row
          /\ k \in DOMAIN rows /\ rows[k].result = m.result =>
               /\ m.since = rows[k].since
               /\ m.misses = (IF Failed(said[k]) THEN 1 ELSE 0) + rows[k].misses
          /\ ~(k \in DOMAIN rows /\ rows[k].result = m.result) =>
               /\ m.since = clock
               /\ m.misses = IF Failed(said[k]) THEN 1 ELSE 0
          /\ Fits(said[k], m.result)
          /\ m.miss <= b + 1
          /\ Failed(said[k]) => m.miss > down[k[1]] /\ (m.miss >= Threshold => m.result = "dead")
      BY <1>1, <2>1, <2>4, <2>5, MergeEffect DEF Strengthening, Measured
    <2>7. m.miss <= clock
      BY <1>1, <2>3, <2>6
    <2> QED BY <2>1, <2>3, <2>6, <2>7 DEF Folded
  <1>7. \A k \in DOMAIN rows : rows[k].since \in Nat /\ rows[k].since <= clock
    BY DEF Strengthening, Measured, Stores, Row
  <1>8. ASSUME NEW k \in DOMAIN rows
        PROVE  \A iv : /\ k \in DOMAIN rows' =>
                            (iv \in Closed(k, rows'[k].since) <=>
                                Ended(k) /\ iv = Interval(k, rows[k], clock))
                       /\ k \notin DOMAIN rows' =>
                            (iv \in Closed(k, clock) <=>
                                Ended(k) /\ iv = Interval(k, rows[k], clock))
    <2>1. CASE k \in DOMAIN rows'
      <3>1. rows[k].result = rows'[k].result => rows'[k].since = rows[k].since
        BY <1>5, <1>6, <2>1 DEF Folded
      <3>2. rows[k].result # rows'[k].result => rows'[k].since = clock
        BY <1>5, <1>6, <2>1 DEF Folded
      <3> QED BY <1>7, <2>1, <3>1, <3>2 DEF Closed, Ended
    <2>2. CASE k \notin DOMAIN rows'
      BY <2>2 DEF Closed, Ended
    <2> QED BY <2>1, <2>2
  <1>9. \A iv : iv \in history' <=>
             \/ iv \in history
             \/ \E k \in DOMAIN rows : Ended(k) /\ iv = Interval(k, rows[k], clock)
    <2>1. \A iv : iv \in history' <=>
             \/ iv \in history
             \/ \E k \in DOMAIN rows :
                    \/ k \in DOMAIN rows' /\ iv \in Closed(k, rows'[k].since)
                    \/ k \notin DOMAIN rows' /\ iv \in Closed(k, clock)
      BY <1>3, Zenon
    <2> QED BY <1>8, <2>1
  <1>10. Stored(addrs, said)
    BY <1>1, <1>3, <1>4, <1>5, <1>6, <1>9 DEF Stored
  <1> QED BY <1>1, <1>3, <1>4, <1>10

\* What a round leaves behind is well formed.
LEMMA StoredRows ==
    ASSUME Strengthening, NEW addrs \in SUBSET Addr,
           NEW said \in [Endpoint \X addrs -> Outcome], Stored(addrs, said)
    PROVE  /\ DOMAIN rows' \subseteq Pair
           /\ \A k \in DOMAIN rows' :
                rows'[k] \in Row /\ rows'[k].since <= clock /\ rows'[k].miss <= clock
           /\ \A iv \in history' : IsInterval(iv)
  <1>1. DOMAIN rows' \subseteq Pair
    BY DEF Stored
  <1>2. ASSUME NEW k \in DOMAIN rows'
        PROVE  rows'[k] \in Row /\ rows'[k].since <= clock /\ rows'[k].miss <= clock
    <2>1. Folded(k, said[k]) /\ clock \in Nat
      BY DEF Stored
    <2>2. k \in DOMAIN rows => rows[k].since <= clock
      BY DEF Strengthening, Measured, Stores
    <2> QED BY <2>1, <2>2 DEF Folded
  <1>3. ASSUME NEW k \in DOMAIN rows
        PROVE  IsInterval(Interval(k, rows[k], clock))
    <2>1. k \in Pair /\ rows[k] \in Row /\ clock \in Nat
      BY DEF Strengthening, Measured, Stores
    <2> QED BY <2>1 DEF IsInterval, Interval, Row, Result
  <1>4. \A iv \in history' : IsInterval(iv)
    BY <1>3 DEF Stored, Strengthening, Measured, Stores
  <1> QED BY <1>1, <1>2, <1>4

\* The attempts of the round are dated now.
LEMMA StoredAttempts ==
    ASSUME Strengthening, NEW addrs \in SUBSET Addr,
           NEW said \in [Endpoint \X addrs -> Outcome], Stored(addrs, said)
    PROVE  AttemptsAreDated' /\ FailuresAreFinite'
  <1>1. \A x \in attempts' : \/ x \in attempts
                            \/ \E k \in Endpoint \X addrs : x = <<k, clock, said[k]>>
    BY DEF Stored
  <1>2. AttemptsAreDated'
    <2> SUFFICES ASSUME NEW x \in attempts'
                 PROVE  x[1] \in Pair /\ x[2] \in Nat /\ x[2] <= clock /\ x[3] \in Outcome
      BY DEF AttemptsAreDated, Stored
    <2>1. CASE x \in attempts
      BY <2>1 DEF Strengthening, Measured, AttemptsAreDated
    <2>2. CASE \E k \in Endpoint \X addrs : x = <<k, clock, said[k]>>
      <3>1. PICK k \in Endpoint \X addrs : x = <<k, clock, said[k]>>
        BY <2>2
      <3>2. k \in Pair /\ said[k] \in Outcome /\ clock \in Nat
        BY DEF Stored
      <3> QED BY <3>1, <3>2
    <2> QED BY <1>1, <2>1, <2>2
  <1>3. ASSUME NEW k PROVE IsFiniteSet({x \in attempts' : x[1] = k})
    <2> DEFINE old == {x \in attempts : x[1] = k}
    <2>1. IsFiniteSet(old)
      BY DEF Strengthening, Measured, FailuresAreFinite
    <2>2. CASE k \in Endpoint \X addrs
      <3>1. {x \in attempts' : x[1] = k} = old \cup {<<k, clock, said[k]>>}
        BY <2>2 DEF Stored
      <3>2. IsFiniteSet(old \cup {<<k, clock, said[k]>>})
        <4> HIDE DEF old
        <4> QED BY <2>1, FS_AddElement
      <3> QED BY <3>1, <3>2
    <2>3. CASE k \notin Endpoint \X addrs
      <3>1. {x \in attempts' : x[1] = k} = old
        BY <2>3 DEF Stored
      <3> QED BY <2>1, <3>1
    <2> QED BY <2>2, <2>3
  <1> QED BY <1>2, <1>3 DEF FailuresAreFinite

\* An interval that ends now follows those that ended before.
LEMMA StoredHistory ==
    ASSUME Strengthening, NEW addrs \in SUBSET Addr,
           NEW said \in [Endpoint \X addrs -> Outcome], Stored(addrs, said)
    PROVE  HistoryIsPast'
  <1>0. /\ clock \in Nat /\ clock' = clock
        /\ \A k \in DOMAIN rows : rows[k].since \in Nat
        /\ \A iv \in history : iv.since \in Nat /\ iv.until \in Nat
    BY DEF Stored, Strengthening, Measured, Stores, Row, IsInterval
  <1>1. ASSUME NEW iv \in history' \ history
        PROVE  \E k \in DOMAIN rows : /\ Ended(k) /\ iv.pair = k
                                       /\ iv.since = rows[k].since /\ iv.until = clock
                                       /\ iv = Interval(k, rows[k], clock)
    BY DEF Stored, Interval
  <1>2. \A iv \in history' : iv.since < iv.until /\ iv.until <= clock
    BY <1>0, <1>1 DEF Ended, Strengthening, Measured, HistoryIsPast
  <1>3. ASSUME NEW iv \in history', iv.pair \in DOMAIN rows'
        PROVE  iv.until <= rows'[iv.pair].since
    <2> DEFINE k == iv.pair
    <2>1. Folded(k, said[k])
      BY <1>3 DEF Stored
    <2>2. iv.until <= clock
      BY <1>2
    <2>3. CASE k \in DOMAIN rows /\ rows[k].result = rows'[k].result
      <3>1. iv \in history
        BY <1>1, <1>3, <2>3 DEF Ended
      <3>2. rows'[k].since = rows[k].since
        BY <2>1, <2>3 DEF Folded
      <3> QED BY <2>3, <3>1, <3>2 DEF Strengthening, Measured, HistoryIsPast
    <2>4. CASE ~(k \in DOMAIN rows /\ rows[k].result = rows'[k].result)
      <3>1. rows'[k].since = clock
        BY <2>1, <2>4 DEF Folded
      <3> QED BY <2>2, <3>1
    <2> QED BY <2>3, <2>4
  <1>4. ASSUME NEW x \in history', NEW y \in history', x.pair = y.pair, x # y
        PROVE  x.until <= y.since \/ y.until <= x.since
    <2>1. CASE x \in history /\ y \in history
      BY <1>4, <2>1 DEF Strengthening, Measured, HistoryIsPast
    <2>2. CASE x \in history /\ y \notin history
      BY <1>1, <1>4, <2>2 DEF Strengthening, Measured, HistoryIsPast
    <2>3. CASE x \notin history /\ y \in history
      BY <1>1, <1>4, <2>3 DEF Strengthening, Measured, HistoryIsPast
    <2>4. CASE x \notin history /\ y \notin history
      BY <1>1, <1>4, <2>4
    <2> QED BY <2>1, <2>2, <2>3, <2>4
  <1> QED BY <1>0, <1>2, <1>3, <1>4 DEF HistoryIsPast

\* Attempts stay in the interval that was open, also when it ends now; those of
\* the round are in the one that is open now.
LEMMA StoredMeasurements ==
    ASSUME Strengthening, NEW addrs \in SUBSET Addr,
           NEW said \in [Endpoint \X addrs -> Outcome], Stored(addrs, said)
    PROVE  MeasurementsAreKept'
  <1> DEFINE Kept(x) ==
        \/ x[2] < clock - Retention
        \/ \E iv \in history' :
             iv.pair = x[1] /\ x[2] \in Span(iv) /\ Fits(x[3], iv.result)
        \/ /\ x[1] \in DOMAIN rows' /\ x[2] \in rows'[x[1]].since .. clock
           /\ Fits(x[3], rows'[x[1]].result)
  <1>0. clock \in Nat /\ clock' = clock /\ Retention \in Nat
    BY ProbingAssumption DEF Stored
  <1>1. SUFFICES ASSUME NEW x \in attempts' PROVE Kept(x)
    BY <1>0 DEF MeasurementsAreKept, OpenSpan
  <1>2. CASE x \in attempts
    <2> DEFINE k == x[1]
    <2>1. x[2] \in Nat /\ x[2] < clock
      BY <1>2 DEF Stored, Strengthening, Measured, AttemptsAreDated
    <2>2. CASE \/ x[2] < clock - Retention
               \/ \E iv \in history :
                    iv.pair = x[1] /\ x[2] \in Span(iv) /\ Fits(x[3], iv.result)
      BY <2>2 DEF Stored
    <2>3. CASE k \in DOMAIN rows /\ x[2] \in OpenSpan(k) /\ Fits(x[3], rows[k].result)
      <3>1. rows[k].since \in Nat /\ rows[k].since <= x[2]
        <4>1. rows[k] \in Row
          BY <2>3 DEF Strengthening, Measured, Stores
        <4>2. x[2] \in rows[k].since .. clock
          BY <2>3 DEF OpenSpan
        <4> QED BY <1>0, <4>1, <4>2 DEF Row
      <3>2. CASE k \in DOMAIN rows' /\ rows'[k].result = rows[k].result
        <4>1. rows'[k].since = rows[k].since
          BY <2>3, <3>2 DEF Stored, Folded
        <4> QED BY <1>0, <2>1, <2>3, <3>1, <3>2, <4>1
      <3>3. CASE ~(k \in DOMAIN rows' /\ rows'[k].result = rows[k].result)
        <4> DEFINE iv == Interval(k, rows[k], clock)
        <4>1. Ended(k)
          BY <1>0, <2>1, <3>1, <3>3 DEF Ended
        <4>2. iv \in history'
          BY <2>3, <4>1 DEF Stored
        <4>3. /\ iv.pair = k /\ iv.since = rows[k].since
              /\ iv.until = clock /\ iv.result = rows[k].result
          BY DEF Interval
        <4>4. x[2] \in Span(iv)
          <5> HIDE DEF iv
          <5> QED BY <1>0, <2>1, <3>1, <4>3 DEF Span
        <4> HIDE DEF iv
        <4> QED BY <2>3, <4>2, <4>3, <4>4
      <3> QED BY <3>2, <3>3
    <2> QED BY <1>2, <2>2, <2>3 DEF Strengthening, Measured, MeasurementsAreKept
  <1>3. CASE x \notin attempts
    <2>1. PICK k \in Endpoint \X addrs : x = <<k, clock, said[k]>>
      BY <1>3 DEF Stored
    <2>2. k \in DOMAIN rows' /\ Fits(said[k], rows'[k].result)
      BY DEF Stored, Folded
    <2>3. rows'[k].since \in Nat /\ rows'[k].since <= clock
      BY <2>2, StoredRows DEF Row
    <2>4. x[1] = k /\ x[2] = clock /\ x[3] = said[k]
      BY <2>1
    <2> QED BY <1>0, <2>2, <2>3, <2>4
  <1> QED BY <1>2, <1>3

\* The failures of a span that is over are those there were, and the open one
\* has one more where an attempt failed.
LEMMA StoredMisses ==
    ASSUME Strengthening, NEW addrs \in SUBSET Addr,
           NEW said \in [Endpoint \X addrs -> Outcome], Stored(addrs, said)
    PROVE  MissesAreAttempts'
  <1> DEFINE Before(k, span) == Failures(k, span)
             After(k, span)  ==
               {x \in attempts' : x[1] = k /\ x[2] \in span /\ Failed(x[3])}
             now(k) == IF Failed(said[k]) THEN 1 ELSE 0
  <1>0. /\ clock \in Nat /\ clock' = clock
        /\ \A k \in DOMAIN rows : rows[k].since \in Nat /\ rows[k].misses \in Nat
        /\ \A iv \in history' : iv.since \in Nat /\ iv.until \in Nat /\ iv.until <= clock
        /\ \A x \in attempts : x[2] \in Nat /\ x[2] < clock
    BY StoredRows, StoredHistory DEF Stored, Strengthening, Measured, Stores, Row, IsInterval,
                                     HistoryIsPast, AttemptsAreDated
  <1>1. SUFFICES /\ \A iv \in history' : iv.misses = Cardinality(After(iv.pair, Span(iv)))
                 /\ \A k \in DOMAIN rows' :
                      rows'[k].misses = Cardinality(After(k, rows'[k].since .. clock))
    BY <1>0 DEF MissesAreAttempts, Failures, OpenSpan
  \* What is over is as it was.
  <1>2. ASSUME NEW k, NEW a \in Nat, NEW b \in Nat, b <= clock
        PROVE  After(k, a .. (b - 1)) = Before(k, a .. (b - 1))
    <2>1. \A x \in attempts' \ attempts : x[2] = clock
      BY DEF Stored
    <2>2. clock \notin a .. (b - 1)
      BY <1>0, <1>2
    <2> QED BY <2>1, <2>2 DEF Stored, Failures
  <1>3. ASSUME NEW k, NEW a \in Nat
        PROVE  a .. clock # {} => Before(k, a .. (clock - 1)) = Before(k, a .. clock)
    <2>1. \A x \in attempts : x[2] \in a .. clock <=> x[2] \in a .. (clock - 1)
      BY <1>0
    <2> QED BY <2>1 DEF Failures
  <1>4. ASSUME NEW iv \in history'
        PROVE  iv.misses = Cardinality(After(iv.pair, Span(iv)))
    <2>1. After(iv.pair, Span(iv)) = Before(iv.pair, Span(iv))
      BY <1>0, <1>2 DEF Span
    <2>2. CASE iv \in history
      BY <2>1, <2>2 DEF Strengthening, Measured, MissesAreAttempts
    <2>3. CASE iv \notin history
      <3>1. PICK k \in DOMAIN rows : Ended(k) /\ iv = Interval(k, rows[k], clock)
        BY <2>3 DEF Stored
      <3>2. /\ iv.pair = k /\ iv.misses = rows[k].misses
            /\ iv.since = rows[k].since /\ iv.until = clock
        BY <3>1 DEF Interval
      <3>3. rows[k].misses = Cardinality(Before(k, rows[k].since .. clock))
        BY DEF Strengthening, Measured, MissesAreAttempts, OpenSpan
      <3>4. rows[k].since .. clock # {}
        BY <1>0, <3>1 DEF Ended
      <3>5. Before(k, rows[k].since .. (clock - 1)) = Before(k, rows[k].since .. clock)
        BY <1>0, <1>3, <3>4
      <3> QED BY <2>1, <3>2, <3>3, <3>5 DEF Span
    <2> QED BY <2>2, <2>3
  <1>5. ASSUME NEW k \in DOMAIN rows'
        PROVE  rows'[k].misses = Cardinality(After(k, rows'[k].since .. clock))
    <2>1. Folded(k, said[k]) /\ k \in Endpoint \X addrs
      BY DEF Stored
    <2>2. rows'[k].since \in Nat /\ rows'[k].since <= clock
      BY StoredRows DEF Row
    <2>3. <<k, clock, said[k]>> \notin attempts
      BY <1>0
    <2>4. ASSUME NEW a \in Nat, a <= clock
          PROVE  After(k, a .. clock) =
                   IF Failed(said[k]) THEN Before(k, a .. clock) \cup {<<k, clock, said[k]>>}
                   ELSE Before(k, a .. clock)
      <3>1. clock \in a .. clock
        BY <1>0, <2>4
      <3>2. \A x \in attempts' : x[1] = k => x \in attempts \/ x = <<k, clock, said[k]>>
        BY DEF Stored
      <3>3. <<k, clock, said[k]>> \in attempts' /\ attempts \subseteq attempts'
        BY <2>1 DEF Stored
      <3>4. \A x \in After(k, a .. clock) :
              x \in Before(k, a .. clock) \/ (Failed(said[k]) /\ x = <<k, clock, said[k]>>)
        BY <3>2 DEF Failures
      <3>5. Before(k, a .. clock) \subseteq After(k, a .. clock)
        BY <3>3 DEF Failures
      <3>6. Failed(said[k]) => <<k, clock, said[k]>> \in After(k, a .. clock)
        BY <3>1, <3>3
      <3> QED BY <3>4, <3>5, <3>6
    <2>5. ASSUME NEW a \in Nat, a <= clock
          PROVE  /\ IsFiniteSet(Before(k, a .. clock))
                 /\ Cardinality(After(k, a .. clock)) = now(k) + Cardinality(Before(k, a .. clock))
      <3>1. IsFiniteSet(Before(k, a .. clock))
        <4>1. IsFiniteSet({x \in attempts : x[1] = k})
          BY DEF Strengthening, Measured, FailuresAreFinite
        <4>2. Before(k, a .. clock) \in SUBSET {x \in attempts : x[1] = k}
          BY DEF Failures
        <4> QED BY <4>1, <4>2, FS_Subset
      <3>2. <<k, clock, said[k]>> \notin Before(k, a .. clock)
        BY <2>3 DEF Failures
      <3>3. PICK old, x : old = Before(k, a .. clock) /\ x = <<k, clock, said[k]>>
        OBVIOUS
      <3>4. IsFiniteSet(old) /\ x \notin old
        BY <3>1, <3>2, <3>3
      <3>5. Cardinality(old) \in Nat /\ Cardinality(old \cup {x}) = Cardinality(old) + 1
        BY <3>4, FS_AddElement, FS_CardinalityType
      <3>6. After(k, a .. clock) = IF Failed(said[k]) THEN old \cup {x} ELSE old
        BY <2>4, <2>5, <3>3
      <3> HIDE DEF After, Before
      <3>0. Before(k, a .. clock) = old
        BY <3>3
      <3>7. CASE Failed(said[k])
        <4>1. now(k) = 1 /\ Cardinality(After(k, a .. clock)) = Cardinality(old) + 1
          BY <3>5, <3>6, <3>7
        <4>2. Cardinality(old) + 1 = 1 + Cardinality(old)
          BY <3>5
        <4> HIDE DEF now
        <4> QED BY <3>0, <3>1, <4>1, <4>2
      <3>8. CASE ~Failed(said[k])
        <4>1. now(k) = 0 /\ Cardinality(After(k, a .. clock)) = Cardinality(old)
          BY <3>6, <3>8
        <4>2. Cardinality(old) = 0 + Cardinality(old)
          BY <3>5
        <4> HIDE DEF now
        <4> QED BY <3>0, <3>1, <4>1, <4>2
      <3> QED BY <3>7, <3>8
    <2>6. CASE k \in DOMAIN rows /\ rows[k].result = rows'[k].result
      <3>1. rows'[k].since = rows[k].since /\ rows'[k].misses = now(k) + rows[k].misses
        BY <2>1, <2>6 DEF Folded
      <3>2. rows[k].misses = Cardinality(Before(k, rows[k].since .. clock))
        BY <2>6 DEF Strengthening, Measured, MissesAreAttempts, OpenSpan
      <3> HIDE DEF After, Before, now
      <3> QED BY <2>2, <2>5, <3>1, <3>2
    <2>7. CASE ~(k \in DOMAIN rows /\ rows[k].result = rows'[k].result)
      <3>1. rows'[k].since = clock /\ rows'[k].misses = now(k)
        BY <2>1, <2>7 DEF Folded
      <3>2. Before(k, clock .. clock) = {}
        <4>1. \A x \in attempts : x[2] \notin clock .. clock
          BY <1>0
        <4> QED BY <4>1 DEF Failures
      <3>3. Cardinality(Before(k, clock .. clock)) = 0
        BY <3>2, FS_EmptySet
      <3>4. now(k) \in Nat
        OBVIOUS
      <3>5. Cardinality(After(k, clock .. clock)) = now(k) + Cardinality(Before(k, clock .. clock))
        <4>1. PICK a \in Nat : a = clock
          BY <1>0
        <4>2. a <= clock
          BY <4>1
        <4>3. Cardinality(After(k, a .. clock)) = now(k) + Cardinality(Before(k, a .. clock))
          <5> HIDE DEF After, Before, now
          <5> QED BY <2>5, <4>2
        <4> HIDE DEF After, Before, now
        <4> QED BY <4>1, <4>3
      <3> HIDE DEF After, Before, now
      <3> QED BY <3>1, <3>3, <3>4, <3>5
    <2> QED BY <2>6, <2>7
  <1> QED BY <1>4, <1>5

\* Where a whole endpoint failed, each of its addresses has the failures of
\* the rounds before, and one more.
LEMMA StoredFailures ==
    ASSUME Strengthening, NEW addrs \in SUBSET Addr,
           NEW said \in [Endpoint \X addrs -> Outcome], Stored(addrs, said)
    PROVE  FailuresAddUp' /\ FailingEverywhereIsDead'
  <1> DEFINE failing(ep) == addrs # {} /\ \A a \in addrs : Failed(said[<<ep, a>>])
  <1>1. \A ep \in Endpoint : down'[ep] = IF failing(ep) THEN down[ep] + 1 ELSE 0
    BY DEF Stored, DownAfter
  <1>2. \A ep \in Endpoint : down[ep] \in Nat
    BY DEF Strengthening, Measured, FailuresAddUp
  <1>3. ASSUME NEW k \in DOMAIN rows'
        PROVE  /\ k[1] \in Endpoint /\ k \in Endpoint \X addrs
               /\ failing(k[1]) => Failed(said[k])
               /\ rows'[k].miss \in Nat /\ Folded(k, said[k])
    <2>1. k \in Endpoint \X addrs /\ Folded(k, said[k])
      BY DEF Stored
    <2>2. k = <<k[1], k[2]>> /\ k[1] \in Endpoint /\ k[2] \in addrs
      BY <2>1
    <2>3. rows'[k].miss \in Nat
      BY <2>1 DEF Folded, Row
    <2> QED BY <2>1, <2>2, <2>3
  <1>4. \A k \in DOMAIN rows' : rows'[k].miss >= down'[k[1]]
    <2> SUFFICES ASSUME NEW k \in DOMAIN rows' PROVE rows'[k].miss >= down'[k[1]]
      OBVIOUS
    <2>1. CASE failing(k[1])
      <3>1. rows'[k].miss > down[k[1]]
        BY <1>3, <2>1 DEF Folded
      <3> QED BY <1>1, <1>2, <1>3, <2>1, <3>1
    <2>2. CASE ~failing(k[1])
      BY <1>1, <1>3, <2>2
    <2> QED BY <2>1, <2>2
  <1>5. ASSUME NEW ep \in Endpoint, down'[ep] > 0
        PROVE  \E k \in DOMAIN rows' : k[1] = ep
    <2>1. PICK a \in addrs : TRUE
      BY <1>1, <1>5
    <2>2. <<ep, a>> \in DOMAIN rows'
      BY DEF Stored
    <2> QED BY <2>2
  <1>6. ASSUME NEW k \in DOMAIN rows', down'[k[1]] >= Threshold
        PROVE  rows'[k].result = "dead"
    <2>1. Threshold \in Nat /\ Threshold > 0
      BY ProbingAssumption
    <2>2. failing(k[1])
      BY <1>1, <1>3, <1>6, <2>1
    <2>3. rows'[k].miss >= Threshold
      BY <1>1, <1>2, <1>3, <1>4, <1>6, <2>1
    <2> QED BY <1>3, <2>2, <2>3 DEF Folded
  <1>7. \A ep \in Endpoint : down'[ep] \in Nat
    BY <1>1, <1>2
  <1> QED BY <1>4, <1>5, <1>6, <1>7 DEF FailuresAddUp, FailingEverywhereIsDead

-----------------------------------------------------------------------------
(* Every step.                                                              *)

\* Time and the steps of a pass that store nothing leave it all true.
LEMMA NothingStored ==
    ASSUME Strengthening, UNCHANGED <<rows, history, attempts, down>>,
           clock' \in {clock, clock + 1}
    PROVE  /\ Measured'
           /\ clock' \in Nat /\ lastLive \in 0 .. clock'
           /\ DOMAIN rows' \subseteq Pair
           /\ \A k \in DOMAIN rows' :
                rows'[k] \in Row /\ rows'[k].since <= clock' /\ rows'[k].miss <= clock'
           /\ \A iv \in history' : IsInterval(iv)
  <1>0. /\ clock \in Nat /\ clock' \in Nat /\ clock <= clock' /\ Retention \in Nat
        /\ \A x \in attempts : x[2] \in Nat /\ x[2] <= clock
        /\ \A k \in DOMAIN rows : /\ rows[k].since \in Nat /\ rows[k].miss \in Nat
                                  /\ rows[k].since <= clock /\ rows[k].miss <= clock
        /\ \A iv \in history : iv.since \in Nat /\ iv.until \in Nat /\ iv.until <= clock
        /\ lastLive \in Nat /\ lastLive <= clock
    <2>1. /\ clock \in Nat /\ clock' \in Nat /\ clock <= clock' /\ Retention \in Nat
          /\ lastLive \in Nat /\ lastLive <= clock
      <3>1. clock \in Nat /\ lastLive \in 0 .. clock /\ Retention \in Nat
        BY ProbingAssumption DEF Strengthening, Stores
      <3> QED BY <3>1
    <2>2. \A x \in attempts : x[2] \in Nat /\ x[2] <= clock
      BY DEF Strengthening, Measured, AttemptsAreDated
    <2>3. \A k \in DOMAIN rows : /\ rows[k].since \in Nat /\ rows[k].miss \in Nat
                                /\ rows[k].since <= clock /\ rows[k].miss <= clock
      BY DEF Strengthening, Stores, Row
    <2>4. \A iv \in history : iv.since \in Nat /\ iv.until \in Nat /\ iv.until <= clock
      BY DEF Strengthening, Measured, Stores, IsInterval, HistoryIsPast
    <2> QED BY <2>1, <2>2, <2>3, <2>4
  <1>1. ASSUME NEW k \in DOMAIN rows, NEW x \in attempts
        PROVE  x[2] \in rows[k].since .. clock' <=> x[2] \in rows[k].since .. clock
    BY <1>0
  <1>2. AttemptsAreDated'
    BY <1>0 DEF Strengthening, Measured, AttemptsAreDated
  <1>3. HistoryIsPast'
    BY <1>0 DEF Strengthening, Measured, HistoryIsPast
  <1>4. FailuresAreFinite' /\ FailuresAddUp' /\ FailingEverywhereIsDead'
    BY DEF Strengthening, Measured, FailuresAreFinite, FailuresAddUp, FailingEverywhereIsDead
  <1>5. MeasurementsAreKept'
    <2> SUFFICES ASSUME NEW x \in attempts
                 PROVE  \/ x[2] < clock' - Retention
                        \/ \E iv \in history :
                             iv.pair = x[1] /\ x[2] \in Span(iv) /\ Fits(x[3], iv.result)
                        \/ /\ x[1] \in DOMAIN rows /\ x[2] \in rows[x[1]].since .. clock'
                           /\ Fits(x[3], rows[x[1]].result)
      BY DEF MeasurementsAreKept, OpenSpan, Span
    <2>1. CASE x[2] < clock - Retention
      BY <1>0, <2>1
    <2>2. CASE \E iv \in history :
                 iv.pair = x[1] /\ x[2] \in Span(iv) /\ Fits(x[3], iv.result)
      BY <2>2
    <2>3. CASE /\ x[1] \in DOMAIN rows /\ x[2] \in rows[x[1]].since .. clock
               /\ Fits(x[3], rows[x[1]].result)
      BY <1>1, <2>3
    <2> QED BY <2>1, <2>2, <2>3 DEF Strengthening, Measured, MeasurementsAreKept, OpenSpan
  <1>6. MissesAreAttempts'
    <2>1. ASSUME NEW k \in DOMAIN rows
          PROVE  Failures(k, rows[k].since .. clock') = Failures(k, rows[k].since .. clock)
      BY <1>1 DEF Failures
    <2>2. \A k \in DOMAIN rows :
            rows[k].misses = Cardinality(Failures(k, rows[k].since .. clock'))
      BY <2>1 DEF Strengthening, Measured, MissesAreAttempts, OpenSpan
    <2> QED BY <2>2 DEF Strengthening, Measured, MissesAreAttempts, OpenSpan, Failures, Span
  <1>7. /\ DOMAIN rows' \subseteq Pair
        /\ \A k \in DOMAIN rows' :
             rows'[k] \in Row /\ rows'[k].since <= clock' /\ rows'[k].miss <= clock'
        /\ \A iv \in history' : IsInterval(iv)
    <2>1. DOMAIN rows \subseteq Pair /\ \A k \in DOMAIN rows : rows[k] \in Row
      BY DEF Strengthening, Stores
    <2>2. \A iv \in history : IsInterval(iv)
      BY DEF Strengthening, Stores
    <2>3. \A k \in DOMAIN rows : rows[k].since <= clock' /\ rows[k].miss <= clock'
      BY <1>0
    <2> QED BY <2>1, <2>2, <2>3
  <1> QED BY <1>0, <1>2, <1>3, <1>4, <1>5, <1>6, <1>7 DEF Measured

\* A pass that begins, or is cut short.
LEMMA TargetsOrStopStep ==
    ASSUME Strengthening, NEW p \in Prober, Targets(p) \/ Stop(p)
    PROVE  Strengthening'
  <1>1. /\ UNCHANGED <<clock, stored, observers>>
        /\ \/ pass' = [pass EXCEPT ![p] = [at |-> "queued"]]
           \/ pass' = [pass EXCEPT ![p] = [at |-> "idle"]]
    BY DEF Targets, Stop, Idle
  <1>2. PassIsCurrent'
    BY <1>1 DEF Strengthening, PassIsCurrent, stored, observers, Verdicts
  <1>3. ReachIsCurrent'
    BY <1>1 DEF Strengthening, ReachIsCurrent, stored, observers, Verdicts, NoRows
  <1> QED BY <1>1, <1>2, <1>3, NothingStored DEF Strengthening, Stores, stored, observers

\* A pass that reads its verdicts, at an instant of its own.
LEMMA ReadStep ==
    ASSUME OneProber, Strengthening, NEW p \in Prober, Read(p)
    PROVE  Strengthening'
  <1>1. clock' = clock + 1 /\ UNCHANGED <<stored, observers>> /\ clock \in Nat
    BY DEF Read, Strengthening, Stores
  <1>2. PICK addrs \in SUBSET Addr :
          pass' = [pass EXCEPT ![p] = [at |-> "probing", prev |-> rows,
                                       addrs |-> addrs, now |-> clock + 1]]
    BY DEF Read
  <1>3. /\ DOMAIN pass' = Prober /\ \A q \in Prober : q = p
        /\ pass'[p] = [at |-> "probing", prev |-> rows, addrs |-> addrs, now |-> clock + 1]
    BY <1>2 DEF Strengthening, PassIsCurrent, OneProber
  <1>4. /\ pass'[p].at = "probing" /\ pass'[p].prev = rows
        /\ pass'[p].now = clock' /\ pass'[p].addrs = addrs
    BY <1>1, <1>3
  <1>5. /\ \A x \in attempts : x[2] < clock'
        /\ \A k \in DOMAIN rows : rows[k].miss < clock'
        /\ clock' > 0
    <2>1. \A x \in attempts : x[2] \in Nat /\ x[2] <= clock
      BY DEF Strengthening, Measured, AttemptsAreDated
    <2>2. \A k \in DOMAIN rows : rows[k].miss \in Nat /\ rows[k].miss <= clock
      BY DEF Strengthening, Stores, Row
    <2> QED BY <1>1, <2>1, <2>2
  <1>6. PassIsCurrent'
    BY <1>1, <1>3, <1>4, <1>5 DEF PassIsCurrent, stored, observers
  <1>7. ReachIsCurrent'
    BY <1>1 DEF Strengthening, ReachIsCurrent, stored, observers, Verdicts, NoRows
  <1> QED BY <1>1, <1>6, <1>7, NothingStored DEF Strengthening, Stores, stored, observers

\* A pass that stores its round.
LEMMA StoreStep ==
    ASSUME OneProber, Strengthening, NEW p \in Prober, Store(p)
    PROVE  Strengthening'
  <1>0. PICK addrs \in SUBSET Addr : \E said \in [Endpoint \X addrs -> Outcome] :
             /\ Stored(addrs, said)
             /\ interrupted'
             /\ UNCHANGED <<reach, lastLive>>
             /\ pass' = [pass EXCEPT ![p] = [at |-> "stored", reach |-> RollUp(Verdicts(rows')),
                                             now |-> clock]]
    BY StoreEffect
  <1>1. PICK said \in [Endpoint \X addrs -> Outcome] :
             /\ Stored(addrs, said)
             /\ interrupted'
             /\ UNCHANGED <<reach, lastLive>>
             /\ pass' = [pass EXCEPT ![p] = [at |-> "stored", reach |-> RollUp(Verdicts(rows')),
                                             now |-> clock]]
    BY <1>0
  <1>2. Measured'
    BY <1>1, StoredAttempts, StoredHistory, StoredMeasurements, StoredMisses, StoredFailures
       DEF Measured
  <1>3. clock' = clock
    BY <1>1 DEF Stored
  <1>4. Stores'
    BY <1>1, <1>3, StoredRows DEF Strengthening, Stores
  <1>5. /\ DOMAIN pass' = Prober /\ \A q \in Prober : q = p
        /\ pass'[p].at = "stored" /\ pass'[p].now = clock'
        /\ pass'[p].reach = RollUp(Verdicts(rows'))
    BY <1>1, <1>3 DEF Strengthening, PassIsCurrent, OneProber
  <1>6. PassIsCurrent'
    BY <1>5 DEF PassIsCurrent, Verdicts
  <1>7. ReachIsCurrent'
    BY <1>1 DEF ReachIsCurrent
  <1> QED BY <1>2, <1>4, <1>6, <1>7 DEF Strengthening

\* A pass that rolls its verdicts up.
LEMMA RollStep ==
    ASSUME Strengthening, NEW p \in Prober, Roll(p)
    PROVE  Strengthening'
  <1>1. /\ UNCHANGED <<clock, rows, history, attempts, down>>
        /\ pass' = [pass EXCEPT ![p] = [at |-> "idle"]]
        /\ reach' = pass[p].reach
        /\ lastLive' = IF Answers(pass[p].reach) THEN pass[p].now ELSE lastLive
    BY DEF Roll, SetReach, Idle
  <1>2. pass[p].reach = RollUp(Verdicts(rows)) /\ pass[p].now = clock
    BY DEF Roll, Strengthening, PassIsCurrent
  <1>3. reach' = RollUp(Verdicts(rows)) /\ lastLive' \in 0 .. clock
    <2>1. clock \in Nat /\ lastLive \in 0 .. clock
      BY DEF Strengthening, Stores
    <2>2. lastLive' = clock \/ lastLive' = lastLive
      BY <1>1, <1>2
    <2> QED BY <1>1, <1>2, <2>1, <2>2
  <1>4. reach' \in {"live", "partial", "dead", "unknown"}
    BY <1>3 DEF RollUp
  <1>5. PassIsCurrent'
    BY <1>1 DEF Strengthening, PassIsCurrent, Verdicts
  <1>6. ReachIsCurrent'
    BY <1>1, <1>3 DEF ReachIsCurrent, Verdicts
  <1> QED BY <1>1, <1>3, <1>4, <1>5, <1>6, NothingStored DEF Strengthening, Stores

\* Pruning takes what lies before the window and nothing else.
LEMMA PruneStep == ASSUME Strengthening, Prune PROVE Strengthening'
  <1>1. /\ history' = {iv \in history : iv.until >= clock - Retention}
        /\ UNCHANGED <<clock, rows, reach, lastLive, pass, observers>>
    BY DEF Prune
  <1>2. Stores' /\ PassIsCurrent' /\ ReachIsCurrent'
    BY <1>1 DEF Strengthening, Stores, PassIsCurrent, ReachIsCurrent, observers, Verdicts, NoRows
  <1>3. AttemptsAreDated' /\ HistoryIsPast' /\ FailuresAreFinite'
    BY <1>1 DEF Strengthening, Measured, AttemptsAreDated, HistoryIsPast, FailuresAreFinite,
                observers
  <1>4. MissesAreAttempts' /\ FailuresAddUp' /\ FailingEverywhereIsDead'
    BY <1>1 DEF Strengthening, Measured, MissesAreAttempts, Failures, OpenSpan, Span,
                FailuresAddUp, FailingEverywhereIsDead, observers
  <1>5. MeasurementsAreKept'
    <2>1. ASSUME NEW x \in attempts, NEW iv \in history, iv \notin history', x[2] \in Span(iv)
          PROVE  x[2] < clock - Retention
      <3>1. /\ x[2] \in Nat /\ clock \in Nat /\ Retention \in Nat
            /\ iv.since \in Nat /\ iv.until \in Nat
        BY ProbingAssumption
           DEF Strengthening, Measured, AttemptsAreDated, Stores, IsInterval
      <3>2. ~(iv.until >= clock - Retention)
        BY <1>1, <2>1
      <3> QED BY <2>1, <3>1, <3>2 DEF Span
    <2> QED BY <1>1, <2>1 DEF Strengthening, Measured, MeasurementsAreKept, OpenSpan, Span,
                            observers
  <1> QED BY <1>2, <1>3, <1>4, <1>5 DEF Strengthening, Measured

\* The strengthening is inductive for one prober.
LEMMA StrengtheningHolds == ASSUME OneProber PROVE Spec => []Strengthening
  <1>1. Init => Strengthening
    <2> SUFFICES ASSUME Init PROVE Strengthening
      OBVIOUS
    <2>1. DOMAIN rows = {} /\ history = {} /\ attempts = {} /\ clock = 0
      BY DEF Init, NoRows
    <2>2. Stores /\ ReachIsCurrent
      <3>1. reach = "" /\ rows = NoRows /\ lastLive = 0
        BY DEF Init
      <3>2. lastLive \in 0 .. clock /\ clock \in Nat
        <4>1. 0 \in 0 .. 0 /\ 0 \in Nat
          OBVIOUS
        <4> QED BY <2>1, <3>1, <4>1
      <3>3. Stores
        BY <2>1, <3>1, <3>2 DEF Stores
      <3>4. ReachIsCurrent
        BY <3>1 DEF ReachIsCurrent
      <3> QED BY <3>3, <3>4
    <2>3. PassIsCurrent
      BY DEF Init, PassIsCurrent, Idle
    <2>4. AttemptsAreDated /\ HistoryIsPast /\ MeasurementsAreKept /\ MissesAreAttempts
      BY <2>1 DEF AttemptsAreDated, HistoryIsPast, MeasurementsAreKept, MissesAreAttempts
    <2>5. FailuresAreFinite
      <3>1. \A k : {x \in attempts : x[1] = k} = {}
        BY <2>1
      <3> QED BY <3>1, FS_EmptySet DEF FailuresAreFinite
    <2>6. FailuresAddUp /\ FailingEverywhereIsDead
      <3>1. \A ep \in Endpoint : down[ep] = 0
        BY DEF Init
      <3>2. \A ep \in Endpoint : down[ep] \in Nat /\ ~(down[ep] > 0)
        BY <3>1
      <3> QED BY <2>1, <3>2 DEF FailuresAddUp, FailingEverywhereIsDead
    <2> QED BY <2>2, <2>3, <2>4, <2>5, <2>6 DEF Strengthening, Measured
  <1>2. Strengthening /\ [Next]_vars => Strengthening'
    <2> SUFFICES ASSUME Strengthening, [Next]_vars PROVE Strengthening'
      OBVIOUS
    <2>1. CASE UNCHANGED vars
      <3>1. UNCHANGED <<clock, rows, history, reach, lastLive, pass, attempts, down, interrupted>>
        BY <2>1 DEF vars, stored, observers
      <3>2. Stores' /\ PassIsCurrent' /\ ReachIsCurrent'
        BY <3>1 DEF Strengthening, Stores, PassIsCurrent, ReachIsCurrent, Verdicts, NoRows
      <3> QED BY <3>1, <3>2, NothingStored DEF Strengthening
    <2>2. CASE Next
      BY <2>2, TargetsOrStopStep, ReadStep, StoreStep, RollStep, PruneStep DEF Next
    <2> QED BY <2>1, <2>2
  <1> QED BY <1>1, <1>2, PTL DEF Spec

-----------------------------------------------------------------------------
(* What one prober stores.                                                  *)

\* Every state is well typed, and the intervals of a pair are not empty and
\* never overlap, however passes are cut short and history is pruned.
THEOREM IntervalsAreSound == ASSUME OneProber PROVE Spec => []ProbingInv
  <1>1. Strengthening => ProbingInv
    <2> SUFFICES ASSUME Strengthening PROVE ProbingInv
      OBVIOUS
    <2>1. TypeOK
      <3>1. history \subseteq [pair : Pair, result : {"live", "dead", "unknown"},
                               misses : Nat, since : Nat, until : Nat]
        BY DEF Strengthening, Stores, IsInterval, Result
      <3> QED BY <3>1 DEF TypeOK, Strengthening, Stores, PassIsCurrent
    <2>2. /\ clock \in Nat
          /\ \A iv \in history : iv.since \in Nat /\ iv.until \in Nat
          /\ \A k \in DOMAIN rows : rows[k].since \in Nat
      BY DEF Strengthening, Stores, IsInterval, Row
    <2>3. ASSUME NEW iv \in history PROVE Span(iv) # {}
      <3>1. iv.since \in Span(iv)
        BY <2>2 DEF Span, Strengthening, Measured, HistoryIsPast
      <3> QED BY <3>1
    <2>4. ASSUME NEW x \in history, NEW y \in history, x.pair = y.pair, x # y
          PROVE  Span(x) \cap Span(y) = {}
      <3>1. x.until <= y.since \/ y.until <= x.since
        BY <2>4 DEF Strengthening, Measured, HistoryIsPast
      <3> QED BY <2>2, <3>1 DEF Span
    <2>5. ASSUME NEW iv \in history, iv.pair \in DOMAIN rows
          PROVE  Span(iv) \cap OpenSpan(iv.pair) = {}
      <3>1. iv.until <= rows[iv.pair].since
        BY <2>5 DEF Strengthening, Measured, HistoryIsPast
      <3> QED BY <2>2, <2>5, <3>1 DEF Span, OpenSpan
    <2> QED BY <2>1, <2>3, <2>4, <2>5 DEF ProbingInv, IntervalsDoNotOverlap
  <1> QED BY <1>1, StrengtheningHolds, PTL

\* Every measurement inside the retention window can be read back, with the
\* verdict it gave.
THEOREM NothingMeasuredIsLost == ASSUME OneProber PROVE Spec => []MeasurementsAreKept
  <1>1. Strengthening => MeasurementsAreKept
    BY DEF Strengthening, Measured
  <1> QED BY <1>1, StrengtheningHolds, PTL

\* The misses of an interval, open or closed, are the failures the network saw
\* between its ends.
THEOREM MissesAreCounted == ASSUME OneProber PROVE Spec => []MissesAreAttempts
  <1>1. Strengthening => MissesAreAttempts
    BY DEF Strengthening, Measured
  <1> QED BY <1>1, StrengtheningHolds, PTL

\* An endpoint that failed wherever it was tried, for as many rounds as the
\* threshold, is dead on every address, fresh ones included.
THEOREM ChurnHidesNoFailure == ASSUME OneProber PROVE Spec => []FailingEverywhereIsDead
  <1>1. Strengthening => FailingEverywhereIsDead
    BY DEF Strengthening, Measured
  <1> QED BY <1>1, StrengtheningHolds, PTL

\* The reach of a name is the roll-up of its verdicts, unless a pass is between
\* its two transactions or died there.
THEOREM ReachIsRolledUp == ASSUME OneProber PROVE Spec => []ReachIsCurrent
  <1>1. Strengthening => ReachIsCurrent
    BY DEF Strengthening
  <1> QED BY <1>1, StrengtheningHolds, PTL

-----------------------------------------------------------------------------
(* A name that denies, with any number of probers.                          *)

\* Carrying a denial through, in parts: what was closed stays closed because
\* every pass is idle and none may start while the name denies.
DenialCarried ==
    /\ collector.at \in {"idle", "adopting", "clear", "forget"}
    /\ collector.at = "adopting" => DOMAIN collector = {"at", "left"}
    /\ collector.at \in {"clear", "forget"} => denies
    /\ clean \in {"closing", "carried"} => denies /\ AllIdle /\ rows = NoRows
    /\ clean = "closing" => collector.at = "forget"
    /\ clean = "carried" => reach = "unknown"
    /\ clean = "carried" => collector.at # "forget"

LEMMA DenialCarriedStarts == DInit => DenialCarried
  BY DEF DInit, DenialCarried, Done

LEMMA IdlePassesStand ==
    ASSUME DenialCarried, ProberNext
    PROVE  DenialCarried'
  <1>1. UNCHANGED <<record, adopted, collector, clean>>
    BY DEF ProberNext
  <1>2. SUFFICES ASSUME clean \in {"closing", "carried"}
                 PROVE  AllIdle' /\ rows' = NoRows /\ reach' = reach
    BY <1>1 DEF DenialCarried, denies
  <1>3. denies /\ AllIdle /\ rows = NoRows
    BY <1>2 DEF DenialCarried
  <1>4. ASSUME NEW p \in Prober PROVE ~(TargetsAllowed(p) \/ Read(p) \/ Store(p) \/ Roll(p))
    BY <1>3 DEF AllIdle, TargetsAllowed, Read, Store, Roll
  <1>5. Prune
    BY <1>4 DEF ProberNext
  <1> QED BY <1>3, <1>5 DEF Prune, AllIdle

LEMMA CheckStep ==
    ASSUME DenialCarried, NEW now \in Record, Check(now)
    PROVE  DenialCarried'
  <1>1. /\ collector.at = "idle"
        /\ record' = now /\ denies' = Denies(now)
        /\ collector' = ToDo(now)
        /\ UNCHANGED <<pass, rows, reach>>
    BY DEF Check, Done, stored, denies
  <1>2. clean' = IF Denies(now) THEN IF denies THEN clean ELSE "no"
                 ELSE IF collector' = Done THEN "adopted" ELSE "no"
    BY DEF Check
  <1>3. CASE Denies(now)
    <2>1. collector'.at \in {"idle", "clear"}
      BY <1>1, <1>3 DEF ToDo, Done
    <2> QED BY <1>1, <1>2, <1>3, <2>1 DEF DenialCarried, AllIdle
  <1>4. CASE ~Denies(now)
    <2>1. \/ collector'.at = "idle"
          \/ collector'.at = "adopting" /\ DOMAIN collector' = {"at", "left"}
      BY <1>1, <1>4 DEF ToDo, Done
    <2> QED BY <1>1, <1>2, <1>4, <2>1 DEF DenialCarried
  <1> QED BY <1>3, <1>4

LEMMA CollectorStep ==
    ASSUME DenialCarried, Adopt \/ Clear \/ Forget \/ Abandon \/ StopPass
    PROVE  DenialCarried'
  <1>1. CASE Adopt
    <2>1. /\ \/ collector'.at = "idle"
             \/ collector'.at = "adopting" /\ DOMAIN collector' = {"at", "left"}
          /\ clean' \in {"adopted", "no"}
      BY <1>1 DEF Adopt, DenialCarried, Done
    <2> QED BY <2>1 DEF DenialCarried
  <1>2. CASE Clear
    <2>1. /\ rows' = NoRows /\ collector'.at = "forget"
          /\ clean' = IF AllIdle THEN "closing" ELSE "no"
          /\ UNCHANGED <<pass, record>>
      BY <1>2 DEF Clear, PutProbes
    <2> QED BY <1>2, <2>1 DEF Clear, DenialCarried, denies, AllIdle
  <1>3. CASE Forget
    <2>1. /\ collector.at = "forget" /\ collector'.at = "idle" /\ reach' = "unknown"
          /\ clean' = IF clean = "closing" THEN "carried" ELSE clean
          /\ UNCHANGED <<rows, pass, record>>
      BY <1>3 DEF Forget, SetReach, Done
    <2> QED BY <2>1 DEF DenialCarried, denies, AllIdle
  <1>4. CASE Abandon
    BY <1>4 DEF Abandon, DenialCarried, Done
  <1>5. CASE StopPass
    <2>1. PICK p \in Prober : Stop(p)
      BY <1>5 DEF StopPass
    <2>2. UNCHANGED <<record, adopted, collector, clean, rows, reach>>
      BY <1>5, <2>1 DEF StopPass, Stop, stored
    <2>3. ~AllIdle
      BY <2>1 DEF Stop, AllIdle
    <2> QED BY <2>2, <2>3 DEF DenialCarried, denies
  <1> QED BY <1>1, <1>2, <1>3, <1>4, <1>5

\* A denial carried through with no pass under way holds for as long as the
\* name denies: however many probers there are, none opens an interval or
\* moves the reach (ProbeTargets leaves the name out, checkBEP34 closes it).
THEOREM DenialStands == DSpec => []DenialHolds
  <1>1. ASSUME DenialCarried, [DNext]_dvars PROVE DenialCarried'
    <2>1. CASE UNCHANGED dvars
      BY <1>1, <2>1 DEF dvars, vars, stored, DenialCarried, denies, AllIdle
    <2>2. CASE DNext
      BY <1>1, <2>2, IdlePassesStand, CheckStep, CollectorStep DEF DNext, Proceed
    <2> QED BY <1>1, <2>1, <2>2
  <1>2. DenialCarried => DenialHolds
    BY DEF DenialCarried, DenialHolds
  <1> QED BY <1>1, <1>2, DenialCarriedStarts, PTL DEF DSpec

-----------------------------------------------------------------------------
(* What a record advertises is adopted.                                     *)

\* What is not adopted of the record being read is still to do.
AdoptingGoesOn ==
    /\ collector.at = "adopting" =>
         \A i \in UDP(record) : i \in collector.left \/ Named[record][i] \in adopted
    /\ AdvertisedIsAdopted

LEMMA AdoptingStep ==
    ASSUME AdoptingGoesOn, [DNext]_dvars
    PROVE  AdoptingGoesOn'
  <1> USE DEF AdoptingGoesOn, AdvertisedIsAdopted
  <1>1. ASSUME UNCHANGED <<record, adopted, collector, clean>> PROVE AdoptingGoesOn'
    BY <1>1 DEF UDP
  <1>2. ASSUME NEW now \in Record, Check(now) PROVE AdoptingGoesOn'
    <2>1. adopted' = adopted /\ record' = now
      BY <1>2 DEF Check
    <2>2. CASE Denies(now)
      <3>1. UDP(now) = {}
        BY <2>2 DEF UDP, Denies
      <3>2. collector' = Done \/ collector'.at = "clear"
        BY <1>2, <2>2 DEF Check, ToDo
      <3>3. collector'.at # "adopting"
        BY <3>2 DEF Done
      <3> QED BY <2>1, <3>1, <3>3 DEF UDP
    <2>3. CASE ~Denies(now) /\ UDP(now) = {}
      <3>1. collector' = Done
        BY <1>2, <2>3 DEF Check, ToDo
      <3> QED BY <2>1, <2>3, <3>1 DEF UDP, Done
    <2>4. CASE ~Denies(now) /\ UDP(now) # {}
      <3>1. collector' = [at |-> "adopting", left |-> UDP(now)] /\ clean' = "no"
        BY <1>2, <2>4 DEF Check, ToDo, Done
      <3> QED BY <2>1, <3>1 DEF UDP
    <2> QED BY <2>2, <2>3, <2>4
  <1>3. ASSUME Adopt PROVE AdoptingGoesOn'
    <2> DEFINE place == First(collector.left)
               left  == collector.left \ {place}
    <2>1. /\ collector.at = "adopting" /\ record' = record
          /\ adopted' = adopted \cup {Named[record][place]}
          /\ collector' = IF left = {} THEN Done ELSE [at |-> "adopting", left |-> left]
          /\ clean' = IF collector' = Done THEN "adopted" ELSE "no"
      BY <1>3 DEF Adopt, Done
    <2>2. \A i \in UDP(record) : i \in left \/ Named[record][i] \in adopted'
      BY <2>1
    <2> HIDE DEF place, left
    <2>3. CASE left = {}
      BY <2>1, <2>2, <2>3 DEF UDP
    <2>4. CASE left # {}
      BY <2>1, <2>2, <2>4 DEF UDP, Done
    <2> QED BY <2>3, <2>4
  <1>4. ASSUME Clear \/ Forget \/ Abandon PROVE AdoptingGoesOn'
    <2>1. /\ record' = record /\ adopted' = adopted
          /\ collector'.at # "adopting"
          /\ clean' = "adopted" => clean = "adopted"
      <3>1. CASE Clear
        BY <3>1 DEF Clear
      <3>2. CASE Forget
        BY <3>2 DEF Forget, Done
      <3>3. CASE Abandon
        <4>1. record' = record /\ adopted' = adopted /\ collector' = Done /\ clean' = "no"
          BY <3>3 DEF Abandon
        <4> QED BY <4>1 DEF Done
      <3> QED BY <1>4, <3>1, <3>2, <3>3
    <2> QED BY <2>1 DEF UDP
  <1> QED BY <1>1, <1>2, <1>3, <1>4 DEF DNext, Proceed, ProberNext, StopPass, dvars

\* Whatever is abandoned, checked again and probed meanwhile, every UDP endpoint
\* of the record is adopted once a check of it was carried through.
THEOREM AdvertisedAlwaysAdopted == DSpec => []AdvertisedIsAdopted
  <1>1. DInit => AdoptingGoesOn
    BY DEF DInit, AdoptingGoesOn, AdvertisedIsAdopted, Done
  <1>2. AdoptingGoesOn => AdvertisedIsAdopted
    BY DEF AdoptingGoesOn
  <1> QED BY <1>1, <1>2, AdoptingStep, PTL DEF DSpec

-----------------------------------------------------------------------------
(* One prober beside the collector: what was measured is still kept, and the
   page that is read meanwhile shows all of it. *)

\* Instants are those there were.
Dated ==
    /\ clock \in Nat
    /\ \A k \in DOMAIN rows : rows[k].since \in Nat /\ rows[k].since <= clock
    /\ \A iv \in history : iv.since \in Nat /\ iv.until \in Nat
    /\ \A x \in attempts : x[2] \in Nat /\ x[2] <= clock

\* What a pass has in hand is what is stored, or the collector closed it; the
\* round it stores is dated after all that was measured.
InHand ==
    /\ DOMAIN pass = Prober
    /\ \A p \in Prober : pass[p].at = "probing" =>
         /\ pass[p].now \in Nat /\ pass[p].now <= clock
         /\ \A x \in attempts : x[2] < pass[p].now
         /\ \A k \in DOMAIN pass[p].prev :
              pass[p].prev[k].since \in Nat /\ pass[p].prev[k].since < pass[p].now
         /\ rows = pass[p].prev \/ DOMAIN rows = {}

KeptInv == Dated /\ InHand /\ MeasurementsAreKept

\* An attempt that a closed interval shows, or that is past the retention.
Archived(x) ==
    \/ x[2] < clock - Retention
    \/ \E iv \in history : iv.pair = x[1] /\ x[2] \in Span(iv) /\ Fits(x[3], iv.result)

\* Merge keeps the start of an interval or starts one now, and believes what
\* was said.
LEMMA MergeDates ==
    ASSUME NEW prev, NEW k, NEW said, NEW now
    PROVE  LET m == Merge(prev, k, said, now)
           IN  /\ Fits(said, m.result)
               /\ \/ m.since = now
                  \/ k \in DOMAIN prev /\ m.since = prev[k].since /\ m.result = prev[k].result
               /\ k \in DOMAIN prev /\ m.result = prev[k].result => m.since = prev[k].since
  <1> DEFINE seen    == k \in DOMAIN prev
             before  == prev[k]
             carried == IF seen THEN before.miss ELSE Streak(prev, k[1])
             miss    == IF said = "live" THEN 0
                        ELSE IF Failed(said) THEN carried + 1 ELSE carried
             result  == Verdict(seen, before, said, miss)
             stands  == seen /\ before.result = result
             misses  == (IF Failed(said) THEN 1 ELSE 0) + IF stands THEN before.misses ELSE 0
             since   == IF stands THEN before.since ELSE now
  <1>1. Merge(prev, k, said, now) =
          [result |-> result, miss |-> miss, misses |-> misses, since |-> since]
    BY DEF Merge
  <1>2. Fits(said, result)
    <2> HIDE DEF miss, before, seen
    <2> QED BY DEF Verdict, Fits, Failed
  <1> HIDE DEF result, miss, misses
  <1> QED BY <1>1, <1>2

\* What closing at an instant leaves in the history.
LEMMA ClosedEffect ==
    ASSUME NEW table, NEW now, PutProbes(table, now)
    PROVE  /\ rows' = table
           /\ history \subseteq history'
           /\ \A k \in DOMAIN rows \cap DOMAIN table :
                rows[k].since < table[k].since => Interval(k, rows[k], table[k].since) \in history'
           /\ \A k \in DOMAIN rows \ DOMAIN table :
                rows[k].since < now => Interval(k, rows[k], now) \in history'
           /\ \A iv \in history' \ history :
                \/ \E k \in DOMAIN rows \cap DOMAIN table : iv = Interval(k, rows[k], table[k].since)
                \/ \E k \in DOMAIN rows \ DOMAIN table : iv = Interval(k, rows[k], now)
  <1> DEFINE moved(k) == Closed(k, table[k].since)
             gone(k)  == Closed(k, now)
             A == UNION {moved(k) : k \in DOMAIN rows \cap DOMAIN table}
             B == UNION {gone(k) : k \in DOMAIN rows \ DOMAIN table}
  <1>1. rows' = table /\ history' = history \cup A \cup B
    BY DEF PutProbes
  <1>2. \A iv : iv \in A <=> \E k \in DOMAIN rows \cap DOMAIN table : iv \in moved(k)
    <2> HIDE DEF moved
    <2> QED OBVIOUS
  <1>3. \A iv : iv \in B <=> \E k \in DOMAIN rows \ DOMAIN table : iv \in gone(k)
    <2> HIDE DEF gone
    <2> QED OBVIOUS
  <1>4. \A k : /\ rows[k].since < table[k].since => Interval(k, rows[k], table[k].since) \in moved(k)
               /\ rows[k].since < now => Interval(k, rows[k], now) \in gone(k)
               /\ \A iv \in moved(k) : iv = Interval(k, rows[k], table[k].since)
               /\ \A iv \in gone(k) : iv = Interval(k, rows[k], now)
    BY DEF Closed
  <1> HIDE DEF moved, gone, A, B
  <1> QED BY <1>1, <1>2, <1>3, <1>4

LEMMA IntervalFields ==
    ASSUME NEW k, NEW row, NEW until
    PROVE  LET iv == Interval(k, row, until)
           IN  /\ iv.pair = k /\ iv.since = row.since
               /\ iv.until = until /\ iv.result = row.result
  BY DEF Interval

\* A round stored from what the pass has in hand loses nothing.
LEMMA KeptByStore ==
    ASSUME OneProber, KeptInv, NEW p \in Prober, Store(p)
    PROVE  KeptInv'
  <1> DEFINE prev  == pass[p].prev
             now   == pass[p].now
             pairs == Endpoint \X pass[p].addrs
  <1>1. /\ clock \in Nat /\ clock' = clock /\ Retention \in Nat
        /\ now \in Nat /\ now <= clock
        /\ \A x \in attempts : x[2] \in Nat /\ x[2] < now
        /\ \A k \in DOMAIN prev : prev[k].since \in Nat /\ prev[k].since < now
        /\ rows = prev \/ DOMAIN rows = {}
        /\ \A iv \in history : iv.since \in Nat /\ iv.until \in Nat
        /\ DOMAIN pass = Prober
    BY ProbingAssumption DEF Store, KeptInv, Dated, InHand
  <1>2. PICK said \in [pairs -> Outcome] :
          /\ PutProbes([k \in pairs |-> Merge(prev, k, said[k], now)], now)
          /\ pass' = [pass EXCEPT ![p] =
                [at |-> "stored",
                 reach |-> RollUp(Verdicts([k \in pairs |-> Merge(prev, k, said[k], now)])),
                 now |-> now]]
          /\ attempts' = attempts \cup {<<k, now, said[k]>> : k \in pairs}
    BY DEF Store
  <1> DEFINE table == [k \in pairs |-> Merge(prev, k, said[k], now)]
  <1>3. PutProbes(table, now) /\ DOMAIN table = pairs /\ rows' = table
    BY <1>2, ClosedEffect
  <1>4. ASSUME NEW k \in pairs
        PROVE  /\ Fits(said[k], table[k].result)
               /\ table[k].since \in Nat /\ table[k].since <= now
               /\ \/ table[k].since = now
                  \/ k \in DOMAIN prev /\ table[k].since = prev[k].since
                     /\ table[k].result = prev[k].result
               /\ k \in DOMAIN prev /\ table[k].result = prev[k].result =>
                    table[k].since = prev[k].since
    <2>1. table[k] = Merge(prev, k, said[k], now)
      OBVIOUS
    <2> HIDE DEF table
    <2> QED BY <1>1, <2>1, MergeDates
  <1>5. \A k \in DOMAIN rows : /\ k \in DOMAIN prev /\ rows[k] = prev[k]
                               /\ rows[k].since \in Nat /\ rows[k].since < now
    BY <1>1
  <1> HIDE DEF prev, now, table
  <1>6. /\ history \subseteq history'
        /\ \A k \in DOMAIN rows \cap pairs :
             rows[k].since < table[k].since => Interval(k, rows[k], table[k].since) \in history'
        /\ \A k \in DOMAIN rows \ pairs : Interval(k, rows[k], now) \in history'
        /\ \A iv \in history' \ history :
             \/ \E k \in DOMAIN rows \cap pairs : iv = Interval(k, rows[k], table[k].since)
             \/ \E k \in DOMAIN rows \ pairs : iv = Interval(k, rows[k], now)
    <2> HIDE DEF pairs
    <2>1. /\ history \subseteq history'
          /\ \A k \in DOMAIN rows \cap DOMAIN table :
               rows[k].since < table[k].since => Interval(k, rows[k], table[k].since) \in history'
          /\ \A k \in DOMAIN rows \ DOMAIN table :
               rows[k].since < now => Interval(k, rows[k], now) \in history'
          /\ \A iv \in history' \ history :
               \/ \E k \in DOMAIN rows \cap DOMAIN table : iv = Interval(k, rows[k], table[k].since)
               \/ \E k \in DOMAIN rows \ DOMAIN table : iv = Interval(k, rows[k], now)
      BY <1>3, ClosedEffect
    <2> QED BY <1>3, <1>5, <2>1
  <1>7. Dated'
    <2>1. \A x \in attempts' : x[2] \in Nat /\ x[2] <= clock
      BY <1>1, <1>2
    <2>2. \A iv \in history' : iv.since \in Nat /\ iv.until \in Nat
      BY <1>1, <1>4, <1>5, <1>6, IntervalFields
    <2>3. \A k \in DOMAIN rows' : rows'[k].since \in Nat /\ rows'[k].since <= clock
      BY <1>1, <1>3, <1>4
    <2> QED BY <1>1, <2>1, <2>2, <2>3 DEF Dated
  <1>8. InHand'
    <2>1. DOMAIN pass' = Prober /\ \A q \in Prober : q = p /\ pass'[q].at = "stored"
      BY <1>1, <1>2 DEF OneProber
    <2> QED BY <2>1 DEF InHand
  <1>9. MeasurementsAreKept'
    <2> SUFFICES ASSUME NEW x \in attempts'
                 PROVE  \/ x[2] < clock - Retention
                        \/ \E iv \in history' :
                             iv.pair = x[1] /\ x[2] \in iv.since .. (iv.until - 1)
                             /\ Fits(x[3], iv.result)
                        \/ /\ x[1] \in DOMAIN rows' /\ x[2] \in rows'[x[1]].since .. clock
                           /\ Fits(x[3], rows'[x[1]].result)
      BY <1>1 DEF MeasurementsAreKept, OpenSpan, Span
    <2>1. CASE x \in attempts
      <3> DEFINE k == x[1]
      <3>1. x[2] \in Nat /\ x[2] < now
        BY <1>1, <2>1
      <3>2. CASE \/ x[2] < clock - Retention
                 \/ \E iv \in history :
                      iv.pair = k /\ x[2] \in Span(iv) /\ Fits(x[3], iv.result)
        BY <1>6, <3>2 DEF Span
      <3>3. CASE k \in DOMAIN rows /\ x[2] \in OpenSpan(k) /\ Fits(x[3], rows[k].result)
        <4>1. /\ rows[k].since \in Nat /\ rows[k].since <= x[2] /\ rows[k] = prev[k]
              /\ k \in DOMAIN prev
          BY <1>1, <1>5, <3>3 DEF OpenSpan
        <4>2. CASE k \in pairs /\ table[k].since = rows[k].since /\ table[k].result = rows[k].result
          BY <1>1, <1>3, <3>1, <3>3, <4>1, <4>2
        <4>3. CASE k \in pairs /\ table[k].since = now
          <5>1. Interval(k, rows[k], now) \in history'
            BY <1>5, <1>6, <3>3, <4>3
          <5> QED BY <1>1, <3>1, <3>3, <4>1, <5>1, IntervalFields
        <4>4. CASE k \notin pairs
          <5>1. Interval(k, rows[k], now) \in history'
            BY <1>6, <3>3, <4>4
          <5> QED BY <1>1, <3>1, <3>3, <4>1, <5>1, IntervalFields
        <4> QED BY <1>4, <4>1, <4>2, <4>3, <4>4
      <3> QED BY <2>1, <3>2, <3>3 DEF KeptInv, MeasurementsAreKept
    <2>2. CASE x \notin attempts
      <3>1. PICK k \in pairs : x = <<k, now, said[k]>>
        BY <1>2, <2>2
      <3>2. x[1] = k /\ x[2] = now /\ x[3] = said[k]
        BY <3>1
      <3> QED BY <1>1, <1>3, <1>4, <3>2
    <2> QED BY <2>1, <2>2
  <1> QED BY <1>7, <1>8, <1>9 DEF KeptInv

\* Closing everything now loses nothing either, whatever pass is under way.
LEMMA KeptByClear ==
    ASSUME KeptInv, Clear
    PROVE  KeptInv'
  <1>1. /\ clock \in Nat /\ clock' = clock + 1 /\ Retention \in Nat
        /\ PutProbes(NoRows, clock + 1)
        /\ UNCHANGED <<pass, attempts>>
    BY ProbingAssumption DEF Clear, observers, KeptInv, Dated
  <1>2. /\ rows' = NoRows /\ history \subseteq history'
        /\ \A k \in DOMAIN rows : Interval(k, rows[k], clock + 1) \in history'
        /\ \A iv \in history' \ history :
             \E k \in DOMAIN rows : iv = Interval(k, rows[k], clock + 1)
    <2>1. DOMAIN NoRows = {}
      BY DEF NoRows
    <2>2. \A k \in DOMAIN rows : rows[k].since < clock + 1
      BY <1>1 DEF KeptInv, Dated
    <2> QED BY <1>1, <2>1, <2>2, ClosedEffect
  <1>3. DOMAIN rows' = {}
    BY <1>2 DEF NoRows
  <1>4. Dated'
    BY <1>1, <1>2, <1>3, IntervalFields DEF KeptInv, Dated
  <1>5. InHand'
    BY <1>1, <1>3 DEF KeptInv, Dated, InHand
  <1>6. MeasurementsAreKept'
    <2> SUFFICES ASSUME NEW x \in attempts
                 PROVE  \/ x[2] < clock + 1 - Retention
                        \/ \E iv \in history' :
                             iv.pair = x[1] /\ x[2] \in iv.since .. (iv.until - 1)
                             /\ Fits(x[3], iv.result)
      BY <1>1 DEF MeasurementsAreKept, OpenSpan, Span
    <2>1. x[2] \in Nat
      BY DEF KeptInv, Dated
    <2>2. CASE \/ x[2] < clock - Retention
               \/ \E iv \in history :
                    iv.pair = x[1] /\ x[2] \in Span(iv) /\ Fits(x[3], iv.result)
      BY <1>1, <1>2, <2>1, <2>2 DEF Span
    <2>3. CASE x[1] \in DOMAIN rows /\ x[2] \in OpenSpan(x[1]) /\ Fits(x[3], rows[x[1]].result)
      <3>1. rows[x[1]].since \in Nat /\ rows[x[1]].since <= x[2] /\ x[2] <= clock
        BY <1>1, <2>3 DEF KeptInv, Dated, OpenSpan
      <3>2. PICK iv \in history' : iv = Interval(x[1], rows[x[1]], clock + 1)
        BY <1>2, <2>3
      <3>3. /\ iv.pair = x[1] /\ iv.since = rows[x[1]].since
            /\ iv.until = clock + 1 /\ iv.result = rows[x[1]].result
        BY <3>2, IntervalFields
      <3>4. x[2] \in iv.since .. (iv.until - 1)
        BY <1>1, <2>1, <3>1, <3>3
      <3>5. Fits(x[3], iv.result)
        BY <2>3, <3>3, Zenon
      <3> QED BY <3>3, <3>4, <3>5
    <2> QED BY <2>2, <2>3 DEF KeptInv, MeasurementsAreKept
  <1> QED BY <1>4, <1>5, <1>6 DEF KeptInv

\* The other steps, of a prober or of the collector.
LEMMA KeptByOthers ==
    ASSUME OneProber, KeptInv,
           \/ UNCHANGED <<clock, rows, history, attempts, pass>>
           \/ \E p \in Prober : Targets(p) \/ Read(p) \/ Roll(p) \/ Stop(p)
           \/ Prune
    PROVE  KeptInv'
  <1>0. clock \in Nat /\ Retention \in Nat
    BY ProbingAssumption DEF KeptInv, Dated
  <1>1. CASE UNCHANGED <<clock, rows, history, attempts, pass>>
    BY <1>1 DEF KeptInv, Dated, InHand, MeasurementsAreKept, OpenSpan
  <1>2. ASSUME NEW p \in Prober, Targets(p) \/ Roll(p) \/ Stop(p)
        PROVE  KeptInv'
    <2>1. UNCHANGED <<clock, rows, history, attempts>>
      BY <1>2 DEF Targets, Roll, Stop, stored, observers
    <2>2. DOMAIN pass' = DOMAIN pass
          /\ \A q \in Prober : pass'[q].at = "probing" => pass'[q] = pass[q]
      <3>1. DOMAIN pass = Prober
        BY DEF KeptInv, InHand
      <3>2. \/ pass' = [pass EXCEPT ![p] = [at |-> "queued"]]
            \/ pass' = [pass EXCEPT ![p] = [at |-> "idle"]]
        BY <1>2 DEF Targets, Roll, Stop, Idle
      <3>3. pass'[p].at # "probing" /\ \A q \in Prober : q # p => pass'[q] = pass[q]
        BY <3>1, <3>2
      <3> QED BY <3>1, <3>2, <3>3
    <2> QED BY <2>1, <2>2 DEF KeptInv, Dated, InHand, MeasurementsAreKept, OpenSpan
  <1>3. ASSUME NEW p \in Prober, Read(p)
        PROVE  KeptInv'
    <2>1. clock' = clock + 1 /\ UNCHANGED <<rows, history, attempts>>
      BY <1>3 DEF Read, stored, observers
    <2>2. PICK addrs \in SUBSET Addr :
            pass' = [pass EXCEPT ![p] = [at |-> "probing", prev |-> rows,
                                         addrs |-> addrs, now |-> clock + 1]]
      BY <1>3 DEF Read
    <2>3. /\ DOMAIN pass' = Prober
          /\ \A q \in Prober : pass'[q].prev = rows /\ pass'[q].now = clock + 1
      BY <2>2 DEF OneProber, KeptInv, InHand
    <2>4. /\ \A x \in attempts : x[2] \in Nat /\ x[2] <= clock
          /\ \A k \in DOMAIN rows : rows[k].since \in Nat /\ rows[k].since <= clock
      BY DEF KeptInv, Dated
    <2>5. InHand'
      BY <1>0, <2>1, <2>3, <2>4 DEF InHand
    <2>6. Dated'
      BY <1>0, <2>1, <2>4 DEF KeptInv, Dated
    <2>7. MeasurementsAreKept'
      <3> DEFINE Kept(x) ==
            \/ x[2] < clock' - Retention
            \/ \E iv \in history : iv.pair = x[1] /\ x[2] \in Span(iv) /\ Fits(x[3], iv.result)
            \/ /\ x[1] \in DOMAIN rows /\ x[2] \in rows[x[1]].since .. clock'
               /\ Fits(x[3], rows[x[1]].result)
      <3>1. ASSUME NEW x \in attempts, x[2] < clock - Retention PROVE Kept(x)
        BY <1>0, <2>1, <2>4, <3>1
      <3>2. ASSUME NEW x \in attempts, x[1] \in DOMAIN rows, x[2] \in OpenSpan(x[1]),
                   Fits(x[3], rows[x[1]].result)
            PROVE  Kept(x)
        BY <1>0, <2>1, <2>4, <3>2 DEF OpenSpan
      <3>3. \A x \in attempts : Kept(x)
        BY <3>1, <3>2 DEF KeptInv, MeasurementsAreKept
      <3> QED BY <2>1, <3>3 DEF MeasurementsAreKept, OpenSpan, Span
    <2> QED BY <2>5, <2>6, <2>7 DEF KeptInv
  <1>4. CASE Prune
    <2>1. /\ history' = {iv \in history : iv.until >= clock - Retention}
          /\ UNCHANGED <<clock, rows, attempts, pass>>
      BY <1>4 DEF Prune, observers
    <2>2. ASSUME NEW x \in attempts, NEW iv \in history, iv \notin history', x[2] \in Span(iv)
          PROVE  x[2] < clock - Retention
      <3>1. /\ iv.since \in Nat /\ iv.until \in Nat /\ x[2] \in Nat
            /\ ~(iv.until >= clock - Retention)
        BY <2>1, <2>2 DEF KeptInv, Dated
      <3> QED BY <1>0, <2>2, <3>1 DEF Span
    <2>3. MeasurementsAreKept'
      BY <2>1, <2>2 DEF KeptInv, MeasurementsAreKept, OpenSpan, Span
    <2> QED BY <2>1, <2>3 DEF KeptInv, Dated, InHand
  <1> QED BY <1>1, <1>2, <1>3, <1>4

\* Every step of the two together.
LEMMA KeptStep ==
    ASSUME OneProber, KeptInv, [DNext]_dvars
    PROVE  KeptInv'
  <1>1. CASE UNCHANGED dvars
    BY <1>1, KeptByOthers DEF dvars, vars, stored, observers
  <1>2. CASE ProberNext
    BY <1>2, KeptByOthers, KeptByStore DEF ProberNext, TargetsAllowed
  <1>3. CASE (\E now \in Record : Check(now)) \/ Adopt \/ Forget \/ Abandon
    <2>1. UNCHANGED <<clock, rows, history, attempts, pass>>
      BY <1>3 DEF Check, Adopt, Forget, Abandon, stored, observers
    <2> QED BY <2>1, KeptByOthers
  <1>4. CASE Clear
    BY <1>4, KeptByClear
  <1>5. CASE StopPass
    BY <1>5, KeptByOthers DEF StopPass
  <1> QED BY <1>1, <1>2, <1>3, <1>4, <1>5 DEF DNext, Proceed

LEMMA KeptStart == DInit => KeptInv
  <1> SUFFICES ASSUME DInit PROVE KeptInv
    OBVIOUS
  <1>1. /\ clock = 0 /\ DOMAIN rows = {} /\ history = {} /\ attempts = {}
        /\ pass = [p \in Prober |-> Idle]
    BY DEF DInit, Init, NoRows
  <1> QED BY <1>1 DEF KeptInv, Dated, InHand, MeasurementsAreKept, Idle

\* Nothing measured is lost, also when the collector closes every interval
\* while a pass that read them before is under way.
THEOREM NothingIsLostBesideTheCollector ==
    ASSUME OneProber PROVE DSpec => []MeasurementsAreKept
  <1>1. KeptInv => MeasurementsAreKept
    BY DEF KeptInv
  <1>2. KeptInv /\ [DNext]_dvars => KeptInv'
    BY KeptStep
  <1> QED BY <1>1, <1>2, KeptStart, PTL DEF DSpec

-----------------------------------------------------------------------------
(* The page read meanwhile.                                                 *)

\* What a page half read still has to show is in the closed intervals, and
\* stays there unless the retention passes it.
PageInv ==
    /\ page.at \in {"none", "half", "full"}
    /\ page.at = "half" =>
         /\ page.from \in Int
         /\ \A x \in page.left : x[2] \in Nat /\ x[2] >= page.from /\ Archived(x)
    /\ PageCoversAxis

\* No step takes what is archived out of the history early.
LEMMA ArchivedStays ==
    ASSUME KeptInv, KeptInv', [DNext]_dvars, NEW x, x[2] \in Nat, Archived(x)
    PROVE  Archived(x)'
  <1>1. clock \in Nat /\ clock' \in Nat /\ clock <= clock' /\ Retention \in Nat
    <2>1. clock' = clock \/ clock' = clock + 1
      BY DEF DNext, Proceed, ProberNext, TargetsAllowed, Targets, Read, Store, Roll, Stop, Prune,
             Check, Adopt, Clear, Forget, Abandon, StopPass, dvars, vars
    <2> QED BY <2>1, ProbingAssumption DEF KeptInv, Dated
  <1>2. \A iv \in history : iv \in history' \/ iv.until < clock' - Retention
    <2>1. CASE Prune
      <3>1. history' = {iv \in history : iv.until >= clock - Retention} /\ clock' = clock
        BY <2>1 DEF Prune
      <3>2. \A iv \in history : iv.until \in Nat
        BY DEF KeptInv, Dated
      <3> QED BY <1>1, <3>1, <3>2
    <2>2. ASSUME NEW p \in Prober, Store(p) PROVE history \subseteq history'
      BY <2>2, ClosedEffect DEF Store
    <2>3. CASE Clear
      BY <2>3, ClosedEffect DEF Clear
    <2>4. ASSUME NEW p \in Prober, Targets(p) \/ Read(p) \/ Roll(p) \/ Stop(p)
          PROVE  history' = history
      BY <2>4 DEF Targets, Read, Roll, Stop, stored
    <2>5. CASE (\E now \in Record : Check(now)) \/ Adopt \/ Forget \/ Abandon \/ UNCHANGED dvars
      BY <2>5 DEF Check, Adopt, Forget, Abandon, stored, dvars, vars
    <2> QED BY <2>1, <2>2, <2>3, <2>4, <2>5 DEF DNext, Proceed, ProberNext, TargetsAllowed, StopPass
  <1>3. CASE x[2] < clock - Retention
    BY <1>1, <1>3 DEF Archived
  <1>4. ASSUME NEW iv \in history, iv.pair = x[1], x[2] \in Span(iv), Fits(x[3], iv.result)
        PROVE  Archived(x)'
    <2>1. CASE iv \in history'
      BY <1>4, <2>1 DEF Archived, Span
    <2>2. CASE iv.until < clock' - Retention
      <3>1. iv.until \in Nat /\ iv.since \in Nat
        BY DEF KeptInv, Dated
      <3>2. x[2] < clock' - Retention
        BY <1>1, <1>4, <2>2, <3>1 DEF Span
      <3> QED BY <3>2 DEF Archived
    <2> QED BY <1>2, <2>1, <2>2
  <1> QED BY <1>3, <1>4 DEF Archived

LEMMA PageStep ==
    ASSUME OneProber, KeptInv, PageInv, [PNext]_pvars
    PROVE  KeptInv' /\ PageInv'
  <1>1. CASE page.at # "full" /\ page' = page /\ [DNext]_dvars
    <2>1. KeptInv'
      BY <1>1, KeptStep
    <2>2. page.at = "half" => \A x \in page.left : Archived(x)'
      BY <1>1, <2>1, ArchivedStays DEF PageInv
    <2> QED BY <1>1, <2>1, <2>2 DEF PageInv, PageCoversAxis
  <1>2. CASE UNCHANGED pvars
    <2>1. UNCHANGED dvars /\ page' = page
      BY <1>2 DEF pvars
    <2>2. KeptInv'
      BY <2>1, KeptStep
    <2>3. PageInv'
      BY <2>1 DEF PageInv, PageCoversAxis, Archived, dvars, vars, stored
    <2> QED BY <2>2, <2>3
  <1>3. CASE ReadOpen
    <2>1. KeptInv'
      BY <1>3, KeptStep DEF ReadOpen
    <2>2. UNCHANGED <<clock, rows, history, attempts>>
      BY <1>3 DEF ReadOpen, dvars, vars, stored, observers
    <2> DEFINE shown(x) == x[1] \in DOMAIN rows /\ Shows(rows[x[1]], rows[x[1]].since .. clock, x)
               left == {x \in attempts : x[2] >= clock - Window /\ ~shown(x)}
    <2>3. page' = [at |-> "half", from |-> clock - Window, left |-> left]
      BY <1>3 DEF ReadOpen, ProbesFor
    <2>4. clock - Window \in Int
      BY TrackerPageAssumption, ProbingAssumption DEF KeptInv, Dated
    <2>5. ASSUME NEW x \in left
          PROVE  x[2] \in Nat /\ x[2] >= clock - Window /\ Archived(x)
      <3>1. x \in attempts /\ ~shown(x) /\ x[2] >= clock - Window
        OBVIOUS
      <3>2. ~(x[1] \in DOMAIN rows /\ x[2] \in OpenSpan(x[1]) /\ Fits(x[3], rows[x[1]].result))
        BY <3>1 DEF Shows, OpenSpan, Fits
      <3>3. x[2] \in Nat
        BY <3>1 DEF KeptInv, Dated
      <3> QED BY <3>1, <3>2, <3>3 DEF KeptInv, MeasurementsAreKept, Archived
    <2>6. \A x \in left : Archived(x)'
      BY <2>2, <2>5 DEF Archived
    <2> HIDE DEF left
    <2>7. page'.at = "half" /\ page'.from = clock - Window /\ page'.left = left
      BY <2>3
    <2> QED BY <2>1, <2>4, <2>5, <2>6, <2>7 DEF PageInv, PageCoversAxis
  <1>4. CASE ReadClosed
    <2>1. KeptInv'
      BY <1>4, KeptStep DEF ReadClosed
    <2>2. page.at = "half" /\ UNCHANGED <<clock, history>>
      BY <1>4 DEF ReadClosed, dvars, vars, stored
    <2> DEFINE closed == ProbeHistoryFor(page.from)
               shown(x) == \E iv \in closed : iv.pair = x[1] /\ Shows(iv, Span(iv), x)
               left == {x \in page.left : ~shown(x)}
    <2>3. page' = [at |-> "full", left |-> left]
      BY <1>4 DEF ReadClosed
    <2>4. ASSUME NEW x \in left PROVE x[2] < clock - Retention
      <3>1. x \in page.left /\ ~shown(x)
        OBVIOUS
      <3>2. x[2] \in Nat /\ x[2] >= page.from /\ Archived(x) /\ page.from \in Int
        BY <2>2, <3>1 DEF PageInv
      <3>3. ASSUME NEW iv \in history, iv.pair = x[1], x[2] \in Span(iv), Fits(x[3], iv.result)
            PROVE  FALSE
        <4>1. iv.since \in Nat /\ iv.until \in Nat
          BY DEF KeptInv, Dated
        <4>2. iv.until >= page.from
          BY <3>2, <3>3, <4>1 DEF Span
        <4>3. iv \in closed
          BY <4>2 DEF ProbeHistoryFor
        <4>4. Shows(iv, Span(iv), x)
          BY <3>3 DEF Shows, Fits
        <4> QED BY <3>1, <3>3, <4>3, <4>4
      <3> QED BY <3>2, <3>3 DEF Archived
    <2> HIDE DEF left
    <2>5. page'.at = "full" /\ page'.left = left
      BY <2>3
    <2> QED BY <2>1, <2>2, <2>4, <2>5 DEF PageInv, PageCoversAxis
  <1>5. CASE Reply
    <2>1. KeptInv'
      BY <1>5, KeptStep DEF Reply
    <2>2. page'.at = "none"
      BY <1>5 DEF Reply, NoPage
    <2> QED BY <2>1, <2>2 DEF PageInv, PageCoversAxis
  <1> QED BY <1>1, <1>2, <1>3, <1>4, <1>5 DEF PNext

\* Whatever passes, denials and prunings run while a page is read, with one
\* prober every attempt of its window is in an interval the page shows.
THEOREM PageShowsAll == ASSUME OneProber PROVE PSpec => []PageCoversAxis
  <1>1. PInit => KeptInv /\ PageInv
    BY KeptStart DEF PInit, PageInv, PageCoversAxis, NoPage
  <1>2. KeptInv /\ PageInv /\ [PNext]_pvars => KeptInv' /\ PageInv'
    BY PageStep
  <1>3. PageInv => PageCoversAxis
    BY DEF PageInv
  <1> QED BY <1>1, <1>2, <1>3, PTL DEF PSpec

=============================================================================
