------------------------ MODULE AddressHistoryProofs ------------------------
(***************************************************************************)
(* Theorems about AddressHistory, for any addresses, prefixes, families,   *)
(* thresholds and bounds.                                                  *)
(***************************************************************************)
EXTENDS AddressHistory, FiniteSetTheorems, TLAPS

\* What the assumptions say of the thresholds.
LEMMA Thresholds ==
    /\ missThreshold \in Nat \ {0}
    /\ steadyAfter \in Nat \ {0}
    /\ RollAfter \in Int
  BY DiffAssumption DEF missThreshold, steadyAfter

-----------------------------------------------------------------------------
(* The operators of AddressDiff.                                            *)

\* What counting an answer does to each field of the trend.
LEMMA CountedFields ==
    ASSUME NEW t \in Trend, NEW s \in SUBSET Addr
    PROVE  /\ Counted(t, s) \in Trend
           /\ Counted(t, s).fp = s
           /\ Counted(t, s).rolling = t.rolling
           /\ t.fp \in {Unseen, s} =>
                /\ Counted(t, s).steady = Saturated(t.steady, steadyAfter + 1)
                /\ Counted(t, s).churn <= t.churn
                /\ t.churn - 1 <= Counted(t, s).churn
                /\ Counted(t, s).churn < t.churn => t.steady >= steadyAfter
           /\ t.fp \notin {Unseen, s} =>
                /\ Counted(t, s).steady = 0
                /\ Counted(t, s).churn = t.churn + 1
  <1>1. CASE t.fp \in {Unseen, s}
    <2> DEFINE steady == Saturated(t.steady, steadyAfter + 1)
               churn  == IF t.steady >= steadyAfter /\ t.churn > 0
                         THEN t.churn - 1 ELSE t.churn
    <2>1. Counted(t, s) = [t EXCEPT !.fp = s, !.steady = steady, !.churn = churn]
      BY <1>1 DEF Counted
    <2>2. /\ steady \in 0 .. steadyAfter + 1
          /\ churn \in Nat
          /\ churn <= t.churn /\ t.churn - 1 <= churn
          /\ churn < t.churn => t.steady >= steadyAfter
      BY Thresholds DEF Trend, Saturated
    <2>3. s \in SUBSET (Addr \cup {Nowhere})
      OBVIOUS
    <2> HIDE DEF steady, churn
    <2>4. Counted(t, s) = [fp |-> s, churn |-> churn, steady |-> steady,
                           rolling |-> t.rolling]
      BY <2>1 DEF Trend
    <2>5. Counted(t, s) \in Trend
      BY <2>2, <2>3, <2>4 DEF Trend
    <2> QED BY <1>1, <2>2, <2>4, <2>5 DEF steady
  <1>2. CASE t.fp \notin {Unseen, s}
    <2>1. Counted(t, s) = [fp |-> s, churn |-> t.churn + 1, steady |-> 0,
                           rolling |-> t.rolling]
      BY <1>2 DEF Counted, Trend
    <2>2. Counted(t, s) \in Trend
      BY <2>1, Thresholds DEF Trend
    <2> QED BY <1>2, <2>1, <2>2
  <1> QED BY <1>1, <1>2

\* The mode an answer calls for, and when it differs from the present one.
LEMMA DecisionFields ==
    ASSUME NEW t \in Trend, NEW s \in SUBSET Addr
    PROVE  LET c == Counted(t, s)
               n == rollingDecision(t, s)
           IN  /\ n \in Trend
               /\ n.fp = s
               /\ n.steady = c.steady
               /\ n.churn \in {c.churn, 0}
               /\ n.churn # c.churn => t.rolling /\ ~n.rolling
               /\ n.rolling => RollAfter > 0
               /\ ~t.rolling /\ n.rolling => n.churn >= RollAfter
               /\ ~t.rolling /\ ~n.rolling => RollAfter <= 0 \/ n.churn < RollAfter
               /\ t.rolling /\ ~n.rolling =>
                    RollAfter <= 0 \/ (n.steady >= steadyAfter /\ n.churn = 0)
  <1> DEFINE c == Counted(t, s)
  <1>1. c \in Trend /\ c.fp = s /\ c.rolling = t.rolling
    BY CountedFields
  <1>2. CASE RollAfter <= 0
    BY <1>1, <1>2, Thresholds DEF rollingDecision, Trend
  <1>3. CASE RollAfter > 0 /\ ~t.rolling /\ c.churn >= RollAfter
    BY <1>1, <1>3, Thresholds DEF rollingDecision, Trend
  <1>4. CASE RollAfter > 0 /\ t.rolling /\ c.steady >= steadyAfter
    BY <1>1, <1>4, Thresholds DEF rollingDecision, Trend
  <1>5. CASE /\ RollAfter > 0
             /\ ~(~t.rolling /\ c.churn >= RollAfter)
             /\ ~(t.rolling /\ c.steady >= steadyAfter)
    <2>1. rollingDecision(t, s) = c
      BY <1>5, Thresholds DEF rollingDecision
    <2> QED BY <1>1, <1>5, <2>1, Thresholds DEF Trend
  <1> QED BY <1>2, <1>3, <1>4, <1>5, Thresholds

\* What an answer collapses onto are prefixes.
LEMMA PrefixesAreKnown ==
    ASSUME NEW s \in SUBSET Addr, NEW kn \in Index
    PROVE  prefixesOf(s, kn) \subseteq Prefix
  <1>1. \A a \in s : kn[a] \in Prefix \cup {Nowhere}
    BY DEF Index
  <1> QED
    BY <1>1 DEF prefixesOf

\* What an answer is recorded as in the mode it calls for.
Target(t, s, kn) ==
    IF rollingDecision(t, s).rolling THEN prefixesOf(s, kn) ELSE s

\* A target is what the answer names among the keys of its mode.
LEMMA TargetKeys ==
    ASSUME NEW t \in Trend, NEW s \in SUBSET Addr, NEW kn \in Index
    PROVE  /\ Target(t, s, kn) \subseteq KeysIn(rollingDecision(t, s).rolling)
           /\ Target(t, s, kn) =
                (s \cup prefixesOf(s, kn)) \cap KeysIn(rollingDecision(t, s).rolling)
           /\ s \cup prefixesOf(s, kn) \subseteq Key
  BY PrefixesAreKnown, DiffAssumption DEF Target, KeysIn, Key

\* The three things an answer s can do to the records a, their misses m and
\* the trend t of a family: nothing, a switch of mode, an update in the mode.
Effect(t, s, kn, a, m, t2, a2, m2) ==
    LET n    == rollingDecision(t, s)
        tgt  == Target(t, s, kn)
        gone == {k \in a \ tgt : Exhausted(m[k])}
    IN  \/ /\ n.rolling /\ tgt = {}
           /\ t2 = PutBack(n, t)
           /\ a2 = a
           /\ \A k \in Key : m2[k] = IF k \in a THEN m[k] ELSE 0
        \/ /\ n.rolling # t.rolling
           /\ t2 = n
           /\ a2 = tgt
           /\ \A k \in Key : m2[k] = 0
        \/ /\ n.rolling = t.rolling
           /\ t2 = n
           /\ a2 = (a \ gone) \cup tgt
           /\ \A k \in Key : m2[k] = IF k \in a \ (tgt \cup gone) THEN m[k] + 1 ELSE 0

\* What Diff plans, by the mode it decided on.
LEMMA DiffEffect ==
    ASSUME NEW t \in Trend, NEW s \in SUBSET Addr, NEW kn \in Index,
           NEW a \in SUBSET KeysIn(t.rolling), NEW m \in [Key -> Nat]
    PROVE  LET plan == Diff(a, m, t, s, kn)
           IN  Effect(t, s, kn, a, m,
                      plan.trend, ActiveAfter(a, plan), MissesAfter(a, m, plan))
  <1> DEFINE n     == rollingDecision(t, s)
             plan  == Diff(a, m, t, s, kn)
             tgt   == Target(t, s, kn)
             gone  == {k \in a \ tgt : Exhausted(m[k])}
             after == ActiveAfter(a, plan)
             count == MissesAfter(a, m, plan)
  <1>1. /\ tgt \subseteq KeysIn(n.rolling)
        /\ n \in Trend
        /\ KeysIn(TRUE) \cap KeysIn(FALSE) = {}
        /\ KeysIn(TRUE) \subseteq Key /\ KeysIn(FALSE) \subseteq Key
    BY TargetKeys, DecisionFields, DiffAssumption DEF KeysIn, Key
  <1>2. n.rolling \in BOOLEAN /\ t.rolling \in BOOLEAN
    BY <1>1 DEF Trend
  <1>3. CASE n.rolling /\ tgt = {}
    <2>1. plan = Hold(PutBack(n, t))
      BY <1>3 DEF Diff, Target
    <2> QED BY <1>3, <2>1 DEF Hold, ActiveAfter, MissesAfter, Effect
  <1>4. CASE ~(n.rolling /\ tgt = {}) /\ n.rolling # t.rolling
    <2>1. /\ plan.trend = n
          /\ plan.add = tgt \ (a \cap KeysIn(n.rolling))
          /\ plan.refresh = tgt \cap (a \cap KeysIn(n.rolling))
          /\ plan.miss = {} /\ plan.remove = {}
          /\ plan.supersede = a \ KeysIn(n.rolling)
      BY <1>4 DEF Diff, Target, Superseded
    <2>2. a \cap KeysIn(n.rolling) = {}
      <3>1. CASE n.rolling
        BY <1>2, <1>4, <3>1, DiffAssumption DEF KeysIn
      <3>2. CASE ~n.rolling
        BY <1>2, <1>4, <3>2, DiffAssumption DEF KeysIn
      <3> QED BY <3>1, <3>2
    <2>3. plan.add = tgt /\ plan.supersede = a /\ plan.refresh = {}
      BY <2>1, <2>2
    <2> QED BY <1>4, <2>1, <2>3 DEF ActiveAfter, MissesAfter, Effect
  <1>5. CASE ~(n.rolling /\ tgt = {}) /\ n.rolling = t.rolling
    <2>1. /\ plan.trend = n
          /\ plan.add = tgt \ (a \cap KeysIn(n.rolling))
          /\ plan.refresh = tgt \cap (a \cap KeysIn(n.rolling))
          /\ plan.remove = {k \in (a \cap KeysIn(n.rolling)) \ tgt : Exhausted(m[k])}
          /\ plan.miss = ((a \cap KeysIn(n.rolling)) \ tgt) \ plan.remove
          /\ plan.supersede = {}
      BY <1>5 DEF Diff, Target
    <2>2. a \cap KeysIn(n.rolling) = a
      BY <1>5
    <2>3. /\ plan.add = tgt \ a /\ plan.refresh = tgt \cap a
          /\ plan.remove = gone /\ plan.miss = (a \ tgt) \ gone
      BY <2>1, <2>2
    <2>4. after = (a \ gone) \cup tgt
      BY <2>1, <2>3 DEF ActiveAfter
    <2>5. ASSUME NEW k \in Key
          PROVE  count[k] = IF k \in a \ (tgt \cup gone) THEN m[k] + 1 ELSE 0
      <3>1. count[k] = IF k \in tgt THEN 0
                       ELSE IF k \in (a \ tgt) \ gone THEN m[k] + 1
                       ELSE IF k \in (a \ gone) \cup tgt THEN m[k] ELSE 0
        BY <2>3, <2>4 DEF MissesAfter
      <3> QED BY <3>1
    <2> QED BY <1>5, <2>1, <2>4, <2>5 DEF Effect
  <1> QED BY <1>2, <1>3, <1>4, <1>5

-----------------------------------------------------------------------------
(* One pass over one family.                                                *)

\* A saturated counter stays in range.
LEMMA SaturatedType ==
    ASSUME NEW top \in Nat, NEW n \in 0 .. top
    PROVE  /\ Saturated(n, top) \in 0 .. top
           /\ n <= Saturated(n, top)
           /\ Saturated(n, top) = top \/ Saturated(n, top) = n + 1
  BY DEF Saturated

\* What a pass leaves of a family whose query failed.
LEMMA UnansweredEffect ==
    ASSUME TypeOK, NEW obs \in [Family -> Result], Collect(obs),
           NEW f \in Family, ~Resolved(obs[f])
    PROVE  /\ active'[f] = active[f]
           /\ trend'[f] = trend[f]
           /\ absent'[f] = absent[f] /\ settled'[f] = settled[f] /\ moved'[f] = moved[f]
           /\ \A k \in Key : misses'[f][k] = IF k \in active[f] THEN misses[f][k] ELSE 0
  <1>1. PlanFor(f, obs[f]) = Hold(trend[f])
    BY DEF PlanFor
  <1>2. /\ active'[f] = ActiveAfter(active[f], Hold(trend[f]))
        /\ trend'[f] = Hold(trend[f]).trend
        /\ misses'[f] = MissesAfter(active[f], misses[f], Hold(trend[f]))
    BY <1>1 DEF Collect
  <1>3. /\ absent'[f] = [k \in Key |-> absent[f][k]]
        /\ settled'[f] = settled[f] /\ moved'[f] = moved[f]
    BY DEF Collect, Observe
  <1>4. absent'[f] = absent[f]
    BY <1>3 DEF TypeOK
  <1> QED BY <1>2, <1>3, <1>4 DEF Hold, ActiveAfter, MissesAfter

\* What a pass makes of a family whose query was answered.
LEMMA AnsweredEffect ==
    ASSUME TypeOK, OneMode, NEW obs \in [Family -> Result], Collect(obs),
           NEW f \in Family, Resolved(obs[f])
    PROVE  /\ obs[f].addrs \in SUBSET Addr
           /\ \A k \in Key : absent'[f][k] =
                 IF k \in obs[f].addrs \cup prefixesOf(obs[f].addrs, known) THEN 0
                 ELSE Saturated(absent[f][k], missThreshold)
           /\ Effect(trend[f], obs[f].addrs, known, active[f], misses[f],
                     trend'[f], active'[f], misses'[f])
  <1> DEFINE s    == obs[f].addrs
             plan == Diff(active[f], misses[f], trend[f], s, known)
  <1>1. s \in SUBSET Addr
    BY DEF Result
  <1>2. PlanFor(f, obs[f]) = plan
    BY DEF PlanFor
  <1>3. /\ active'[f] = ActiveAfter(active[f], plan)
        /\ trend'[f] = plan.trend
        /\ misses'[f] = MissesAfter(active[f], misses[f], plan)
    BY <1>2 DEF Collect
  <1>4. \A k \in Key : absent'[f][k] =
            IF k \in s \cup prefixesOf(s, known) THEN 0
            ELSE Saturated(absent[f][k], missThreshold)
    BY DEF Collect, Observe, Named
  <1>5. /\ trend[f] \in Trend /\ known \in Index
        /\ active[f] \in SUBSET KeysIn(trend[f].rolling)
        /\ misses[f] \in [Key -> Nat]
    BY DEF TypeOK, OneMode
  <1>6. Effect(trend[f], s, known, active[f], misses[f], plan.trend,
               ActiveAfter(active[f], plan), MissesAfter(active[f], misses[f], plan))
    <2> HIDE DEF s
    <2> QED BY <1>1, <1>5, DiffEffect
  <1> QED BY <1>1, <1>3, <1>4, <1>6

\* The records of a family stay in the mode its trend is in.
LEMMA ModeStep ==
    ASSUME TypeOK, OneMode, NEW obs \in [Family -> Result], Collect(obs),
           NEW f \in Family
    PROVE  /\ active'[f] \subseteq KeysIn(trend'[f].rolling)
           /\ trend'[f] \in Trend
  <1>1. CASE ~Resolved(obs[f])
    BY <1>1, UnansweredEffect DEF OneMode, TypeOK
  <1>2. CASE Resolved(obs[f])
    <2> DEFINE s   == obs[f].addrs
               n   == rollingDecision(trend[f], s)
               tgt == Target(trend[f], s, known)
    <2>1. /\ s \in SUBSET Addr
          /\ Effect(trend[f], s, known, active[f], misses[f],
                    trend'[f], active'[f], misses'[f])
      BY <1>2, AnsweredEffect
    <2>2. /\ trend[f] \in Trend /\ known \in Index
          /\ active[f] \subseteq KeysIn(trend[f].rolling)
      BY DEF TypeOK, OneMode
    <2>3. n \in Trend /\ tgt \subseteq KeysIn(n.rolling)
      BY <2>1, <2>2, DecisionFields, TargetKeys
    <2>4. PutBack(n, trend[f]) \in Trend /\ PutBack(n, trend[f]).rolling = trend[f].rolling
      BY <2>2, <2>3 DEF PutBack, Trend
    <2> HIDE DEF n, tgt, s
    <2> QED BY <2>1, <2>2, <2>3, <2>4 DEF Effect, n, tgt
  <1> QED BY <1>1, <1>2

\* A family that waits and stops waiting without rolling gave the answer it
\* gave before, for more than steadyAfter runs, and waited by one change.
LEMMA WaitingEnds ==
    ASSUME NEW t \in Trend, NEW s \in SUBSET Addr, ~t.rolling, RollAfter > 0,
           t.churn >= RollAfter, ~rollingDecision(t, s).rolling
    PROVE  t.fp \in {Unseen, s} /\ t.steady >= steadyAfter /\ t.churn = RollAfter
  <1> DEFINE n == rollingDecision(t, s)
             c == Counted(t, s)
  <1>1. /\ n.churn < RollAfter /\ n.churn = c.churn
        /\ c \in Trend /\ t.churn \in Nat
    BY DecisionFields, CountedFields, Thresholds DEF Trend
  <1>2. /\ t.fp \notin {Unseen, s} => c.churn = t.churn + 1
        /\ t.fp \in {Unseen, s} => /\ t.churn - 1 <= c.churn
                                   /\ c.churn < t.churn => t.steady >= steadyAfter
    BY CountedFields
  <1>3. c.churn \in Nat
    BY <1>1 DEF Trend
  <1> HIDE DEF n, c
  <1> QED BY <1>1, <1>2, <1>3, Thresholds

\* In a family that keeps its mode, a record the answer does not name has
\* been absent from one more answer than it has misses, or from as many as
\* patience calls for: also when it waited for a prefix until now.
LEMMA EarnedAbsence ==
    ASSUME TypeOK, OneMode, MissesAreEarned,
           NEW obs \in [Family -> Result], Collect(obs),
           NEW f \in Family, Resolved(obs[f]),
           rollingDecision(trend[f], obs[f].addrs).rolling = trend[f].rolling,
           NEW k \in active[f] \ Target(trend[f], obs[f].addrs, known)
    PROVE  \/ absent'[f][k] = missThreshold
           \/ misses[f][k] + 1 <= absent'[f][k]
           \/ absent'[f][k] >= steadyAfter + 3
  <1> DEFINE s   == obs[f].addrs
             n   == rollingDecision(trend[f], s)
             tgt == Target(trend[f], s, known)
  <1>1. /\ trend[f] \in Trend /\ known \in Index
        /\ active[f] \subseteq KeysIn(trend[f].rolling) /\ k \in Key
        /\ misses[f][k] \in Nat
        /\ absent[f][k] \in 0 .. missThreshold
    BY DEF TypeOK, OneMode
  <1>2. /\ s \in SUBSET Addr
        /\ absent'[f][k] = IF k \in s \cup prefixesOf(s, known) THEN 0
                           ELSE Saturated(absent[f][k], missThreshold)
    BY <1>1, AnsweredEffect
  <1>3. k \notin s \cup prefixesOf(s, known)
    BY <1>1, <1>2, TargetKeys
  <1>4. absent'[f][k] = missThreshold \/ absent'[f][k] = absent[f][k] + 1
    BY <1>1, <1>2, <1>3, SaturatedType, Thresholds
  <1>5. CASE misses[f][k] <= absent[f][k] \/ absent[f][k] >= steadyAfter + 3
    BY <1>1, <1>4, <1>5, Thresholds
  <1>6. CASE HeldBack(f, k)
    <2>1. ~trend[f].rolling /\ RollAfter > 0 /\ trend[f].churn >= RollAfter
      BY <1>6 DEF HeldBack, Waiting
    <2>2. trend[f].fp \in {Unseen, s} /\ trend[f].churn = RollAfter
      BY <1>1, <1>2, <2>1, WaitingEnds
    <2>3. k \notin trend[f].fp
      BY <1>1, <1>3, <2>1, <2>2, DiffAssumption DEF KeysIn, Unseen
    <2>4. absent[f][k] >= steadyAfter + 2
      BY <1>6, <2>2, <2>3, Thresholds DEF HeldBack
    <2> QED BY <1>1, <1>4, <2>4, Thresholds
  <1> QED BY <1>5, <1>6 DEF MissesAreEarned

\* A family that goes on waiting for a prefix holds back what its records
\* have, or lets them earn it.
LEMMA HeldBackStep ==
    ASSUME TypeOK, OneMode, MissesAreEarned,
           NEW obs \in [Family -> Result], Collect(obs),
           NEW f \in Family, Resolved(obs[f]), NEW k \in active[f],
           ~trend[f].rolling,
           rollingDecision(trend[f], obs[f].addrs).rolling,
           trend'[f] = PutBack(rollingDecision(trend[f], obs[f].addrs), trend[f])
    PROVE  \/ misses[f][k] <= absent'[f][k]
           \/ absent'[f][k] >= steadyAfter + 3
           \/ HeldBack(f, k)'
  <1> DEFINE s == obs[f].addrs
             t == trend[f]
             n == rollingDecision(t, s)
             c == Counted(t, s)
  <1>1. /\ t \in Trend /\ known \in Index
        /\ k \in Addr /\ k \in Key
        /\ misses[f][k] \in Nat /\ misses[f][k] < missThreshold
        /\ absent[f][k] \in 0 .. missThreshold
    BY DEF TypeOK, OneMode, KeysIn, MissesAreEarned
  <1>2. /\ s \in SUBSET Addr
        /\ absent'[f][k] = IF k \in s \cup prefixesOf(s, known) THEN 0
                           ELSE Saturated(absent[f][k], missThreshold)
    BY <1>1, AnsweredEffect
  <1>3. /\ n \in Trend /\ c \in Trend /\ RollAfter > 0
        /\ n.fp = s /\ n.steady = c.steady /\ n.churn = c.churn /\ n.churn >= RollAfter
    BY <1>1, <1>2, DecisionFields, CountedFields
  <1>4. /\ trend'[f].fp = s /\ trend'[f].steady = c.steady /\ trend'[f].churn = c.churn
        /\ ~trend'[f].rolling
    BY <1>3 DEF PutBack, Trend
  <1>5. Waiting(f)'
    BY <1>3, <1>4 DEF Waiting
  <1>6. CASE k \in s
    BY <1>4, <1>5, <1>6 DEF HeldBack
  <1>7. CASE k \notin s
    <2>1. k \notin s \cup prefixesOf(s, known)
      BY <1>1, <1>2, <1>7, PrefixesAreKnown, DiffAssumption
    <2>2. absent'[f][k] = missThreshold \/ absent'[f][k] = absent[f][k] + 1
      BY <1>1, <1>2, <2>1, SaturatedType, Thresholds
    <2>3. CASE absent'[f][k] = missThreshold
      BY <1>1, <2>3, Thresholds
    <2>4. CASE /\ absent'[f][k] = absent[f][k] + 1
               /\ misses[f][k] <= absent[f][k] \/ absent[f][k] >= steadyAfter + 3
      BY <1>1, <2>4, Thresholds
    <2>5. CASE absent'[f][k] = absent[f][k] + 1 /\ HeldBack(f, k)
      <3>1. t.churn \in Nat /\ t.steady \in Nat /\ c.churn \in Nat /\ t.churn >= RollAfter
        BY <1>1, <1>3, <2>5 DEF Trend, HeldBack, Waiting
      <3>2. CASE t.fp \notin {Unseen, s}
        <4>1. c.steady = 0 /\ c.churn = t.churn + 1
          BY <1>1, <1>2, <3>2, CountedFields
        <4>2. trend'[f].steady < absent'[f][k] /\ trend'[f].churn > RollAfter
          BY <1>1, <1>4, <2>5, <3>1, <4>1, Thresholds
        <4> QED BY <1>5, <4>2 DEF HeldBack
      <3>3. CASE t.fp \in {Unseen, s}
        <4>1. k \notin t.fp
          BY <1>1, <1>7, <3>3, DiffAssumption DEF Unseen
        <4>2. /\ t.steady < absent[f][k]
              /\ t.churn > RollAfter \/ absent[f][k] >= steadyAfter + 2
          BY <2>5, <4>1 DEF HeldBack
        <4>3. /\ c.steady = Saturated(t.steady, steadyAfter + 1)
              /\ t.churn - 1 <= c.churn /\ c.churn <= t.churn
              /\ c.churn < t.churn => t.steady >= steadyAfter
          BY <1>1, <1>2, <3>3, CountedFields
        <4>4. c.steady < absent'[f][k]
          <5> HIDE DEF c, t
          <5> QED BY <1>1, <2>5, <3>1, <4>2, <4>3, Thresholds DEF Saturated
        <4>5. c.churn > RollAfter \/ absent'[f][k] >= steadyAfter + 2
          <5> HIDE DEF c, t
          <5> QED BY <1>1, <2>5, <3>1, <4>2, <4>3, Thresholds
        <4> QED BY <1>4, <1>5, <4>4, <4>5 DEF HeldBack
      <3> QED BY <3>2, <3>3
    <2> QED BY <2>2, <2>3, <2>4, <2>5 DEF MissesAreEarned
  <1> QED BY <1>6, <1>7

\* Every open record keeps fewer misses than the threshold, each one earned.
LEMMA MissesStep ==
    ASSUME TypeOK, OneMode, MissesAreEarned,
           NEW obs \in [Family -> Result], Collect(obs),
           NEW f \in Family, NEW k \in active'[f]
    PROVE  /\ misses'[f][k] \in Nat
           /\ misses'[f][k] < missThreshold
           /\ \/ misses'[f][k] <= absent'[f][k]
              \/ absent'[f][k] >= steadyAfter + 3
              \/ HeldBack(f, k)'
  <1> DEFINE s    == obs[f].addrs
             n    == rollingDecision(trend[f], s)
             tgt  == Target(trend[f], s, known)
  <1>1. /\ trend[f] \in Trend /\ known \in Index
        /\ active[f] \subseteq KeysIn(trend[f].rolling) /\ active[f] \subseteq Key
        /\ misses[f] \in [Key -> Nat]
        /\ absent[f] \in [Key -> 0 .. missThreshold]
    BY DEF TypeOK, OneMode
  <1>2. k \in Key
    BY ModeStep, DiffAssumption DEF KeysIn, Key
  <1>3. k \in active[f] =>
          /\ misses[f][k] \in Nat /\ misses[f][k] < missThreshold
          /\ \/ misses[f][k] <= absent[f][k]
             \/ absent[f][k] >= steadyAfter + 3
             \/ HeldBack(f, k)
    BY <1>1, <1>2 DEF MissesAreEarned
  <1>4. absent[f][k] \in 0 .. missThreshold
    BY <1>1, <1>2
  <1>5. CASE ~Resolved(obs[f])
    <2>1. /\ k \in active[f] /\ misses'[f][k] = misses[f][k]
          /\ absent'[f][k] = absent[f][k] /\ trend'[f] = trend[f]
      BY <1>2, <1>5, UnansweredEffect
    <2> QED BY <1>3, <2>1 DEF HeldBack, Waiting
  <1>6. CASE Resolved(obs[f])
    <2>1. /\ s \in SUBSET Addr
          /\ absent'[f][k] = IF k \in s \cup prefixesOf(s, known) THEN 0
                             ELSE Saturated(absent[f][k], missThreshold)
          /\ Effect(trend[f], s, known, active[f], misses[f],
                    trend'[f], active'[f], misses'[f])
      BY <1>2, <1>6, AnsweredEffect
    <2>2. absent'[f][k] \in 0 .. missThreshold
      BY <1>4, <2>1, SaturatedType, Thresholds
    <2>3. CASE /\ n.rolling /\ tgt = {} /\ trend'[f] = PutBack(n, trend[f])
               /\ active'[f] = active[f]
               /\ misses'[f][k] = misses[f][k]
      <3>1. CASE trend[f].rolling
        <4>1. k \notin s \cup prefixesOf(s, known)
          BY <1>1, <2>1, <2>3, <3>1, PrefixesAreKnown, DiffAssumption DEF KeysIn, Target, TypeOK
        <4>2. absent[f][k] <= absent'[f][k]
          BY <1>4, <2>1, <4>1, SaturatedType, Thresholds
        <4>3. ~HeldBack(f, k)
          BY <3>1 DEF HeldBack, Waiting
        <4> QED BY <1>3, <1>4, <2>2, <2>3, <4>2, <4>3, Thresholds
      <3>2. CASE ~trend[f].rolling
        <4>1. \/ misses[f][k] <= absent'[f][k]
              \/ absent'[f][k] >= steadyAfter + 3
              \/ HeldBack(f, k)'
          BY <1>6, <2>3, <3>2, HeldBackStep
        <4> QED BY <1>3, <2>3, <4>1
      <3> QED BY <3>1, <3>2
    <2>4. CASE misses'[f][k] = 0
      BY <2>2, <2>4, Thresholds
    <2>5. CASE /\ n.rolling = trend[f].rolling /\ trend'[f] = n
               /\ k \in active[f] /\ k \notin tgt /\ ~Exhausted(misses[f][k])
               /\ misses'[f][k] = misses[f][k] + 1
      <3>1. misses'[f][k] < missThreshold
        BY <1>3, <2>5, Thresholds DEF Exhausted
      <3>2. \/ absent'[f][k] = missThreshold \/ misses[f][k] + 1 <= absent'[f][k]
            \/ absent'[f][k] >= steadyAfter + 3
        BY <1>6, <2>5, EarnedAbsence
      <3> QED BY <1>3, <2>2, <2>5, <3>1, <3>2, Thresholds
    <2>6. \/ /\ n.rolling /\ tgt = {} /\ trend'[f] = PutBack(n, trend[f])
             /\ active'[f] = active[f] /\ misses'[f][k] = misses[f][k]
          \/ misses'[f][k] = 0
          \/ /\ n.rolling = trend[f].rolling /\ trend'[f] = n
             /\ k \in active[f] /\ k \notin tgt /\ ~Exhausted(misses[f][k])
             /\ misses'[f][k] = misses[f][k] + 1
      BY <1>2, <2>1 DEF Effect
    <2> QED BY <2>3, <2>4, <2>5, <2>6
  <1> QED BY <1>5, <1>6

\* The status of a pass is one the resolver came back with for a family.
LEMMA StatusType ==
    ASSUME NEW obs \in [Family -> Result]
    PROVE  Status(obs) \in Outcome
  <1> DEFINE said == {i \in DOMAIN Ranking :
                        \E f \in Family : obs[f].status = Ranking[i]}
  <1>1. /\ DOMAIN Ranking = 1 .. 6
        /\ \A f \in Family : obs[f].status \in Outcome
        /\ \A o \in Outcome : \E i \in 1 .. 6 : Ranking[i] = o
    BY HistoryAssumption DEF Result, Ranking
  <1>2. said \subseteq 1 .. 6 /\ said # {}
    <2>1. PICK f \in Family : obs[f].status \in Outcome
      BY <1>1, HistoryAssumption
    <2>2. PICK i \in 1 .. 6 : Ranking[i] = obs[f].status
      BY <1>1, <2>1
    <2>3. i \in said
      BY <1>1, <2>2
    <2> QED BY <1>1, <2>3
  <1>3. \E i \in said : \A j \in said : i <= j
    <2> HIDE DEF said
    <2> DEFINE Least(i) == i \in said /\ \A j \in said : i <= j
    <2>1. 1 \in said => Least(1)
      BY <1>2
    <2>2. 1 \notin said /\ 2 \in said => Least(2)
      BY <1>2
    <2>3. 1 \notin said /\ 2 \notin said /\ 3 \in said => Least(3)
      BY <1>2
    <2>4. (\A j \in 1 .. 3 : j \notin said) /\ 4 \in said => Least(4)
      BY <1>2
    <2>5. (\A j \in 1 .. 4 : j \notin said) /\ 5 \in said => Least(5)
      BY <1>2
    <2>6. ASSUME \A j \in 1 .. 5 : j \notin said
          PROVE  Least(6)
      <3>1. ASSUME NEW j \in said
            PROVE  j = 6
        <4>1. j \in 1 .. 6 /\ j \notin 1 .. 5
          BY <1>2, <2>6
        <4> QED BY <4>1
      <3>2. PICK i \in said : TRUE
        BY <1>2
      <3>3. 6 \in said
        BY <3>1, <3>2
      <3> QED BY <3>1, <3>3
    <2>7. \E i \in 1 .. 6 : Least(i)
      <3> HIDE DEF Least
      <3> QED BY <2>1, <2>2, <2>3, <2>4, <2>5, <2>6
    <2> QED BY <2>7
  <1>4. (CHOOSE i \in said : \A j \in said : i <= j) \in said
    <2> HIDE DEF said
    <2> QED BY <1>3
  <1>5. \A i \in said : Ranking[i] \in Outcome
    BY <1>1
  <1> QED BY <1>4, <1>5 DEF Status

\* A pass keeps every variable in its type.
LEMMA TypeStep ==
    ASSUME TypeOK, OneMode, MissesAreEarned,
           NEW obs \in [Family -> Result], Collect(obs)
    PROVE  TypeOK'
  <1>1. active' \in [Family -> SUBSET Key]
    <2>1. \A f \in Family : active'[f] \subseteq Key
      BY ModeStep DEF KeysIn, Key
    <2> QED BY <2>1 DEF Collect
  <1>2. misses' \in [Family -> [Key -> Nat]]
    <2>1. ASSUME NEW f \in Family, NEW k \in Key
          PROVE  misses'[f][k] \in Nat
      <3>1. misses[f][k] \in Nat
        BY DEF TypeOK
      <3>2. CASE ~Resolved(obs[f])
        BY <3>1, <3>2, UnansweredEffect
      <3>3. CASE Resolved(obs[f])
        <4>1. Effect(trend[f], obs[f].addrs, known, active[f], misses[f],
                     trend'[f], active'[f], misses'[f])
          BY <3>3, AnsweredEffect
        <4> QED BY <3>1, <4>1 DEF Effect
      <3> QED BY <3>2, <3>3
    <2>2. \A f \in Family : misses'[f] = [k \in Key |-> misses'[f][k]]
      BY DEF Collect, MissesAfter
    <2> QED BY <2>1, <2>2 DEF Collect
  <1>3. trend' \in [Family -> Trend]
    BY ModeStep DEF Collect
  <1>4. known' \in Index
    BY DEF Collect, TypeOK
  <1>5. lastStatus' \in Outcome
    BY StatusType DEF Collect
  <1>6. resolveFails' \in 0 .. MaxFails /\ failing' \in BOOLEAN
    BY HistoryAssumption DEF Collect, StreakAfter, Saturated, TypeOK
  <1>7. absent' \in [Family -> [Key -> 0 .. missThreshold]]
    <2>1. ASSUME NEW f \in Family, NEW k \in Key
          PROVE  /\ Saturated(absent[f][k], missThreshold) \in 0 .. missThreshold
                 /\ absent[f][k] \in 0 .. missThreshold
      BY SaturatedType, Thresholds DEF TypeOK
    <2> QED BY <2>1, Thresholds DEF Collect, Observe
  <1>8. settled' \in [Family -> 0 .. steadyAfter]
    <2>1. ASSUME NEW f \in Family
          PROVE  /\ Saturated(settled[f], steadyAfter) \in 0 .. steadyAfter
                 /\ settled[f] \in 0 .. steadyAfter
      BY SaturatedType, Thresholds DEF TypeOK
    <2> QED BY <2>1, Thresholds DEF Collect, Observe
  <1>9. moved' \in [Family -> Nat]
    <2>1. ASSUME NEW f \in Family
          PROVE  Saturated(moved[f], RollAfter) \in Nat /\ moved[f] \in Nat
      BY Thresholds DEF TypeOK, Saturated
    <2> QED BY <2>1 DEF Collect, Observe
  <1> QED BY <1>1, <1>2, <1>3, <1>4, <1>5, <1>6, <1>7, <1>8, <1>9 DEF TypeOK

\* A pass leaves the two columns of the failing streak in agreement.
LEMMA StreakStep ==
    ASSUME TypeOK, NEW obs \in [Family -> Result], Collect(obs)
    PROVE  FailingStreak'
  <1>1. /\ lastStatus' = Status(obs) /\ Status(obs) \in Outcome
        /\ resolveFails' = StreakAfter(Status(obs))
        /\ failing' = (Status(obs) # "ok")
    BY StatusType DEF Collect
  <1>2. lastStatus' # "unchecked"
    BY <1>1, HistoryAssumption
  <1>3. CASE lastStatus' = "ok"
    BY <1>1, <1>3 DEF StreakAfter, FailingStreak
  <1>4. CASE lastStatus' # "ok"
    <2>1. resolveFails' > 0
      BY <1>1, <1>4, HistoryAssumption DEF StreakAfter, Saturated, TypeOK
    <2>2. failing' = TRUE /\ (lastStatus' \notin {"ok", "unchecked"}) = TRUE
      BY <1>1, <1>2, <1>4
    <2> QED BY <2>1, <2>2 DEF FailingStreak
  <1> QED BY <1>3, <1>4

-----------------------------------------------------------------------------
(* The invariant.                                                           *)

\* The invariant holds of a name just added.
LEMMA InitInv == Init => HistoryInv
  <1> SUFFICES ASSUME Init PROVE HistoryInv
    OBVIOUS
  <1>1. NewTrend \in Trend
    BY Thresholds DEF NewTrend, Trend, Unseen
  <1>2. TypeOK
    <2>1. active \in [Family -> SUBSET Key] /\ misses \in [Family -> [Key -> Nat]]
      <3>1. \A f \in Family : {} \in SUBSET Key /\ [k \in Key |-> 0] \in [Key -> Nat]
        OBVIOUS
      <3> QED BY <3>1 DEF Init
    <2>2. trend \in [Family -> Trend] /\ known \in Index
      BY <1>1 DEF Init, Index
    <2>3. /\ lastStatus \in Outcome \cup {"unchecked"}
          /\ resolveFails \in 0 .. MaxFails /\ failing \in BOOLEAN
      <3>1. MaxFails \in Nat
        BY HistoryAssumption
      <3>2. lastStatus = "unchecked" /\ resolveFails = 0 /\ failing = FALSE
        BY DEF Init
      <3>3. resolveFails \in 0 .. MaxFails
        BY <3>1, <3>2
      <3> QED BY <3>2, <3>3
    <2>4. /\ absent \in [Family -> [Key -> 0 .. missThreshold]]
          /\ settled \in [Family -> 0 .. steadyAfter]
          /\ moved \in [Family -> Nat]
      BY Thresholds DEF Init
    <2> QED BY <2>1, <2>2, <2>3, <2>4 DEF TypeOK
  <1>3. OneMode /\ MissesAreEarned
    BY DEF Init, OneMode, MissesAreEarned
  <1>5. FailingStreak
    <2>1. /\ failing = FALSE /\ lastStatus \in {"ok", "unchecked"}
          /\ resolveFails = 0
      BY DEF Init
    <2>2. (resolveFails > 0) = FALSE
      BY <2>1
    <2>3. (lastStatus \notin {"ok", "unchecked"}) = FALSE
      BY <2>1
    <2> QED BY <2>1, <2>2, <2>3 DEF FailingStreak
  <1> QED BY <1>2, <1>3, <1>5 DEF HistoryInv

\* Every pass keeps it.
LEMMA StepInv == HistoryInv /\ [Next]_vars => HistoryInv'
  <1> SUFFICES ASSUME HistoryInv, [Next]_vars PROVE HistoryInv'
    OBVIOUS
  <1> USE DEF HistoryInv
  <1>1. CASE \E obs \in [Family -> Result] : Collect(obs)
    <2>1. PICK obs \in [Family -> Result] : Collect(obs)
      BY <1>1
    <2>2. TypeOK'
      BY <2>1, TypeStep
    <2>3. OneMode'
      BY <2>1, ModeStep DEF OneMode
    <2>4. MissesAreEarned'
      BY <2>1, MissesStep DEF MissesAreEarned, HeldBack, Waiting
    <2>5. FailingStreak'
      BY <2>1, StreakStep
    <2> QED BY <2>2, <2>3, <2>4, <2>5
  <1>2. CASE Enrich
    BY <1>2 DEF Enrich, store, observers, TypeOK, OneMode, MissesAreEarned,
                HeldBack, Waiting, FailingStreak
  <1>3. CASE UNCHANGED vars
    BY <1>3 DEF vars, store, observers, TypeOK, OneMode, MissesAreEarned,
                HeldBack, Waiting, FailingStreak
  <1> QED BY <1>1, <1>2, <1>3 DEF Next

\* The invariant of the address history: every family is recorded in one
\* mode, no record is charged with a miss it did not earn, and the columns
\* that backoff and retirement read agree on the failing streak.
THEOREM HistoryInvariant == Spec => []HistoryInv
  <1>1. Init => HistoryInv
    BY InitInv
  <1>2. HistoryInv /\ [Next]_vars => HistoryInv'
    BY StepInv
  <1> QED BY <1>1, <1>2, PTL DEF Spec

\* A rolling family holds prefix records only, any other family addresses
\* only, after any sequence of answers and whatever enrichment knew.
THEOREM OneModeAlways == Spec => []OneMode
  <1>1. HistoryInv => OneMode
    BY DEF HistoryInv
  <1> QED BY <1>1, HistoryInvariant, PTL

\* Every state along a behaviour is well typed.
THEOREM TypeAlways == Spec => []TypeOK
  <1>1. HistoryInv => TypeOK
    BY DEF HistoryInv
  <1> QED BY <1>1, HistoryInvariant, PTL

-----------------------------------------------------------------------------
(* What a pass may do to the records.                                       *)

LEMMA PatientStep ==
    ASSUME HistoryInv, NEW obs \in [Family -> Result], Collect(obs),
           NEW f \in Family, trend'[f].rolling = trend[f].rolling,
           NEW k \in active[f] \ active'[f]
    PROVE  absent'[f][k] >= Patience
  <1> USE DEF HistoryInv
  <1> DEFINE s   == obs[f].addrs
             n   == rollingDecision(trend[f], s)
             tgt == Target(trend[f], s, known)
  <1>1. Resolved(obs[f])
    BY UnansweredEffect
  <1>2. Effect(trend[f], s, known, active[f], misses[f],
               trend'[f], active'[f], misses'[f])
    BY <1>1, AnsweredEffect
  <1>3. n.rolling = trend[f].rolling /\ k \notin tgt /\ Exhausted(misses[f][k])
    BY <1>2 DEF Effect
  <1>4. \/ absent'[f][k] = missThreshold
        \/ misses[f][k] + 1 <= absent'[f][k]
        \/ absent'[f][k] >= steadyAfter + 3
    BY <1>1, <1>3, EarnedAbsence
  <1>5. k \in Key /\ misses[f][k] \in Nat
    BY DEF TypeOK
  <1>6. absent'[f][k] \in 0 .. missThreshold
    BY <1>5, TypeStep DEF TypeOK
  <1> QED BY <1>3, <1>4, <1>5, <1>6, Thresholds DEF Exhausted, Patience

\* No record is retired early, whatever the thresholds: one that leaves without
\* a switch of mode has been missing from Patience trusted answers in a row.
THEOREM RemovalIsPatient == Spec => PatientRemoval
  <1>1. ASSUME HistoryInv, [Next]_vars, UNCHANGED vars \/ Enrich,
               NEW f \in Family
        PROVE  active'[f] = active[f]
    BY <1>1 DEF Enrich, vars, store
  <1>2. ASSUME HistoryInv, [Next]_vars
        PROVE  [\A f \in Family :
                 trend'[f].rolling = trend[f].rolling =>
                    \A k \in active[f] \ active'[f] : absent'[f][k] >= Patience]_vars
    <2>1. CASE UNCHANGED vars \/ Enrich
      BY <1>1, <1>2, <2>1
    <2>2. CASE \E obs \in [Family -> Result] : Collect(obs)
      BY <1>2, <2>2, PatientStep
    <2> QED BY <1>2, <2>1, <2>2 DEF Next
  <1> QED BY <1>2, HistoryInvariant, PTL DEF Spec, PatientRemoval

-----------------------------------------------------------------------------
(* The history implements its contract.                                     *)

\* What the contract counts of an answer is what the observer counted, up to
\* where patience runs out.
LEMMA CountsUnnamed ==
    ASSUME HistoryInv, NEW obs \in [Family -> Result], Collect(obs),
           NEW f \in Family, Resolved(obs[f])
    PROVE  [k \in Key |-> IF absent'[f][k] < Patience THEN absent'[f][k] ELSE Patience] =
             Contract!Unnamed(f, obs[f].addrs \cup prefixesOf(obs[f].addrs, known))
  <1> DEFINE named == obs[f].addrs \cup prefixesOf(obs[f].addrs, known)
             upTo(n) == IF n < Patience THEN n ELSE Patience
  <1>1. \A k \in Key : absent'[f][k] =
                 IF k \in named THEN 0 ELSE Saturated(absent[f][k], missThreshold)
    BY AnsweredEffect DEF HistoryInv
  <1>2. Patience \in Nat \ {0} /\ Patience <= missThreshold /\ missThreshold \in Nat
    BY Thresholds DEF Patience
  <1>3. ASSUME NEW k \in Key
        PROVE  upTo(absent'[f][k]) =
                 IF k \in named THEN 0
                 ELSE IF upTo(absent[f][k]) < Patience THEN upTo(absent[f][k]) + 1
                 ELSE upTo(absent[f][k])
    <2>1. absent[f][k] \in 0 .. missThreshold
      BY DEF HistoryInv, TypeOK
    <2> HIDE DEF named
    <2> QED BY <1>1, <1>2, <2>1 DEF Saturated
  <1>4. \A k \in Key :
          [g \in Family |-> [j \in Key |-> upTo(absent[g][j])]][f][k] = upTo(absent[f][k])
    OBVIOUS
  <1> HIDE DEF named
  <1> QED
    BY <1>3, <1>4 DEF Contract!Unnamed, Key, named

LEMMA ContractFamilyStep ==
    ASSUME HistoryInv, NEW obs \in [Family -> Result], Collect(obs), NEW f \in Family
    PROVE  Contract!FamilyStep(f)
  <1> DEFINE s     == obs[f].addrs
             n     == rollingDecision(trend[f], s)
             tgt   == Target(trend[f], s, known)
             count(g) == [k \in Key |->
                            IF absent[g][k] < Patience THEN absent[g][k] ELSE Patience]
  <1>0. /\ [g \in Family |-> trend[g].rolling][f] = trend[f].rolling
        /\ [g \in Family |-> trend'[g].rolling][f] = trend'[f].rolling
        /\ [g \in Family |-> count(g)][f] = count(f)
        /\ [g \in Family |-> count(g)'][f] = count(f)'
    OBVIOUS
  <1>1. CASE ~Resolved(obs[f])
    <2>1. active'[f] = active[f] /\ trend'[f] = trend[f] /\ absent'[f] = absent[f]
      BY <1>1, UnansweredEffect DEF HistoryInv
    <2>2. Contract!Untouched(f)
      BY <1>0, <2>1 DEF Contract!Untouched
    <2> QED
      BY <2>2 DEF Contract!FamilyStep
  <1>2. CASE Resolved(obs[f])
    <2>1. /\ s \in SUBSET Addr
          /\ Effect(trend[f], s, known, active[f], misses[f],
                    trend'[f], active'[f], misses'[f])
      BY <1>2, AnsweredEffect DEF HistoryInv
    <2>2. trend[f] \in Trend /\ known \in Index
      BY DEF HistoryInv, TypeOK
    <2>3. PICK named \in SUBSET (Addr \cup Prefix) : named = s \cup prefixesOf(s, known)
      BY <2>1, <2>2, TargetKeys DEF Key
    <2>4. count(f)' = Contract!Unnamed(f, named)
      BY <1>2, <2>3, CountsUnnamed
    <2>5. tgt = named \cap KeysIn(n.rolling)
      BY <2>1, <2>2, <2>3, TargetKeys
    <2>6. \A mode : Contract!Recorded(mode) = KeysIn(mode)
      BY DEF Contract!Recorded, KeysIn
    <2>7. CASE trend'[f] = PutBack(n, trend[f]) /\ active'[f] = active[f]
      <3>1. trend'[f].rolling = trend[f].rolling
        BY <2>7 DEF PutBack
      <3>2. Contract!Held(f, named)
        BY <1>0, <2>4, <2>7, <3>1 DEF Contract!Held
      <3> QED
        BY <3>2 DEF Contract!FamilyStep
    <2>8. CASE n.rolling # trend[f].rolling /\ trend'[f] = n /\ active'[f] = tgt
      <3>1. trend'[f].rolling = ~trend[f].rolling
        BY <2>2, <2>8, <2>1, DecisionFields DEF Trend
      <3>2. active'[f] = named \cap Contract!Recorded(trend'[f].rolling)
        BY <2>5, <2>6, <2>8
      <3>3. Contract!Switched(f, named)
        BY <1>0, <2>4, <3>1, <3>2 DEF Contract!Switched
      <3> QED
        BY <3>3 DEF Contract!FamilyStep
    <2>9. CASE /\ n.rolling = trend[f].rolling /\ trend'[f] = n
               /\ tgt \subseteq active'[f] /\ active'[f] \subseteq active[f] \cup tgt
      <3>1. trend'[f].rolling = trend[f].rolling
        BY <2>9
      <3>2. tgt = named \cap Contract!Recorded(trend[f].rolling)
        BY <2>5, <2>6, <2>9
      <3>3. \A k \in active[f] \ active'[f] : count(f)'[k] = Patience
        <4>1. active[f] \subseteq Key /\ absent'[f] \in [Key -> 0 .. missThreshold]
          BY TypeStep DEF HistoryInv, TypeOK
        <4>2. Patience \in Int
          BY Thresholds DEF Patience
        <4>3. \A k \in active[f] \ active'[f] : absent'[f][k] >= Patience
          BY <3>1, PatientStep
        <4>4. \A k \in active[f] \ active'[f] : k \in Key /\ ~(absent'[f][k] < Patience)
          BY <4>1, <4>2, <4>3, Thresholds
        <4> QED BY <4>4
      <3>4. Contract!Tracked(f, named)
        BY <1>0, <2>4, <2>9, <3>1, <3>2, <3>3 DEF Contract!Tracked
      <3> QED
        BY <3>4 DEF Contract!FamilyStep
    <2> QED
      BY <2>1, <2>7, <2>8, <2>9 DEF Effect
  <1> QED
    BY <1>1, <1>2

\* Whatever the counters and modes do in between, the history is one that its
\* contract allows, step by step, for any answers and thresholds.
THEOREM HistoryKeepsContract == Spec => KeepsContract
  <1>1. Init => Contract!Init
    <2> SUFFICES ASSUME Init PROVE Contract!Init
      OBVIOUS
    <2>1. [f \in Family |-> trend[f].rolling] = [f \in Family |-> FALSE]
      BY DEF Init, NewTrend
    <2>2. 0 < Patience
      BY Thresholds DEF Patience
    <2>3. \A f \in Family : \A k \in Key : absent[f][k] = 0
      BY DEF Init
    <2>4. [f \in Family |-> [k \in Key |->
                IF absent[f][k] < Patience THEN absent[f][k] ELSE Patience]] =
          [f \in Family |-> [k \in Key |-> 0]]
      BY <2>2, <2>3
    <2> QED
      BY <2>1, <2>4 DEF Init, Contract!Init, Key
  <1>2. HistoryInv /\ [Next]_vars => [Contract!Next]_(Contract!contract)
    <2> SUFFICES ASSUME HistoryInv, [Next]_vars
                 PROVE  [Contract!Next]_(Contract!contract)
      OBVIOUS
    <2>1. ASSUME NEW obs \in [Family -> Result], Collect(obs)
          PROVE  Contract!Next
      <3>1. \A f \in Family : Contract!FamilyStep(f)
        BY <2>1, ContractFamilyStep
      <3>2. DOMAIN active' = Family
        BY <2>1 DEF Collect
      <3> QED
        BY <3>1, <3>2 DEF Contract!Next
    <2>2. CASE Enrich \/ UNCHANGED vars
      <3>1. UNCHANGED <<active, trend, absent>>
        BY <2>2 DEF Enrich, vars, store, observers
      <3> QED
        BY <3>1 DEF Contract!contract
    <2> QED
      BY <2>1, <2>2 DEF Next
  <1> QED
    BY <1>1, <1>2, HistoryInvariant, PTL DEF Spec, KeepsContract, Contract!Spec

-----------------------------------------------------------------------------
(* Settling is slower than rolling.                                         *)

\* While a family does not roll, its churn is no more than the changed answers
\* counted since it last did; what is steady has been answered as often.
ChurnIsEarned(f) ==
    /\ ~trend[f].rolling => trend[f].churn <= moved[f] \/ moved[f] >= RollAfter
    /\ trend[f].rolling => RollAfter > 0
    /\ trend[f].steady <= settled[f] \/ settled[f] = steadyAfter

ChurnInv == HistoryInv /\ \A f \in Family : ChurnIsEarned(f)

\* What the observers count of an answer.
LEMMA AnswersAreCounted ==
    ASSUME HistoryInv, NEW obs \in [Family -> Result], Collect(obs),
           NEW f \in Family, Resolved(obs[f])
    PROVE  LET fresh == trend[f].fp \notin {Unseen, obs[f].addrs}
           IN  /\ settled'[f] = IF fresh THEN 1 ELSE Saturated(settled[f], steadyAfter)
               /\ moved'[f] = IF trend[f].rolling /\ ~trend'[f].rolling THEN 0
                              ELSE IF fresh THEN Saturated(moved[f], RollAfter) ELSE moved[f]
  BY DEF Collect, Observe

\* A pass over one family: what it counted it may go by.
LEMMA ChurnStep ==
    ASSUME HistoryInv, NEW obs \in [Family -> Result], Collect(obs),
           NEW f \in Family, ChurnIsEarned(f)
    PROVE  /\ ChurnIsEarned(f)'
           /\ ~trend[f].rolling /\ trend'[f].rolling => moved'[f] >= RollAfter
           /\ trend[f].rolling /\ ~trend'[f].rolling => settled'[f] = steadyAfter
  <1> DEFINE s == obs[f].addrs
             t == trend[f]
             c == Counted(t, s)
             n == rollingDecision(t, s)
             fresh == t.fp \notin {Unseen, s}
  <1>1. CASE ~Resolved(obs[f])
    BY <1>1, UnansweredEffect DEF HistoryInv, ChurnIsEarned
  <1>2. CASE Resolved(obs[f])
    <2>1. /\ t \in Trend /\ moved[f] \in Nat /\ settled[f] \in 0 .. steadyAfter
          /\ s \in SUBSET Addr
      BY <1>2, AnsweredEffect DEF HistoryInv, TypeOK
    <2>2. \/ trend'[f] = PutBack(n, t) /\ n.rolling
          \/ trend'[f] = n
      BY <1>2, AnsweredEffect DEF HistoryInv, Effect
    <2>3. /\ settled'[f] = IF fresh THEN 1 ELSE Saturated(settled[f], steadyAfter)
          /\ moved'[f] = IF t.rolling /\ ~trend'[f].rolling THEN 0
                         ELSE IF fresh THEN Saturated(moved[f], RollAfter) ELSE moved[f]
      BY <1>2, AnswersAreCounted
    <2>4. /\ c \in Trend /\ n \in Trend /\ n.steady = c.steady
          /\ ~fresh => c.steady = Saturated(t.steady, steadyAfter + 1) /\ c.churn <= t.churn
          /\ fresh => c.steady = 0 /\ c.churn = t.churn + 1
      BY <2>1, CountedFields, DecisionFields
    <2>5. /\ n.churn # c.churn => t.rolling /\ ~n.rolling
          /\ n.rolling => RollAfter > 0
          /\ ~t.rolling /\ n.rolling => n.churn >= RollAfter
          /\ t.rolling /\ ~n.rolling =>
                RollAfter <= 0 \/ (n.steady >= steadyAfter /\ n.churn = 0)
      BY <2>1, DecisionFields
    <2>6. /\ trend'[f].churn = n.churn /\ trend'[f].steady = n.steady
          /\ trend'[f].rolling = n.rolling \/ (trend'[f].rolling = t.rolling /\ n.rolling)
      BY <2>2, <2>4 DEF PutBack, Trend
    <2>7. /\ t.rolling \in BOOLEAN /\ n.rolling \in BOOLEAN /\ t.churn \in Nat /\ t.steady \in Nat
          /\ c.churn \in Nat /\ n.churn \in Nat /\ c.steady \in Nat
          /\ steadyAfter \in Nat \ {0} /\ RollAfter \in Int
      BY <2>1, <2>4, Thresholds DEF Trend
    <2>8. ChurnIsEarned(f)
      OBVIOUS
    <2> HIDE DEF s, t, c, n, fresh
    <2>9. c.steady <= settled'[f] \/ settled'[f] = steadyAfter
      BY <2>1, <2>3, <2>4, <2>7, <2>8 DEF ChurnIsEarned, Saturated, t
    <2>10. ~t.rolling => n.churn <= moved'[f] \/ moved'[f] >= RollAfter
      BY <2>1, <2>3, <2>4, <2>5, <2>7, <2>8 DEF ChurnIsEarned, Saturated, t
    <2>11. t.rolling /\ ~trend'[f].rolling => moved'[f] = 0 /\ n.churn = 0 /\ n.steady >= steadyAfter
      <3> SUFFICES ASSUME t.rolling, ~trend'[f].rolling
                   PROVE  moved'[f] = 0 /\ n.churn = 0 /\ n.steady >= steadyAfter
        OBVIOUS
      <3>1. ~n.rolling
        BY <2>6
      <3>2. RollAfter > 0
        BY <2>8 DEF ChurnIsEarned, t
      <3>3. ~(RollAfter <= 0)
        BY <3>2, <2>7
      <3>4. n.steady >= steadyAfter /\ n.churn = 0
        BY <2>5, <3>1, <3>3
      <3>5. moved'[f] = 0
        BY <2>3
      <3> QED BY <3>4, <3>5
    <2>12. settled'[f] \in 0 .. steadyAfter
      BY <2>1, <2>3, <2>7, SaturatedType
    <2>13. moved'[f] \in Nat
      BY <2>1, <2>3, <2>7 DEF Saturated
    <2>14. ChurnIsEarned(f)'
      BY <2>4, <2>5, <2>6, <2>7, <2>8, <2>9, <2>10, <2>11, <2>13 DEF ChurnIsEarned, t
    <2>15. ~t.rolling /\ trend'[f].rolling => moved'[f] >= RollAfter
      <3> SUFFICES ASSUME ~t.rolling, trend'[f].rolling PROVE moved'[f] >= RollAfter
        OBVIOUS
      <3>1. n.rolling
        BY <2>6
      <3>2. n.churn >= RollAfter
        BY <2>5, <3>1
      <3>3. n.churn <= moved'[f] \/ moved'[f] >= RollAfter
        BY <2>10
      <3> QED BY <2>7, <2>13, <3>2, <3>3
    <2>16. t.rolling /\ ~trend'[f].rolling => settled'[f] = steadyAfter
      BY <2>4, <2>6, <2>7, <2>9, <2>11, <2>12
    <2> QED BY <2>14, <2>15, <2>16 DEF t
  <1> QED BY <1>1, <1>2

\* A family starts to roll only after RollAfter changed answers since it last
\* stopped, and stops only after the same answer came SteadyAfter times in a
\* row, whatever the flags and the answers are.
THEOREM SettlingIsSlower == Spec => Hysteresis
  <1>1. Init => ChurnInv
    <2>1. Init => \A f \in Family : ChurnIsEarned(f)
      BY Thresholds DEF Init, ChurnIsEarned, NewTrend
    <2> QED BY <2>1, InitInv DEF ChurnInv
  <1>2. ASSUME ChurnInv, [Next]_vars
        PROVE  ChurnInv' /\ [\A f \in Family :
                 /\ ~trend[f].rolling /\ trend'[f].rolling => moved'[f] >= RollAfter
                 /\ trend[f].rolling /\ ~trend'[f].rolling => settled'[f] = steadyAfter]_vars
    <2>1. HistoryInv'
      BY <1>2, StepInv DEF ChurnInv
    <2>2. CASE UNCHANGED vars \/ Enrich
      <3>1. trend' = trend /\ moved' = moved /\ settled' = settled
        BY <2>2 DEF Enrich, vars, store, observers
      <3> QED BY <1>2, <2>1, <3>1 DEF ChurnInv, ChurnIsEarned
    <2>3. CASE \E obs \in [Family -> Result] : Collect(obs)
      BY <1>2, <2>1, <2>3, ChurnStep DEF ChurnInv
    <2> QED BY <1>2, <2>2, <2>3 DEF Next
  <1> QED BY <1>1, <1>2, PTL DEF Spec, Hysteresis

-----------------------------------------------------------------------------
(* The feed tells what happened to the history.                             *)

\* What a plan holds says what happens to the records of its family.
LEMMA PlanTells ==
    ASSUME HistoryInv, NEW obs \in [Family -> Result], Collect(obs), NEW f \in Family
    PROVE  LET plan == PlanFor(f, obs[f])
           IN  /\ plan.trend = trend'[f] /\ plan.switched \in BOOLEAN
               /\ plan.switched <=> trend'[f].rolling # trend[f].rolling
               /\ plan.add \subseteq Key /\ plan.remove \subseteq Key
               /\ plan.add \cap plan.remove = {}
               /\ plan.switched => plan.remove = {}
               /\ ~plan.switched => /\ plan.add = active'[f] \ active[f]
                                    /\ plan.remove = active[f] \ active'[f]
  <1> DEFINE plan == PlanFor(f, obs[f])
             s    == obs[f].addrs
             t    == trend[f]
             n    == rollingDecision(t, s)
             a    == active[f]
             tgt  == Target(t, s, known)
  <1>1. plan.trend = trend'[f] /\ active'[f] = ActiveAfter(a, plan)
    BY DEF Collect
  <1>2. /\ t \in Trend /\ known \in Index /\ s \in SUBSET Addr
        /\ a \subseteq KeysIn(t.rolling)
    BY DEF HistoryInv, TypeOK, OneMode, Result
  <1>3. n \in Trend /\ tgt \subseteq KeysIn(n.rolling)
    BY <1>2, DecisionFields, TargetKeys
  <1>4. \A mode \in BOOLEAN : KeysIn(mode) \subseteq Key
    BY DEF KeysIn, Key
  <1>5. t.rolling \in BOOLEAN /\ n.rolling \in BOOLEAN
    BY <1>2, <1>3 DEF Trend
  <1>6. a \subseteq Key /\ tgt \subseteq Key
    BY <1>2, <1>3, <1>4, <1>5
  <1>7. CASE plan = Hold(t) \/ plan = Hold(PutBack(n, t))
    <2>1. /\ plan.add = {} /\ plan.remove = {} /\ plan.supersede = {}
          /\ plan.switched = FALSE /\ plan.trend.rolling = t.rolling
      BY <1>3, <1>7 DEF Hold, PutBack, Trend
    <2> QED BY <1>1, <2>1 DEF ActiveAfter
  <1>8. CASE Resolved(obs[f]) /\ ~(n.rolling /\ tgt = {})
    <2> DEFINE mine == a \cap KeysIn(n.rolling)
               switched == n.rolling # t.rolling
               absents == IF switched THEN {} ELSE mine \ tgt
    <2>1. plan = Diff(a, misses[f], t, s, known)
      BY <1>8 DEF PlanFor
    <2>2. /\ plan.trend = n /\ plan.switched = switched
          /\ plan.add = tgt \ mine
          /\ plan.remove = {k \in absents : Exhausted(misses[f][k])}
          /\ plan.supersede = IF switched THEN Superseded(a, n.rolling) ELSE {}
      BY <1>8, <2>1 DEF Diff, Target
    <2>3. /\ plan.add \subseteq Key /\ plan.remove \subseteq Key
          /\ plan.add \cap plan.remove = {}
          /\ switched => plan.remove = {}
      BY <1>6, <2>2
    <2>4. ~switched => mine = a /\ plan.remove \subseteq a \ tgt /\ plan.supersede = {}
      BY <1>2, <2>2
    <2>5. ~switched => active'[f] = (a \ plan.remove) \cup (tgt \ a)
      BY <1>1, <2>2, <2>4 DEF ActiveAfter
    <2>6. ~switched => /\ plan.add = active'[f] \ a /\ plan.remove = a \ active'[f]
      BY <2>2, <2>4, <2>5
    <2> HIDE DEF plan, n, a, tgt, t, mine, absents
    <2>7. plan.switched \in BOOLEAN /\ (plan.switched <=> trend'[f].rolling # t.rolling)
      BY <1>1, <2>2
    <2> QED BY <1>1, <2>2, <2>3, <2>6, <2>7 DEF plan, a, t
  <1>9. plan = Hold(t) \/ plan = Hold(PutBack(n, t)) \/ (Resolved(obs[f]) /\ ~(n.rolling /\ tgt = {}))
    BY DEF PlanFor, Diff, Target
  <1> QED BY <1>7, <1>8, <1>9

\* What the feed of a pass holds.
LEMMA FeedMembers ==
    ASSUME NEW obs \in [Family -> Result], Collect(obs)
    PROVE  \A x : x \in feed' <=>
                \/ \E g \in Family : \E e \in Entries(PlanFor(g, obs[g])) : x = <<g, e>>
                \/ Status(obs) # lastStatus /\ x = StatusEntry
  <1> DEFINE plan == [g \in Family |-> PlanFor(g, obs[g])]
             of(g) == {<<g, e>> : e \in Entries(plan[g])}
             A     == IF Status(obs) # lastStatus THEN {StatusEntry} ELSE {}
  <1>1. feed' = (UNION {of(g) : g \in Family}) \cup A
    BY DEF Collect
  <1> QED BY <1>1

\* Of every family the feed holds what its plan reports.
LEMMA FeedOfFamily ==
    ASSUME NEW obs \in [Family -> Result], Collect(obs), NEW f \in Family
    PROVE  {e[2] : e \in {x \in feed' : x[1] = f}} = Entries(PlanFor(f, obs[f]))
  <1> DEFINE said == Entries(PlanFor(f, obs[f]))
  <1>1. \A x : x \in feed' <=>
                \/ \E g \in Family : \E e \in Entries(PlanFor(g, obs[g])) : x = <<g, e>>
                \/ Status(obs) # lastStatus /\ x = StatusEntry
    BY FeedMembers
  <1>2. StatusEntry[1] # f
    BY HistoryAssumption DEF StatusEntry
  <1>3. ASSUME NEW e \in said PROVE <<f, e>> \in feed'
    BY <1>1
  <1>4. ASSUME NEW x \in feed', x[1] = f PROVE x[2] \in said
    <2>1. PICK g \in Family : \E e \in Entries(PlanFor(g, obs[g])) : x = <<g, e>>
      BY <1>1, <1>2, <1>4
    <2>2. PICK e \in Entries(PlanFor(g, obs[g])) : x = <<g, e>>
      BY <2>1
    <2>3. g = f /\ x[2] = e
      BY <1>4, <2>2
    <2> QED BY <2>2, <2>3
  <1> HIDE DEF said
  <1>5. said \subseteq {e[2] : e \in {x \in feed' : x[1] = f}}
    <2> SUFFICES ASSUME NEW e \in said PROVE e \in {d[2] : d \in {x \in feed' : x[1] = f}}
      OBVIOUS
    <2>1. <<f, e>> \in {x \in feed' : x[1] = f} /\ <<f, e>>[2] = e
      BY <1>3
    <2> QED BY <2>1
  <1>6. {e[2] : e \in {x \in feed' : x[1] = f}} \subseteq said
    BY <1>4
  <1>7. {e[2] : e \in {x \in feed' : x[1] = f}} = said
    BY <1>5, <1>6
  <1> QED BY <1>7 DEF said

\* An image under an injection is as large as what it is the image of.
LEMMA ImageSize ==
    ASSUME NEW S, IsFiniteSet(S), NEW T, NEW h \in [S -> T],
           \A x, y \in S : h[x] = h[y] => x = y,
           \A z \in T : \E x \in S : h[x] = z
    PROVE  IsFiniteSet(T) /\ Cardinality(T) = Cardinality(S)
  <1>1. h \in Bijection(S, T)
    BY DEF Bijection, Injection, Surjection, IsInjective
  <1>2. ExistsBijection(S, T)
    BY <1>1 DEF ExistsBijection
  <1> QED BY <1>2, FS_Bijection

\* The run row counts as many changes as the feed was given.
LEMMA FeedIsCounted ==
    ASSUME HistoryInv, NEW obs \in [Family -> Result], Collect(obs)
    PROVE  changes' = Cardinality(feed')
  <1> DEFINE plan == [f \in Family |-> PlanFor(f, obs[f])]
             Sw   == {f \in Family : plan[f].switched}
             E    == {e \in Family \X Key :
                        \/ e[2] \in plan[e[1]].add /\ ~plan[e[1]].switched
                        \/ e[2] \in plan[e[1]].remove}
             A    == IF Status(obs) # lastStatus THEN {StatusEntry} ELSE {}
             mark == [f \in Sw |-> <<f, [kind |-> IF plan[f].trend.rolling THEN "ips_rolling"
                                                   ELSE "ips_stable", key |-> Nowhere]>>]
             note == [e \in E |-> <<e[1], [kind |-> IF e[2] \in plan[e[1]].add THEN "added"
                                                    ELSE "removed", key |-> e[2]]>>]
             B    == {mark[f] : f \in Sw}
             C    == {note[e] : e \in E}
  <1>1. changes' = (IF Status(obs) # lastStatus THEN 1 ELSE 0) + Cardinality(Sw) + Cardinality(E)
    BY DEF Collect, Changes
  <1>2. \A f \in Family :
          /\ plan[f].switched \in BOOLEAN
          /\ plan[f].add \subseteq Key /\ plan[f].remove \subseteq Key
          /\ plan[f].add \cap plan[f].remove = {}
          /\ plan[f].switched => plan[f].remove = {}
    BY PlanTells
  <1>3. IsFiniteSet(Sw) /\ IsFiniteSet(E)
    <2>1. IsFiniteSet(Family \X Key)
      BY HistoryAssumption, FS_Product
    <2>2. Sw \in SUBSET Family /\ E \in SUBSET (Family \X Key)
      OBVIOUS
    <2> HIDE DEF Sw, E
    <2> QED BY <2>1, <2>2, HistoryAssumption, FS_Subset
  <1>4. IsFiniteSet(B) /\ Cardinality(B) = Cardinality(Sw)
    <2>1. mark \in [Sw -> B] /\ \A z \in B : \E f \in Sw : mark[f] = z
      OBVIOUS
    <2>2. \A f, g \in Sw : mark[f] = mark[g] => f = g
      OBVIOUS
    <2> HIDE DEF mark, B, Sw
    <2> QED BY <1>3, <2>1, <2>2, ImageSize
  <1>5. IsFiniteSet(C) /\ Cardinality(C) = Cardinality(E)
    <2>1. note \in [E -> C] /\ \A z \in C : \E e \in E : note[e] = z
      OBVIOUS
    <2>2. \A d, e \in E : note[d] = note[e] => d = e
      <3> SUFFICES ASSUME NEW d \in E, NEW e \in E, note[d] = note[e] PROVE d = e
        OBVIOUS
      <3>1. d[1] = e[1] /\ d[2] = e[2]
        OBVIOUS
      <3>2. d \in Family \X Key /\ e \in Family \X Key
        OBVIOUS
      <3> QED BY <3>1, <3>2
    <2> HIDE DEF note, C, E
    <2> QED BY <1>3, <2>1, <2>2, ImageSize
  <1>6. IsFiniteSet(A) /\ Cardinality(A) = IF Status(obs) # lastStatus THEN 1 ELSE 0
    BY FS_EmptySet, FS_Singleton
  <1>7. feed' = A \cup B \cup C
    <2>1. \A x : x \in feed' <=>
                \/ \E f \in Family : \E e \in Entries(plan[f]) : x = <<f, e>>
                \/ x \in A
      BY FeedMembers
    <2>2. \A f \in Family : \A e : e \in Entries(plan[f]) <=> <<f, e>> \in B \cup C
      <3> SUFFICES ASSUME NEW f \in Family, NEW e
                   PROVE  e \in Entries(plan[f]) <=> <<f, e>> \in B \cup C
        OBVIOUS
      <3>1. CASE plan[f].switched
        <4>1. <<f, e>> \notin C
          BY <1>2, <3>1
        <4>2. <<f, e>> \in B <=> e = [kind |-> IF plan[f].trend.rolling THEN "ips_rolling"
                                                   ELSE "ips_stable", key |-> Nowhere]
          BY <3>1
        <4> QED BY <3>1, <4>1, <4>2 DEF Entries
      <3>2. CASE ~plan[f].switched
        <4>1. <<f, e>> \notin B
          BY <3>2
        <4>2. ASSUME e \in Entries(plan[f]) PROVE <<f, e>> \in C
          <5>1. PICK k \in plan[f].add \cup plan[f].remove :
                  e = [kind |-> IF k \in plan[f].add THEN "added" ELSE "removed", key |-> k]
            BY <1>2, <3>2, <4>2 DEF Entries
          <5>2. <<f, k>> \in E
            BY <1>2, <3>2, <5>1
          <5>3. note[<<f, k>>] = <<f, e>>
            BY <5>1, <5>2
          <5> QED BY <5>2, <5>3
        <4>3. ASSUME <<f, e>> \in C PROVE e \in Entries(plan[f])
          <5>1. PICK d \in E : note[d] = <<f, e>>
            BY <4>3
          <5>2. d[1] = f /\ e = [kind |-> IF d[2] \in plan[f].add THEN "added" ELSE "removed",
                                 key |-> d[2]]
            BY <5>1
          <5>3. d[2] \in plan[f].add \/ d[2] \in plan[f].remove
            BY <5>1, <5>2
          <5> QED BY <3>2, <5>2, <5>3 DEF Entries
        <4> QED BY <4>1, <4>2, <4>3
      <3> QED BY <3>1, <3>2
    <2>3. \A x \in B \cup C : \E f \in Family : \E e : x = <<f, e>>
      OBVIOUS
    <2> HIDE DEF plan, A, B, C
    <2>4. ASSUME NEW x \in B \cup C PROVE x \in feed'
      <3>1. PICK f \in Family : \E e : x = <<f, e>>
        BY <2>3, <2>4
      <3>2. PICK e : x = <<f, e>>
        BY <3>1
      <3>3. e \in Entries(plan[f])
        BY <2>2, <2>4, <3>2
      <3> QED BY <2>1, <3>2, <3>3
    <2>5. ASSUME NEW x \in feed', x \notin A PROVE x \in B \cup C
      BY <2>1, <2>2, <2>5
    <2>6. ASSUME NEW x \in A PROVE x \in feed'
      BY <2>1, <2>6
    <2> QED BY <2>4, <2>5, <2>6
  <1>8. A \cap B = {} /\ (A \cup B) \cap C = {}
    <2>1. (\A x \in B : x[1] \in Family) /\ (\A x \in C : x[1] \in Family)
      <3>1. \A f \in Sw : mark[f][1] = f /\ f \in Family
        OBVIOUS
      <3>2. \A e \in E : note[e][1] = e[1] /\ e[1] \in Family
        OBVIOUS
      <3> HIDE DEF mark, note, E, Sw
      <3> QED BY <3>1, <3>2
    <2>2. \A x \in A : x[1] \notin Family
      BY HistoryAssumption DEF StatusEntry
    <2>3. B \cap C = {}
      <3>1. \A x \in B : x[2].key = Nowhere
        <4>1. \A f \in Sw : mark[f][2].key = Nowhere
          OBVIOUS
        <4> HIDE DEF mark, Sw
        <4> QED BY <4>1
      <3>2. \A x \in C : x[2].key \in Key
        <4>1. \A e \in E : note[e][2].key = e[2] /\ e[2] \in Key
          OBVIOUS
        <4> HIDE DEF note, E
        <4> QED BY <4>1
      <3>3. Nowhere \notin Key
        BY DiffAssumption DEF Key
      <3> HIDE DEF B, C
      <3> QED BY <3>1, <3>2, <3>3
    <2> HIDE DEF A, B, C
    <2> QED BY <2>1, <2>2, <2>3
  <1> HIDE DEF A, B, C, E, Sw
  <1>9. IsFiniteSet(A \cup B) /\ Cardinality(A \cup B) = Cardinality(A) + Cardinality(B) - 0
    BY <1>4, <1>6, <1>3, <1>8, FS_Union, FS_EmptySet
  <1>10. Cardinality(feed') = Cardinality(A \cup B) + Cardinality(C) - 0
    BY <1>5, <1>7, <1>8, <1>9, FS_Union, FS_EmptySet
  <1>11. Cardinality(Sw) \in Nat /\ Cardinality(E) \in Nat
    BY <1>3, FS_CardinalityType
  <1> QED BY <1>1, <1>4, <1>5, <1>6, <1>9, <1>10, <1>11

\* The change feed tells exactly what happened to the records of each family,
\* and the run row counts it, whatever was answered and known.
THEOREM FeedTellsEverything == Spec => FeedTellsHistory
  <1> DEFINE Told ==
        /\ changes' = Cardinality(feed')
        /\ \A f \in Family :
             LET told == {e[2] : e \in {x \in feed' : x[1] = f}}
             IN  told =
                   IF trend'[f].rolling # trend[f].rolling
                   THEN {[kind |-> IF trend'[f].rolling THEN "ips_rolling" ELSE "ips_stable",
                          key |-> Nowhere]}
                   ELSE {[kind |-> "added", key |-> k] : k \in active'[f] \ active[f]}
                          \cup {[kind |-> "removed", key |-> k] :
                                   k \in active[f] \ active'[f]}
  <1>1. HistoryInv /\ [Next]_vars => [Told]_vars
    <2> SUFFICES ASSUME HistoryInv, Next PROVE Told
      OBVIOUS
    <2>1. CASE Enrich
      <3>1. feed' = {} /\ changes' = 0 /\ active' = active /\ trend' = trend
        BY <2>1 DEF Enrich, store
      <3> QED BY <3>1, FS_EmptySet
    <2>2. CASE \E obs \in [Family -> Result] : Collect(obs)
      <3>1. PICK obs \in [Family -> Result] : Collect(obs)
        BY <2>2
      <3>2. changes' = Cardinality(feed')
        BY <3>1, FeedIsCounted
      <3>3. ASSUME NEW f \in Family
            PROVE  {e[2] : e \in {x \in feed' : x[1] = f}} =
                     IF trend'[f].rolling # trend[f].rolling
                     THEN {[kind |-> IF trend'[f].rolling THEN "ips_rolling" ELSE "ips_stable",
                            key |-> Nowhere]}
                     ELSE {[kind |-> "added", key |-> k] : k \in active'[f] \ active[f]}
                            \cup {[kind |-> "removed", key |-> k] :
                                     k \in active[f] \ active'[f]}
        BY <3>1, FeedOfFamily, PlanTells DEF Entries
      <3> QED BY <3>2, <3>3
    <2> QED BY <2>1, <2>2 DEF Next
  <1> QED BY <1>1, HistoryInvariant, PTL DEF Spec, FeedTellsHistory

=============================================================================
