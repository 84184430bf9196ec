---------------------------- MODULE RegistryProofs ----------------------------
(***************************************************************************)
(* What the sweep picks to retire, for any rounds of verdicts, thresholds  *)
(* and interleavings of the passes with each other and with steps by hand. *)
(***************************************************************************)
EXTENDS Registry, TLAPS

\* The strengthening, in parts.

\* What a probing pass is about to roll up is what it stored.
CarriesReach ==
    prober.at = "probed" => prober.reach = RollUp({rows[k].result : k \in DOMAIN rows})

\* A failing streak is no older than the name's standing.
StandsLonger ==
    /\ standing >= failing
    /\ known => standing >= 0
    /\ collector.at = "resolving" => known

\* While no pass was left half done, what was heard is on record or about to be,
\* and a reach that is dead comes of a dead verdict.
HeardIsRecorded ==
    ~torn =>
        /\ heard => answered \/ (prober.at = "probed" /\ Answers(prober.reach))
        /\ prober.at # "probed" /\ reach = "dead" =>
             \E k \in DOMAIN rows : rows[k].result = "dead"

\* Nothing is dead for longer than the silence has lasted.
SilentAsLong ==
    ~heard => \A k \in DOMAIN rows :
        /\ rows[k].result # "live"
        /\ rows[k].result = "dead" => silence >= rows[k].age

Strengthening ==
    /\ TypeOK /\ StreakAgrees
    /\ CarriesReach /\ StandsLonger /\ HeardIsRecorded /\ SilentAsLong
    /\ PickedHasNeverWorked /\ FreshMonth

-----------------------------------------------------------------------------
(* What rounds roll up to, and how ages grow.                               *)

LEMMA RollUpIs ==
    ASSUME NEW verdicts
    PROVE  /\ RollUp(verdicts) \in {"live", "partial", "dead", "unknown"}
           /\ RollUp(verdicts) = "dead" <=> "dead" \in verdicts /\ "live" \notin verdicts
           /\ Answers(RollUp(verdicts)) <=> "live" \in verdicts
  BY DEF RollUp, Answers

LEMMA AgesAre ==
    /\ Longest \in Nat /\ RetireAfter <= Longest /\ RetireAfter \in Nat \ {0}
    /\ Never = -1
    /\ \A age : age \in Age <=> age = -1 \/ age \in 0 .. Longest
  BY RegistryAssumption DEF Age, Never, Longest

LEMMA OlderIs ==
    ASSUME NEW age \in Age
    PROVE  /\ Older(age) \in Age
           /\ Older(age) = Never <=> age = Never
           /\ \A younger \in Age : age >= younger => Older(age) >= Older(younger)
  BY AgesAre DEF Older

\* What a round stores.
LEMMA RoundIs ==
    ASSUME NEW said \in ProbeRounds
    PROVE  /\ DOMAIN said \subseteq Pair
           /\ \A k \in DOMAIN said : said[k] \in {"live", "dead", "unknown"}
  BY RegistryAssumption

-----------------------------------------------------------------------------
(* Every step keeps the types, part by part.                                *)

RowType == [result : {"live", "dead", "unknown"}, age : 0 .. Longest]

LEMMA BooleansStep ==
    ASSUME TypeOK, [Next]_vars
    PROVE  ({known, enabled, control, records, answered, heard, torn} \subseteq BOOLEAN)'
  <1>1. /\ known \in BOOLEAN /\ enabled \in BOOLEAN /\ control \in BOOLEAN
        /\ records \in BOOLEAN /\ answered \in BOOLEAN /\ heard \in BOOLEAN
        /\ torn \in BOOLEAN
    BY DEF TypeOK
  <1>2. known' \in BOOLEAN /\ enabled' \in BOOLEAN /\ control' \in BOOLEAN
    BY <1>1 DEF Next, Work, Stop, Tick, ByHand, AddTracker, RemoveTracker, SetControl,
       Collecting, Begin, Collect, SweepResolved, SweepAnswered, Retire,
       Probing, Target, Put, SetReach, vars, tracker, measure, observers
  <1>3. records' \in BOOLEAN /\ answered' \in BOOLEAN
    BY <1>1 DEF Next, Work, Stop, Tick, ByHand, AddTracker, RemoveTracker, SetControl,
       Collecting, Begin, Collect, SweepResolved, SweepAnswered, Retire,
       Probing, Target, Put, SetReach, vars, tracker, measure, observers
  <1>4. heard' \in BOOLEAN /\ torn' \in BOOLEAN
    BY <1>1 DEF Next, Work, Stop, Tick, ByHand, AddTracker, RemoveTracker, SetControl,
       Collecting, Begin, Collect, SweepResolved, SweepAnswered, Retire,
       Probing, Target, Put, SetReach, vars, tracker, measure, observers
  <1> QED
    BY <1>2, <1>3, <1>4

LEMMA AgesStep ==
    ASSUME TypeOK, StreakAgrees, [Next]_vars
    PROVE  /\ ({failing, checked, standing, silence} \subseteq Age)'
           /\ (fails \in 0 .. BackoffAfter)'
           /\ StreakAgrees'
  <1>1. /\ failing \in Age /\ checked \in Age /\ standing \in Age /\ silence \in Age
        /\ fails \in 0 .. BackoffAfter
    BY DEF TypeOK
  <1>2. BackoffAfter \in Nat \ {0} /\ 0 \in Age /\ Never \in Age /\ Never # 0
    BY AgesAre, RegistryAssumption
  <1>3. CASE Tick
    BY <1>1, <1>3, OlderIs DEF Tick, StreakAgrees
  <1>4. CASE ByHand
    BY <1>1, <1>2, <1>4 DEF ByHand, AddTracker, RemoveTracker, SetControl, StreakAgrees,
       measure, observers
  <1>5. ASSUME NEW ok \in BOOLEAN, Collect(ok)
        PROVE  failing' \in Age /\ fails' \in 0 .. BackoffAfter /\ (fails' = 0 <=> failing' = Never)
    BY <1>1, <1>2, <1>5 DEF Collect, StreakAgrees
  <1>6. CASE Collecting
    BY <1>1, <1>2, <1>5, <1>6 DEF Collecting, Begin, Collect, SweepResolved, SweepAnswered,
       Retire, StreakAgrees, tracker, measure, observers
  <1>7. CASE Probing
    BY <1>1, <1>2, <1>7 DEF Probing, Target, Put, SetReach, StreakAgrees, tracker, observers
  <1>8. CASE Stop \/ UNCHANGED vars
    BY <1>1, <1>8 DEF Stop, StreakAgrees, vars, tracker, observers
  <1> QED
    BY <1>3, <1>4, <1>6, <1>7, <1>8 DEF Next, Work

LEMMA RowsStep ==
    ASSUME TypeOK, [Next]_vars
    PROVE  /\ (DOMAIN rows \subseteq Pair)'
           /\ (\A k \in DOMAIN rows : rows[k] \in RowType)'
  <1>1. DOMAIN rows \subseteq Pair /\ \A k \in DOMAIN rows : rows[k] \in RowType
    BY DEF TypeOK, RowType
  <1>2. CASE Tick
    <2>1. rows' = [k \in DOMAIN rows |-> [rows[k] EXCEPT !.age = Older(@)]]
      BY <1>2 DEF Tick
    <2>2. ASSUME NEW k \in DOMAIN rows
          PROVE  Older(rows[k].age) \in 0 .. Longest
      BY <1>1, <2>2, AgesAre DEF Older, RowType
    <2> QED
      BY <1>1, <2>1, <2>2 DEF RowType
  <1>3. ASSUME NEW said \in ProbeRounds, Put(said)
        PROVE  DOMAIN rows' \subseteq Pair /\ \A k \in DOMAIN rows' : rows'[k] \in RowType
    BY <1>1, <1>3, RoundIs, AgesAre DEF Put, RowType
  <1>4. CASE rows' = rows
    BY <1>1, <1>4
  <1> QED
    BY <1>2, <1>3, <1>4 DEF Next, Work, Stop, ByHand, AddTracker, RemoveTracker, SetControl,
       Collecting, Begin, Collect, SweepResolved, SweepAnswered, Retire,
       Probing, Target, SetReach, vars, measure

LEMMA PlacesStep ==
    ASSUME TypeOK, CarriesReach, [Next]_vars
    PROVE  /\ (reach \in {"", "live", "partial", "dead", "unknown"})'
           /\ (collector.at \in {"idle", "resolving", "collected", "sweeping", "retiring"})'
           /\ (prober.at \in {"idle", "probing", "probed"})'
  <1>0. Idle.at = "idle"
    BY DEF Idle
  <1>1. /\ reach \in {"", "live", "partial", "dead", "unknown"}
        /\ collector.at \in {"idle", "resolving", "collected", "sweeping", "retiring"}
        /\ prober.at \in {"idle", "probing", "probed"}
    BY DEF TypeOK
  <1>2. reach' \in {"", "live", "partial", "dead", "unknown"}
    BY <1>1, RollUpIs DEF CarriesReach, Next, Work, Stop, Tick, ByHand, AddTracker,
       RemoveTracker, SetControl, Collecting, Begin, Collect, SweepResolved, SweepAnswered,
       Retire, Probing, Target, Put, SetReach, vars, measure
  <1>3. collector'.at \in {"idle", "resolving", "collected", "sweeping", "retiring"}
    <2>1. CASE Collecting
      <3>1. Begin => collector'.at \in {"resolving", "collected"}
        BY DEF Begin
      <3>2. \A ok \in BOOLEAN : Collect(ok) => collector'.at = "collected"
        BY DEF Collect
      <3>3. SweepResolved => collector'.at = "sweeping"
        <4>1. SweepResolved => \E stale : collector' = [at |-> "sweeping", stale |-> stale]
          BY Zenon DEF SweepResolved
        <4> QED
          BY <4>1
      <3>4. SweepAnswered => collector'.at \in {"idle", "retiring"}
        <4>1. SweepAnswered => \/ collector' = Idle
                              \/ \E stale : collector' = [at |-> "retiring", stale |-> stale]
          BY Zenon DEF SweepAnswered
        <4> QED
          BY <4>1 DEF Idle
      <3>5. Retire => collector'.at = "idle"
        BY DEF Retire, Idle
      <3> QED
        BY <2>1, <3>1, <3>2, <3>3, <3>4, <3>5 DEF Collecting
    <2>2. collector' = collector \/ collector' = Idle \/ Collecting
      BY DEF Next, Work, Stop, Tick, ByHand, AddTracker, RemoveTracker, SetControl,
         Probing, Target, Put, SetReach, vars
    <2> QED
      BY <1>0, <1>1, <2>1, <2>2, Zenon
  <1>4. prober'.at \in {"idle", "probing", "probed"}
    <2>1. CASE Probing
      <3>1. Target => prober'.at = "probing"
        BY DEF Target
      <3>2. \A said \in ProbeRounds : Put(said) => prober'.at = "probed"
        BY DEF Put
      <3>3. SetReach => prober'.at = "idle"
        BY DEF SetReach, Idle
      <3> QED
        BY <2>1, <3>1, <3>2, <3>3 DEF Probing
    <2>2. prober' = prober \/ prober' = Idle \/ Probing
      BY DEF Next, Work, Stop, Tick, ByHand, AddTracker, RemoveTracker, SetControl,
         Collecting, Begin, Collect, SweepResolved, SweepAnswered, Retire, vars
    <2> QED
      BY <1>0, <1>1, <2>1, <2>2, Zenon
  <1> QED
    BY <1>2, <1>3, <1>4

LEMMA TypeStep ==
    ASSUME TypeOK, StreakAgrees, CarriesReach, [Next]_vars
    PROVE  TypeOK'
  BY BooleansStep, AgesStep, RowsStep, PlacesStep DEF TypeOK, RowType

-----------------------------------------------------------------------------
(* Every step keeps the rest.                                               *)

LEMMA CarriesReachStep ==
    ASSUME CarriesReach, [Next]_vars
    PROVE  CarriesReach'
  <1>1. CASE Tick
    BY <1>1 DEF Tick, CarriesReach
  <1>2. ASSUME NEW said \in ProbeRounds, Put(said)
        PROVE  CarriesReach'
    <2>1. {rows'[k].result : k \in DOMAIN rows'} = {said[k] : k \in DOMAIN said}
      BY <1>2 DEF Put
    <2> QED
      BY <1>2, <2>1 DEF Put, CarriesReach
  <1>3. CASE rows' = rows /\ (prober' = prober \/ prober'.at # "probed")
    BY <1>3 DEF CarriesReach
  <1>4. CASE UNCHANGED rows /\ (UNCHANGED prober \/ prober' = Idle \/ Target)
    BY <1>3, <1>4 DEF Target, Idle
  <1> QED
    BY <1>1, <1>2, <1>4 DEF Next, Work, Stop, ByHand, AddTracker, RemoveTracker, SetControl,
       Collecting, Begin, Collect, SweepResolved, SweepAnswered, Retire,
       Probing, Target, SetReach, vars, measure

LEMMA StandsLongerStep ==
    ASSUME TypeOK, StandsLonger, [Next]_vars
    PROVE  StandsLonger'
  <1>1. failing \in Age /\ standing \in Age /\ known \in BOOLEAN
    BY DEF TypeOK
  <1>2. \A age : age \in Age => age \in Int /\ age >= -1
    BY AgesAre
  <1>3. CASE Tick
    BY <1>1, <1>2, <1>3, OlderIs, AgesAre DEF Tick, StandsLonger, Older
  <1>4. CASE ByHand
    BY <1>1, <1>2, <1>4, AgesAre DEF ByHand, AddTracker, RemoveTracker, SetControl, StandsLonger, observers
  <1>5. CASE Collecting
    <2>1. ASSUME NEW ok \in BOOLEAN, Collect(ok)
          PROVE  StandsLonger'
      BY <1>1, <1>2, <2>1, AgesAre DEF Collect, StandsLonger, observers
    <2>2. CASE Begin
      BY <2>2 DEF Begin, Listed, StandsLonger, tracker, observers
    <2>3. CASE SweepResolved
      BY <2>3 DEF SweepResolved, StandsLonger, tracker, observers
    <2>4. CASE SweepAnswered
      BY <2>4 DEF SweepAnswered, StandsLonger, tracker, observers, Idle
    <2>5. CASE Retire
      BY <2>5 DEF Retire, StandsLonger, observers, Idle
    <2> QED
      BY <1>5, <2>1, <2>2, <2>3, <2>4, <2>5 DEF Collecting
  <1>6. CASE Probing
    <2>1. UNCHANGED <<failing, known, standing, collector>>
      BY <1>6 DEF Probing, Target, Put, SetReach, tracker, observers
    <2> QED
      BY <2>1 DEF StandsLonger
  <1>7. CASE Stop
    BY <1>7 DEF Stop, StandsLonger, tracker, Idle
  <1>8. CASE UNCHANGED vars
    BY <1>8 DEF StandsLonger, vars, tracker, observers
  <1> QED
    BY <1>3, <1>4, <1>5, <1>6, <1>7, <1>8 DEF Next, Work

LEMMA HeardIsRecordedStep ==
    ASSUME TypeOK, CarriesReach, HeardIsRecorded, [Next]_vars
    PROVE  HeardIsRecorded'
  <1>1. CASE Tick
    <2>1. DOMAIN rows' = DOMAIN rows /\ \A k \in DOMAIN rows : rows'[k].result = rows[k].result
      BY <1>1 DEF Tick, TypeOK
    <2> QED
      BY <1>1, <2>1 DEF Tick, HeardIsRecorded
  <1>2. ASSUME NEW said \in ProbeRounds, Put(said)
        PROVE  HeardIsRecorded'
    <2>1. prober'.at = "probed" /\ prober'.reach = RollUp({said[k] : k \in DOMAIN said})
      BY <1>2 DEF Put
    <2>2. heard' => heard \/ "live" \in {said[k] : k \in DOMAIN said}
      BY <1>2 DEF Put
    <2>3. answered' = answered /\ torn' = torn /\ prober.at = "probing"
      BY <1>2 DEF Put
    <2> QED
      BY <2>1, <2>2, <2>3, RollUpIs DEF HeardIsRecorded
  <1>3. CASE SetReach
    <2>1. answered' <=> answered \/ Answers(prober.reach)
      BY <1>3 DEF SetReach
    <2>2. prober.at = "probed" /\ prober'.at = "idle" /\ reach' = prober.reach
          /\ rows' = rows /\ heard' = heard /\ torn' = torn
      BY <1>3 DEF SetReach, Idle, observers
    <2>3. reach' = "dead" => "dead" \in {rows[k].result : k \in DOMAIN rows}
      BY <2>2, RollUpIs DEF CarriesReach
    <2> QED
      BY <2>1, <2>2, <2>3 DEF HeardIsRecorded
  <1>4. CASE Stop
    <2>1. ~torn' => ~torn /\ (prober' = prober \/ prober.at # "probed")
      BY <1>4, Zenon DEF Stop
    <2>2. prober' = prober \/ prober'.at = "idle"
      BY <1>4 DEF Stop, Idle
    <2>3. UNCHANGED <<measure, heard>>
      BY <1>4 DEF Stop
    <2> QED
      BY <2>1, <2>2, <2>3 DEF HeardIsRecorded, measure
  <1>5. CASE UNCHANGED <<measure, heard, torn>> /\ (prober' = prober \/ Target)
    BY <1>5 DEF HeardIsRecorded, measure, Target, Idle
  <1> QED
    BY <1>1, <1>2, <1>3, <1>4, <1>5 DEF Next, Work, ByHand, AddTracker, RemoveTracker, SetControl,
       Collecting, Begin, Collect, SweepResolved, SweepAnswered, Retire,
       Probing, Target, vars, measure, observers

LEMMA SilentAsLongStep ==
    ASSUME TypeOK, SilentAsLong, [Next]_vars
    PROVE  SilentAsLong'
  <1>0. /\ silence \in Age /\ \A k \in DOMAIN rows : rows[k] \in RowType
        /\ \A k \in DOMAIN rows : rows[k].age \in Age
    BY AgesAre DEF TypeOK, RowType
  <1>1. CASE Tick
    <2>1. /\ DOMAIN rows' = DOMAIN rows
          /\ \A k \in DOMAIN rows : rows'[k].result = rows[k].result
                                    /\ rows'[k].age = Older(rows[k].age)
      BY <1>0, <1>1 DEF Tick, RowType
    <2>2. heard' = heard /\ silence' = Older(silence)
      BY <1>1 DEF Tick
    <2> QED
      BY <1>0, <2>1, <2>2, OlderIs DEF SilentAsLong
  <1>2. ASSUME NEW said \in ProbeRounds, Put(said), ~heard'
        PROVE  SilentAsLong'
    <2>1. ~heard /\ \A k \in DOMAIN said : said[k] # "live"
      BY <1>2 DEF Put
    <2>2. DOMAIN rows' = DOMAIN said /\ \A k \in DOMAIN said : rows'[k].result = said[k]
      BY <1>2 DEF Put
    <2>3. ASSUME NEW k \in DOMAIN said, said[k] = "dead"
          PROVE  silence' >= rows'[k].age
      <3>1. RollUp({said[j] : j \in DOMAIN said}) = "dead"
        BY <2>1, <2>3, RollUpIs
      <3>2. silence' = IF silence = Never THEN 0 ELSE silence
        BY <1>2, <3>1 DEF Put
      <3>3. CASE k \in DOMAIN rows /\ rows[k].result = "dead"
        <4>1. rows'[k].age = rows[k].age
          BY <1>2, <2>3, <3>3 DEF Put
        <4>2. silence >= rows[k].age /\ rows[k].age >= 0
          BY <1>0, <2>1, <3>3 DEF SilentAsLong, RowType
        <4> QED
          BY <1>0, <3>2, <3>3, <4>1, <4>2, AgesAre
      <3>4. CASE ~(k \in DOMAIN rows /\ rows[k].result = "dead")
        <4>1. rows'[k].age = 0
          BY <1>2, <2>3, <3>4 DEF Put
        <4> QED
          BY <1>0, <3>2, <4>1, AgesAre
      <3> QED
        BY <3>3, <3>4
    <2> QED
      BY <2>1, <2>2, <2>3 DEF SilentAsLong
  <1>3. CASE UNCHANGED <<rows, heard, silence>>
    BY <1>3 DEF SilentAsLong
  <1>4. heard' => SilentAsLong'
    BY DEF SilentAsLong
  <1> QED
    BY <1>1, <1>2, <1>3, <1>4 DEF Next, Work, Stop, ByHand, AddTracker, RemoveTracker, SetControl,
       Collecting, Begin, Collect, SweepResolved, SweepAnswered, Retire,
       Probing, Target, SetReach, vars, measure, observers

\* What a step may put among the picked names.
LEMMA PickedByStep ==
    ASSUME [Next]_vars
    PROVE  \A s \in Stale' :
             \/ s \in Stale
             \/ NeverResolved /\ s = Picked("never resolved")
             \/ NeverAnswered /\ s = Picked("never answered")
  <1>1. CASE SweepResolved
    <2> DEFINE stale == IF NeverResolved THEN {Picked("never resolved")} ELSE {}
    <2>1. collector' = [at |-> "sweeping", stale |-> stale]
      BY <1>1 DEF SweepResolved
    <2>2. Stale' = stale
      <3> HIDE DEF stale
      <3> QED
        BY <2>1 DEF Stale
    <2> QED
      BY <2>2
  <1>2. CASE SweepAnswered
    <2> DEFINE stale == collector.stale
                          \cup IF NeverAnswered THEN {Picked("never answered")} ELSE {}
    <2>1. collector.at = "sweeping"
          /\ (collector' = Idle \/ collector' = [at |-> "retiring", stale |-> stale])
      BY <1>2, Zenon DEF SweepAnswered
    <2>2. Stale = collector.stale
      BY <2>1 DEF Stale
    <2>3. Stale' \subseteq stale
      <3> HIDE DEF stale
      <3> QED
        BY <2>1 DEF Stale, Idle
    <2> QED
      BY <2>2, <2>3
  <1>3. CASE UNCHANGED collector
    BY <1>3 DEF Stale
  <1>4. CASE collector' = Idle
    BY <1>4 DEF Stale, Idle
  <1>5. CASE Begin
    BY <1>5 DEF Begin, Stale
  <1>6. ASSUME NEW ok \in BOOLEAN, Collect(ok)
        PROVE  Stale' = {}
    BY <1>6 DEF Collect, Stale
  <1> QED
    BY <1>1, <1>2, <1>3, <1>4, <1>5, <1>6 DEF Next, Work, Stop, Tick, ByHand, AddTracker,
       RemoveTracker, SetControl, Collecting, Retire, Probing, Target, Put, SetReach, vars

LEMMA PickedByAnswers ==
    ASSUME TypeOK, HeardIsRecorded, SilentAsLong, NeverAnswered
    PROVE  LET s == Picked("never answered")
           IN  s.torn \/ (~s.heard /\ s.silence >= RetireAfter)
  <1>1. CASE torn \/ prober.at = "probed"
    BY <1>1 DEF Picked
  <1>2. CASE ~torn /\ prober.at # "probed"
    <2>1. ~heard /\ \E k \in DOMAIN rows : rows[k].result = "dead"
      BY <1>2 DEF NeverAnswered, HeardIsRecorded
    <2>2. PICK k \in DOMAIN rows : rows[k].result = "dead"
      BY <2>1
    <2>3. silence >= rows[k].age /\ rows[k].age >= RetireAfter
      BY <2>1, <2>2, Zenon DEF NeverAnswered, SilentAsLong
    <2>4. silence \in Int /\ rows[k].age \in Int /\ RetireAfter \in Int
      <3>1. silence \in Age /\ rows[k].age \in 0 .. Longest
        BY <2>2 DEF TypeOK
      <3> QED
        BY <3>1, AgesAre
    <2>5. silence >= RetireAfter
      BY <2>3, <2>4
    <2> QED
      BY <2>1, <2>5 DEF Picked
  <1> QED
    BY <1>1, <1>2

LEMMA PickedByResolving ==
    ASSUME TypeOK, StandsLonger, NeverResolved
    PROVE  /\ ~Picked("never resolved").records
           /\ Picked("never resolved").standing >= RetireAfter
  <1>1. standing \in Int /\ failing \in Int /\ RetireAfter \in Int
    <2>1. standing \in Age /\ failing \in Age
      BY DEF TypeOK
    <2> QED
      BY <2>1, AgesAre
  <1>2. standing >= RetireAfter
    BY <1>1 DEF NeverResolved, StandsLonger
  <1> QED
    BY <1>2 DEF Picked, NeverResolved

LEMMA PickedStep ==
    ASSUME TypeOK, StandsLonger, HeardIsRecorded, SilentAsLong,
           PickedHasNeverWorked, FreshMonth, [Next]_vars
    PROVE  PickedHasNeverWorked' /\ FreshMonth'
  <1>1. Picked("never resolved").reason = "never resolved"
        /\ Picked("never answered").reason = "never answered"
        /\ "never resolved" # "never answered"
    BY DEF Picked
  <1>2. PickedHasNeverWorked'
    BY <1>1, PickedByStep, PickedByAnswers, PickedByResolving, Zenon DEF PickedHasNeverWorked
  <1>3. FreshMonth'
    BY <1>1, PickedByStep, PickedByResolving, Zenon DEF FreshMonth
  <1> QED
    BY <1>2, <1>3

-----------------------------------------------------------------------------

LEMMA StrengtheningHolds == Spec => []Strengthening
  <1>1. Init => Strengthening
    <2> SUFFICES ASSUME Init PROVE Strengthening
      OBVIOUS
    <2>1. DOMAIN rows = {} /\ collector.at = "idle" /\ prober.at = "idle"
      BY DEF Init, Idle
    <2>2. TypeOK
      <3>0. Never \in Age /\ BackoffAfter \in Nat
        BY RegistryAssumption, AgesAre
      <3>1. {failing, checked, standing, silence} \subseteq Age /\ fails \in 0 .. BackoffAfter
        <4>1. fails = 0 /\ failing = Never /\ checked = Never /\ standing = Never
              /\ silence = Never
          BY DEF Init
        <4> QED
          BY <3>0, <4>1
      <3> QED
        BY <2>1, <3>1 DEF Init, TypeOK
    <2>3. StreakAgrees /\ StandsLonger
      <3>1. fails = 0 /\ failing = Never /\ standing = Never /\ Never = -1
        BY AgesAre DEF Init
      <3>2. ~known
        BY DEF Init
      <3>3. collector.at # "resolving"
        BY <2>1
      <3> QED
        BY <3>1, <3>2, <3>3 DEF StreakAgrees, StandsLonger
    <2>4. CarriesReach /\ HeardIsRecorded /\ SilentAsLong
      BY <2>1 DEF Init, CarriesReach, HeardIsRecorded, SilentAsLong
    <2>5. PickedHasNeverWorked /\ FreshMonth
      BY DEF Init, PickedHasNeverWorked, FreshMonth, Stale, Idle
    <2> QED
      BY <2>2, <2>3, <2>4, <2>5 DEF Strengthening
  <1>2. Strengthening /\ [Next]_vars => Strengthening'
    BY TypeStep, AgesStep, CarriesReachStep, StandsLongerStep, HeardIsRecordedStep,
       SilentAsLongStep, PickedStep DEF Strengthening
  <1> QED
    BY <1>1, <1>2, PTL DEF Spec

\* The registry's columns keep their types, and the streak that backs a name
\* off is the one that retires it, whatever is done by hand between the steps of
\* a pass.
THEOREM RegistryInvariant == Spec => []RegistryInv
  <1>1. Strengthening => RegistryInv
    BY DEF Strengthening, RegistryInv
  <1> QED
    BY <1>1, StrengtheningHolds, PTL

\* A name picked for having never worked has never worked, and for as long as
\* the sweep requires, for any rounds of verdicts.
THEOREM PickedNeverWorked == Spec => []PickedHasNeverWorked
  <1>1. Strengthening => PickedHasNeverWorked
    BY DEF Strengthening
  <1> QED
    BY <1>1, StrengtheningHolds, PTL

\* No name is picked for never resolving before it has stood for RetireAfter
\* since it was last added.
THEOREM FreshMonthIsGiven == Spec => []FreshMonth
  <1>1. Strengthening => FreshMonth
    BY DEF Strengthening
  <1> QED
    BY <1>1, StrengtheningHolds, PTL

=============================================================================
