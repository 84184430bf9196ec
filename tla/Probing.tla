------------------------------- MODULE Probing -------------------------------
(***************************************************************************)
(* Probing one tracker: a pass reads the stored verdicts, tries every      *)
(* endpoint on every address, folds the attempts into the verdicts,        *)
(* replaces them in one transaction and rolls them up into the reach of    *)
(* the name in a second one.  Several probers may share the database: the  *)
(* daemon's loop and the probe command.                                    *)
(* Source: internal/collector/prober.go, internal/store/probes.go.         *)
(***************************************************************************)
EXTENDS Integers, FiniteSets, Reach

CONSTANTS
    Prober,      \* processes that probe: serve's loop, poll, probe
    Endpoint,    \* the endpoints of the tracker that are not retired
    Addr,        \* its addresses: tracked ones and rolling samples
    Outcome,     \* what an attempt can come back with
    Threshold,   \* --probe-miss-threshold
    Retention,   \* --probe-retention, in instants
    MaxTime      \* bound: the number of instants a behaviour has

ASSUME ProbingAssumption ==
    /\ Outcome \subseteq {"live", "dead", "unreachable", "unknown"}
    /\ Threshold \in Nat \ {0}
    /\ Retention \in Nat
    /\ MaxTime \in Nat

VARIABLES
    clock,     \* the instant of the latest pass
    rows,      \* probes: the open interval of each pair probed last round
    history,   \* probe_history: the closed intervals
    reach,     \* trackers.reach
    lastLive,  \* trackers.last_live_at, 0 when NULL
    news,      \* the reach entry the last step appended to changes
    pass       \* where each prober is, with what it has read so far

\* Observers: the attempts as they happened on the network.
VARIABLES
    attempts,     \* <<pair, instant, outcome>> of stored rounds
    down,         \* rounds in a row an endpoint failed wherever it was tried
    interrupted   \* a pass stored its verdicts and not yet their roll-up

stored == <<rows, history, reach, lastLive>>
observers == <<attempts, down, interrupted>>
vars == <<clock, stored, news, pass, observers>>

Pair == Endpoint \X Addr

-----------------------------------------------------------------------------
(* Verdicts.                                                                *)

Failed(outcome) == outcome \in {"dead", "unreachable"}

\* endpointStreaks: the failures an endpoint passes on to an address never
\* tried before; none once a row without failures is among its rows.
StreakForgotten(prev, ep) == 0   \* Mutant: a fresh address starts over.
Streak(prev, ep) ==
    LET counts == {prev[k].miss : k \in {j \in DOMAIN prev : j[1] = ep}}
    IN  IF counts = {} \/ 0 \in counts THEN 0
        ELSE CHOOSE n \in counts : \A m \in counts : m <= n

\* The verdict half of merge: silence keeps a live verdict until it has
\* failed often enough, a reply that is no tracker ends it at once.
Verdict(seen, before, outcome, miss) ==
    CASE outcome = "live" -> "live"
      [] outcome = "unknown" -> IF seen THEN before.result ELSE "unknown"
      [] Failed(outcome) /\ (outcome = "dead" \/ miss >= Threshold) -> "dead"
      [] OTHER -> IF seen /\ before.result = "live" THEN "live" ELSE "unknown"

\* Mutant: the failures of an interval are carried into the next one.
MergeCarryingMisses(prev, k, outcome, now) ==
    LET seen    == k \in DOMAIN prev
        before  == prev[k]
        carried == IF seen THEN before.miss ELSE Streak(prev, k[1])
        miss    == IF outcome = "live" THEN 0
                   ELSE IF Failed(outcome) THEN carried + 1 ELSE carried
        result  == Verdict(seen, before, outcome, miss)
        stands  == seen /\ before.result = result
        failure == IF Failed(outcome) THEN 1 ELSE 0
    IN  [result |-> result,
         miss   |-> miss,
         misses |-> failure + IF seen THEN before.misses ELSE 0,
         since  |-> IF stands THEN before.since ELSE now]

\* merge: an attempt folded into the row read before it.  before is only
\* looked at when the pair was seen.
Merge(prev, k, outcome, now) ==
    LET seen    == k \in DOMAIN prev
        before  == prev[k]
        carried == IF seen THEN before.miss ELSE Streak(prev, k[1])
        miss    == IF outcome = "live" THEN 0
                   ELSE IF Failed(outcome) THEN carried + 1 ELSE carried
        result  == Verdict(seen, before, outcome, miss)
        stands  == seen /\ before.result = result
        failure == IF Failed(outcome) THEN 1 ELSE 0
    IN  [result |-> result,
         miss   |-> miss,
         misses |-> failure + IF stands THEN before.misses ELSE 0,
         since  |-> IF stands THEN before.since ELSE now]

Verdicts(table) == {table[k].result : k \in DOMAIN table}

-----------------------------------------------------------------------------
(* The store.                                                               *)

\* archiveProbe: the interval of a stored row, closed at an instant.
Interval(k, row, until) ==
    [pair |-> k, result |-> row.result, misses |-> row.misses,
     since |-> row.since, until |-> until]

\* Mutant: a verdict that has not moved is archived as well.
ClosedAlways(k, until) == {Interval(k, rows[k], until)}
Closed(k, until) ==
    IF rows[k].since < until THEN {Interval(k, rows[k], until)} ELSE {}

\* Mutant: the rows of addresses no longer probed vanish.
PutProbesUnarchived(table, now) ==
    /\ history' = history
         \cup (UNION {Closed(k, table[k].since) : k \in DOMAIN rows \cap DOMAIN table})
    /\ rows' = table

\* PutProbes for all endpoints: replaced verdicts are archived where the new
\* one starts, rows not probed this round are archived now and dropped.
PutProbes(table, now) ==
    /\ history' = history
         \cup (UNION {Closed(k, table[k].since) : k \in DOMAIN rows \cap DOMAIN table})
         \cup (UNION {Closed(k, now) : k \in DOMAIN rows \ DOMAIN table})
    /\ rows' = table

\* Mutant: an unknown reach is taken for nothing to store.
SetReachIfKnown(next, now) ==
    /\ reach' = IF next = "unknown" THEN reach ELSE next
    /\ lastLive' = IF Answers(next) THEN now ELSE lastLive
    /\ news' = ReachChange(reach, next)

\* SetReach: the roll-up, the date of the last answer and the feed entry.
SetReach(next, now) ==
    /\ reach' = next
    /\ lastLive' = IF Answers(next) THEN now ELSE lastLive
    /\ news' = ReachChange(reach, next)

-----------------------------------------------------------------------------
(* A pass.                                                                  *)

Idle == [at |-> "idle"]
NoRows == [k \in {} |-> 0]

\* RunOnce reads its targets, and this tracker is among them.
Targets(p) ==
    /\ pass[p].at = "idle"
    /\ pass' = [pass EXCEPT ![p] = [at |-> "queued"]]
    /\ news' = ""
    /\ UNCHANGED <<clock, stored, observers>>

\* probeOne up to its first probe: the stored rows, the addresses and now.
Read(p) ==
    /\ pass[p].at = "queued"
    /\ clock < MaxTime
    /\ clock' = clock + 1
    /\ \E addrs \in SUBSET Addr :
         pass' = [pass EXCEPT ![p] = [at |-> "probing", prev |-> rows,
                                      addrs |-> addrs, now |-> clock + 1]]
    /\ news' = ""
    /\ UNCHANGED <<stored, observers>>

DownAfter(addrs, said) ==
    [ep \in Endpoint |->
        IF addrs # {} /\ \A a \in addrs : Failed(said[<<ep, a>>])
        THEN down[ep] + 1 ELSE 0]

\* runJobs and the PutProbes transaction.
Store(p) ==
    LET here  == pass[p]
        pairs == Endpoint \X here.addrs
    IN  /\ here.at = "probing"
        /\ \E said \in [pairs -> Outcome] :
             LET table == [k \in pairs |-> Merge(here.prev, k, said[k], here.now)]
             IN  /\ PutProbes(table, here.now)
                 /\ pass' = [pass EXCEPT ![p] =
                        [at |-> "stored", reach |-> RollUp(Verdicts(table)),
                         now |-> here.now]]
                 /\ attempts' = attempts \cup {<<k, here.now, said[k]>> : k \in pairs}
                 /\ down' = DownAfter(here.addrs, said)
        /\ interrupted' = TRUE
        /\ news' = ""
        /\ UNCHANGED <<clock, reach, lastLive>>

\* The SetReach transaction ends the pass.
Roll(p) ==
    /\ pass[p].at = "stored"
    /\ SetReach(pass[p].reach, pass[p].now)
    /\ pass' = [pass EXCEPT ![p] = Idle]
    /\ interrupted' = FALSE
    /\ UNCHANGED <<clock, rows, history, attempts, down>>

\* The pass is cancelled, the process stops, or a transaction fails: what it
\* had not stored yet is gone.
Stop(p) ==
    /\ pass[p].at # "idle"
    /\ pass' = [pass EXCEPT ![p] = Idle]
    /\ news' = ""
    /\ UNCHANGED <<clock, stored, observers>>

\* PruneProbeHistory at the end of a run; runs that skip this name, or stop
\* in it, prune as well, so it is a step of its own.
Prune ==
    /\ \E iv \in history : iv.until < clock - Retention
    /\ history' = {iv \in history : iv.until >= clock - Retention}
    /\ news' = ""
    /\ UNCHANGED <<clock, rows, reach, lastLive, pass, observers>>

Init ==
    /\ clock = 0
    /\ rows = NoRows
    /\ history = {}
    /\ reach = ""
    /\ lastLive = 0
    /\ news = ""
    /\ pass = [p \in Prober |-> Idle]
    /\ attempts = {}
    /\ down = [ep \in Endpoint |-> 0]
    /\ interrupted = FALSE

Next ==
    \/ \E p \in Prober : Targets(p) \/ Read(p) \/ Store(p) \/ Roll(p) \/ Stop(p)
    \/ Prune

Spec == Init /\ [][Next]_vars

-----------------------------------------------------------------------------
(* Properties.                                                              *)

Row == [result : {"live", "dead", "unknown"}, miss : Nat, misses : Nat, since : Nat]

TypeOK ==
    /\ DOMAIN rows \subseteq Pair
    /\ \A k \in DOMAIN rows : rows[k] \in Row
    /\ history \subseteq [pair : Pair, result : {"live", "dead", "unknown"},
                          misses : Nat, since : Nat, until : Nat]
    /\ reach \in {"", "live", "partial", "dead", "unknown"}
    /\ lastLive \in 0 .. clock
    /\ \A p \in Prober : pass[p].at \in {"idle", "queued", "probing", "stored"}

\* The instants an interval speaks for.
Span(iv) == iv.since .. (iv.until - 1)
OpenSpan(k) == rows[k].since .. clock

\* Intervals are the shape ip_records uses: those of one pair are not empty
\* and never overlap each other or the open one, so that counting time over
\* them counts no instant twice.
IntervalsDoNotOverlap ==
    /\ \A iv \in history : Span(iv) # {}
    /\ \A x, y \in history : x.pair = y.pair /\ x # y => Span(x) \cap Span(y) = {}
    /\ \A iv \in history :
         iv.pair \in DOMAIN rows => Span(iv) \cap OpenSpan(iv.pair) = {}

\* What is stored is well formed, pair by pair.
ProbingInv == TypeOK /\ IntervalsDoNotOverlap

Fits(said, result) == said \in {"live", "dead"} => said = result

\* A verdict that changes is kept: every attempt inside the retention window
\* lies in an interval of its pair, open or closed, also once the address
\* stops being probed; a live answer in a live one and a reply that is no
\* tracker in a dead one.
MeasurementsAreKept ==
    \A x \in attempts :
        \/ x[2] < clock - Retention
        \/ \E iv \in history :
             iv.pair = x[1] /\ x[2] \in Span(iv) /\ Fits(x[3], iv.result)
        \/ x[1] \in DOMAIN rows /\ x[2] \in OpenSpan(x[1]) /\ Fits(x[3], rows[x[1]].result)

Failures(k, span) == {x \in attempts : x[1] = k /\ x[2] \in span /\ Failed(x[3])}

\* Misses is the failed attempts an interval survived: as many as the network
\* saw between its ends.
MissesAreAttempts ==
    /\ \A iv \in history : iv.misses = Cardinality(Failures(iv.pair, Span(iv)))
    /\ \A k \in DOMAIN rows : rows[k].misses = Cardinality(Failures(k, OpenSpan(k)))

\* Failing on ten addresses is ten failures: an endpoint that failed wherever
\* it was tried for Threshold rounds in a row is dead on all of them, however
\* its addresses churn.
FailingEverywhereIsDead ==
    \A k \in DOMAIN rows : down[k[1]] >= Threshold => rows[k].result = "dead"

\* The reach of the name is the roll-up of its stored verdicts, except while a
\* pass is between its two transactions or one died there.
ReachIsCurrent ==
    interrupted \/ reach = RollUp(Verdicts(rows)) \/ (reach = "" /\ rows = NoRows)

=============================================================================
