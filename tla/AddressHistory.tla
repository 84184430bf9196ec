--------------------------- MODULE AddressHistory ---------------------------
(***************************************************************************)
(* The address history of one tracker: collectOne resolves both families,  *)
(* diffs the answers against the active records and applies the plan in    *)
(* one transaction.  One collector works on a name at a time.              *)
(* Source: internal/collector/collector.go, internal/store/records.go.     *)
(***************************************************************************)
EXTENDS AddressDiff

CONSTANTS
    Family,     \* the address families, 4 and 6
    Outcome,    \* the lookup statuses the resolver comes back with
    MaxChurn,   \* bound: no answer changes a family whose churn is this high
    MaxFails    \* resolve_fails is counted up to here

ASSUME HistoryAssumption ==
    /\ Family # {} /\ "name" \notin Family
    /\ IsFiniteSet(Family) /\ IsFiniteSet(Key)
    /\ Outcome \subseteq
         {"ok", "nodata", "nxdomain", "servfail", "timeout", "error"}
    /\ MaxChurn \in Nat
    /\ MaxFails \in Nat \ {0}

VARIABLES
    active,        \* ip_records: keys with active = 1, per family
    misses,        \* ip_records.miss_count of the active rows
    trend,         \* family_state
    known,         \* prefixIndex, as a pass reads it at its start
    lastStatus,    \* trackers.last_status
    resolveFails,  \* trackers.resolve_fails
    failing,       \* trackers.failing_since IS NOT NULL
    feed,          \* entries the last step appended to changes
    changes        \* what Plan.Changes() returned for the last pass

\* Observers: facts about the answers, kept without looking at the records.
VARIABLES
    absent,        \* trusted answers in a row that did not name the key
    settled,       \* trusted answers in a row that gave the latest set
    moved          \* changed answers since the family last stopped rolling

store == <<active, misses, trend, lastStatus, resolveFails, failing>>
observers == <<absent, settled, moved>>
vars == <<store, known, feed, changes, observers>>

-----------------------------------------------------------------------------
(* Observations.                                                            *)

Failures == {"servfail", "timeout", "error"}

\* What Lookup (module Resolver) comes back with: an answer has addresses,
\* everything else has none.
Result ==
    {r \in [status : Outcome, addrs : SUBSET Addr] :
        r.status = "ok" <=> r.addrs # {}}

\* Status.Resolved: the query was answered, if only to say there is nothing.
Resolved(result) == result.status \notin Failures

\* Observation.Status: an answer beats a non-answer, NXDOMAIN beats a
\* failure, a failure beats NODATA, and failures are ranked.
Ranking == <<"ok", "nxdomain", "servfail", "timeout", "error", "nodata">>
Status(obs) ==
    LET said == {i \in DOMAIN Ranking :
                    \E f \in Family : obs[f].status = Ranking[i]}
    IN  Ranking[CHOOSE i \in said : \A j \in said : i <= j]

-----------------------------------------------------------------------------
(* Actions.                                                                 *)

\* Mutant: a failed query is taken for an empty answer.
PlanForAnyAnswer(f, result) ==
    Diff(active[f], misses[f], trend[f], result.addrs, known)

\* The plan per family; a family whose query failed is left untouched.
PlanFor(f, result) ==
    IF Resolved(result)
    THEN Diff(active[f], misses[f], trend[f], result.addrs, known)
    ELSE Hold(trend[f])

\* The status_changed entry is about the name, not about a family.
StatusEntry == <<"name", [kind |-> "status_changed", key |-> Nowhere]>>

\* Mutant: silent additions are counted.
ChangesCountingSilent(plan, statusChanged) ==
    (IF statusChanged THEN 1 ELSE 0)
      + Cardinality({f \in Family : plan[f].switched})
      + Cardinality({e \in Family \X Key :
            e[2] \in plan[e[1]].add \cup plan[e[1]].remove})

\* Plan.Changes, counted from the plan alone.
Changes(plan, statusChanged) ==
    (IF statusChanged THEN 1 ELSE 0)
      + Cardinality({f \in Family : plan[f].switched})
      + Cardinality({e \in Family \X Key :
            \/ e[2] \in plan[e[1]].add /\ ~plan[e[1]].switched
            \/ e[2] \in plan[e[1]].remove})

\* The names an answer stands for: its addresses and their known prefixes.
Named(result) == result.addrs \cup prefixesOf(result.addrs, known)

\* The failing streak after a pass: only an address ends it.
StreakEndedByAnyAnswer(now) ==   \* Mutant: NODATA ends it too.
    IF now \in {"ok", "nodata"} THEN 0 ELSE Saturated(resolveFails, MaxFails)
StreakAfter(now) ==
    IF now = "ok" THEN 0 ELSE Saturated(resolveFails, MaxFails)

Observe(obs) ==
    LET trusted == {f \in Family : Resolved(obs[f])}
        fresh(f) == trend[f].fp \notin {Unseen, obs[f].addrs}
        leaves(f) == trend[f].rolling /\ ~trend'[f].rolling
    IN  /\ absent' = [f \in Family |-> [k \in Key |->
                IF f \notin trusted THEN absent[f][k]
                ELSE IF k \in Named(obs[f]) THEN 0
                ELSE Saturated(absent[f][k], missThreshold)]]
        /\ settled' = [f \in Family |->
                IF f \notin trusted THEN settled[f]
                ELSE IF fresh(f) THEN 1
                ELSE Saturated(settled[f], steadyAfter)]
        /\ moved' = [f \in Family |->
                IF f \notin trusted THEN moved[f]
                ELSE IF leaves(f) THEN 0
                ELSE IF fresh(f) THEN Saturated(moved[f], RollAfter)
                ELSE moved[f]]

\* collectOne up to and including ApplyPlan's commit; plan and status are made
\* once, and bound by \E so that TLC evaluates them once.
Collect(obs) ==
    \E plan \in {[f \in Family |-> PlanFor(f, obs[f])]}, now \in {Status(obs)} :
        /\ \A f \in Family : plan[f].trend.churn <= MaxChurn
        /\ active' = [f \in Family |-> ActiveAfter(active[f], plan[f])]
        /\ misses' = [f \in Family |-> MissesAfter(active[f], misses[f], plan[f])]
        /\ trend' = [f \in Family |-> plan[f].trend]
        /\ lastStatus' = now
        /\ resolveFails' = StreakAfter(now)
        /\ failing' = (now # "ok")
        /\ feed' = (UNION {{<<f, e>> : e \in Entries(plan[f])} : f \in Family})
                     \cup IF now # lastStatus THEN {StatusEntry} ELSE {}
        /\ changes' = Changes(plan, now # lastStatus)
        /\ Observe(obs)
        /\ UNCHANGED known

\* A pass whose transaction fails leaves no trace: nothing is written.

\* The enricher adds placement rows, moves an address to another prefix, and a
\* failed refresh blanks one, so what a pass reads at its start may be any index.
Enrich ==
    /\ known' \in Index
    /\ known' # known
    /\ feed' = {}
    /\ changes' = 0
    /\ UNCHANGED <<store, observers>>

Init ==
    /\ active = [f \in Family |-> {}]
    /\ misses = [f \in Family |-> [k \in Key |-> 0]]
    /\ trend = [f \in Family |-> NewTrend]
    /\ known = [a \in Addr |-> Nowhere]
    /\ lastStatus = "unchecked"
    /\ resolveFails = 0
    /\ failing = FALSE
    /\ feed = {}
    /\ changes = 0
    /\ absent = [f \in Family |-> [k \in Key |-> 0]]
    /\ settled = [f \in Family |-> 0]
    /\ moved = [f \in Family |-> 0]

Next ==
    \/ \E obs \in [Family -> Result] : Collect(obs)
    \/ Enrich

\* The collector's loop never stops by itself (every), and the resolver is
\* assumed to answer each family again and again.
Answered(f) ==
    \E obs \in [Family -> Result] : Resolved(obs[f]) /\ Collect(obs)

Spec == Init /\ [][Next]_vars

FairSpec == Spec /\ \A f \in Family : WF_vars(Answered(f))

-----------------------------------------------------------------------------
(* Properties.                                                              *)

TypeOK ==
    /\ active \in [Family -> SUBSET Key]
    /\ misses \in [Family -> [Key -> Nat]]
    /\ trend \in [Family -> Trend]
    /\ known \in Index
    /\ lastStatus \in Outcome \cup {"unchecked"}
    /\ resolveFails \in 0 .. MaxFails
    /\ failing \in BOOLEAN
    /\ absent \in [Family -> [Key -> 0 .. missThreshold]]
    /\ settled \in [Family -> 0 .. steadyAfter]
    /\ moved \in [Family -> Nat]

\* A family is recorded in exactly one mode: a rolling family holds prefix
\* records only, any other one addresses only (supersede in diff.go), also
\* across the passes that wanted to switch and could not.
OneMode ==
    \A f \in Family : active[f] \subseteq KeysIn(trend[f].rolling)

\* A family that would roll and has no known prefix to collapse onto: its
\* records stand still, answers neither refresh nor age them.
Waiting(f) == ~trend[f].rolling /\ RollAfter > 0 /\ trend[f].churn >= RollAfter

\* How many trusted answers in a row without it retire a record: MissThreshold,
\* as long as that is within reach of the settling window.  A family that waits
\* for a prefix keeps the misses of its records whatever it answers, and counts
\* on from there once it gave one answer for more than steadyAfter runs and
\* churn decayed twice; a threshold above that is not waited for (diff.go:122).
Patience == IF missThreshold <= steadyAfter + 3 THEN missThreshold ELSE steadyAfter + 3

\* The misses of a record of a waiting family may be more than it earned.  The
\* last answer named it; or it has been absent ever since the answer changed,
\* and churn is above where waiting began until it decays.
HeldBack(f, k) ==
    /\ Waiting(f)
    /\ \/ k \in trend[f].fp
       \/ /\ trend[f].steady < absent[f][k]
          /\ trend[f].churn > RollAfter \/ absent[f][k] >= steadyAfter + 2

\* An address must be missing repeatedly to be retired: every active record
\* has fewer misses than the threshold, and none it did not earn, so no
\* failed lookup, mode switch or enrichment in between ages it.  Only waiting
\* may leave it more, for as long as that lasts or until it has been absent
\* for longer than the patience with it.
MissesAreEarned ==
    \A f \in Family : \A k \in active[f] :
        /\ misses[f][k] < missThreshold
        /\ \/ misses[f][k] <= absent[f][k]
           \/ absent[f][k] >= steadyAfter + 3
           \/ HeldBack(f, k)

\* Backoff and retirement read two columns that say the same: a name has a
\* failing streak exactly when its last status is not ok, and dates it.
FailingStreak ==
    /\ failing = (lastStatus \notin {"ok", "unchecked"})
    /\ failing = (resolveFails > 0)

\* The inductive invariant of the history: what a record, a mode, a counter
\* and the failing streak say of each other, after any answers.
HistoryInv ==
    TypeOK /\ OneMode /\ MissesAreEarned /\ FailingStreak

\* A record leaves, other than by a switch of mode, only on the last of
\* Patience consecutive trusted answers that do not name it.
PatientRemoval ==
    [][\A f \in Family :
        trend'[f].rolling = trend[f].rolling =>
            \A k \in active[f] \ active'[f] : absent'[f][k] >= Patience]_vars

\* Settling is slower than rolling (Options.SteadyAfter): a family starts to
\* roll only after RollAfter changed answers counted since it last stopped,
\* and stops only once the same answer came SteadyAfter times in a row.
Hysteresis ==
    [][\A f \in Family :
        /\ ~trend[f].rolling /\ trend'[f].rolling => moved'[f] >= RollAfter
        /\ trend[f].rolling /\ ~trend'[f].rolling => settled'[f] = steadyAfter]_vars

\* The feed tells what happened to the history: without a mode switch
\* exactly the records that appeared and vanished, with one the switch and
\* never the re-recording behind it.  The run row counts as many changes as
\* the feed was given, though it counts them from the plan.
FeedTellsHistory ==
    [][/\ changes' = Cardinality(feed')
       /\ \A f \in Family :
            LET told == {e[2] : e \in {x \in feed' : x[1] = f}}
            IN  told =
                  IF trend'[f].rolling # trend[f].rolling
                  THEN {[kind |-> IF trend'[f].rolling THEN "ips_rolling" ELSE "ips_stable",
                         key |-> Nowhere]}
                  ELSE {[kind |-> "added", key |-> k] : k \in active'[f] \ active[f]}
                         \cup {[kind |-> "removed", key |-> k] :
                                  k \in active[f] \ active'[f]}]_vars

\* The history implements what it promises (HistoryContract).
Contract == INSTANCE HistoryContract WITH
    open     <- active,
    rolling  <- [f \in Family |-> trend[f].rolling],
    unnamed  <- [f \in Family |-> [k \in Key |->
                    IF absent[f][k] < Patience THEN absent[f][k] ELSE Patience]],
    Patience <- Patience

KeepsContract == Contract!Spec

\* A family whose answer settles is in the end recorded exactly, whatever
\* it went through before: rolling, or waiting for a prefix to roll onto.
SettledIsRecorded ==
    \A f \in Family : \A s \in SUBSET Addr :
        <>[](trend[f].fp = s) => <>[](active[f] = s)

=============================================================================
