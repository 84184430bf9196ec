------------------------------- MODULE Registry -------------------------------
(***************************************************************************)
(* The life of one name in the registry: added, removed and made a control *)
(* by hand; resolved by collecting passes that back off while it fails;    *)
(* probed; and retired by the sweep that ends a pass when it has never     *)
(* worked.  The sweep reads with two queries and disables in a transaction *)
(* of its own.  Instants are kept as ages, which stop counting at the      *)
(* longest time any comparison asks about.                                 *)
(* Source: internal/store/trackers.go, internal/store/records.go,          *)
(* internal/collector/collector.go.                                        *)
(***************************************************************************)
EXTENDS Integers, Reach

CONSTANTS
    Pair,         \* the pairs of endpoint and address there are to probe
    ProbeRounds,  \* what a round may store: a verdict for each pair it has
    BackoffAfter, \* --backoff-after, in passes
    Day,          \* backoffInterval, in ticks
    RetireAfter   \* --retire-after, in ticks

ASSUME RegistryAssumption ==
    /\ BackoffAfter \in Nat \ {0}
    /\ Day \in Nat \ {0}
    /\ RetireAfter \in Nat \ {0}
    /\ \A said \in ProbeRounds :
         /\ DOMAIN said \subseteq Pair
         /\ \A k \in DOMAIN said : said[k] \in {"live", "dead", "unknown"}

VARIABLES
    known,     \* the name has a row in trackers
    enabled, control,
    fails,     \* resolve_fails, up to BackoffAfter
    failing,   \* the age of failing_since, Never when NULL
    checked,   \* the age of last_checked_at, Never when NULL
    records,   \* the name has rows in ip_records, active or not
    rows,      \* probes: the verdict of each pair and the age of its since
    reach,
    answered,  \* last_live_at is not NULL
    collector, \* where the collecting pass is, with what it has read
    prober     \* where the probing pass is, with what it has read

\* Observers.
VARIABLES
    standing,  \* ticks since the name was last added
    silence,   \* ticks in which every stored round rolled up to dead, or Never
    heard,     \* some stored verdict was ever live
    torn       \* some probing pass ended between its two transactions

tracker == <<known, enabled, control, fails, failing, checked, records>>
measure == <<rows, reach, answered>>
observers == <<standing, silence, heard, torn>>
vars == <<tracker, measure, collector, prober, observers>>

Never == -1
Longest == IF Day > RetireAfter THEN Day ELSE RetireAfter
Age == Never .. Longest

\* One tick later.
Older(age) ==
    IF age = Never \/ age = Longest THEN age ELSE age + 1

Idle == [at |-> "idle"]

\* A tick is long and the two transactions of a probing pass follow each other
\* at once, so they fall into the same one.
Tick ==
    /\ prober.at # "probed"
    /\ failing' = Older(failing)
    /\ checked' = Older(checked)
    /\ rows' = [k \in DOMAIN rows |-> [rows[k] EXCEPT !.age = Older(@)]]
    /\ standing' = Older(standing)
    /\ silence' = Older(silence)
    /\ UNCHANGED <<known, enabled, control, fails, records, reach, answered,
                   collector, prober, heard, torn>>

-----------------------------------------------------------------------------
(* By hand: add, rm, control.                                               *)

AddTrackerKeepingSince ==   \* Mutant: only the count starts over.
    /\ ~known \/ ~enabled
    /\ known' = TRUE
    /\ enabled' = TRUE
    /\ fails' = 0
    /\ standing' = 0
    /\ UNCHANGED <<control, failing, checked, records, measure, collector,
                   prober, silence, heard, torn>>

\* AddTracker: a new row, or a removed name brought back with its history and
\* a failing streak that starts over.  Adding an enabled name changes nothing.
AddTracker ==
    /\ ~known \/ ~enabled
    /\ known' = TRUE
    /\ enabled' = TRUE
    /\ fails' = 0
    /\ failing' = Never
    /\ standing' = 0
    /\ UNCHANGED <<control, checked, records, measure, collector, prober, silence,
                   heard, torn>>

\* RemoveTracker without purge.
RemoveTracker ==
    /\ known /\ enabled
    /\ enabled' = FALSE
    /\ UNCHANGED <<known, control, fails, failing, checked, records, measure,
                   collector, prober, observers>>

\* SetControl, either way.
SetControl ==
    /\ known
    /\ control' = ~control
    /\ UNCHANGED <<known, enabled, fails, failing, checked, records, measure,
                   collector, prober, observers>>

-----------------------------------------------------------------------------
(* A collecting pass.                                                       *)

\* ListTrackers(false), and ProbeTargets after it.
Listed == known /\ enabled /\ ~control

DueByStreak == fails < BackoffAfter   \* Mutant: no daily lookup.
\* due: a name backed off is looked up once a day.
Due == fails < BackoffAfter \/ checked = Never \/ checked >= Day

\* RunOnce: the list of the names due now.
Begin ==
    /\ collector.at = "idle"
    /\ collector' = [at |-> IF Listed /\ Due THEN "resolving" ELSE "collected"]
    /\ UNCHANGED <<tracker, measure, prober, observers>>

CollectRestarting(ok) ==   \* Mutant: failing_since is the last failure.
    /\ collector.at = "resolving"
    /\ fails' = IF ok THEN 0 ELSE IF fails < BackoffAfter THEN fails + 1 ELSE fails
    /\ failing' = IF ok THEN Never ELSE 0
    /\ checked' = 0
    /\ records' = (records \/ ok)
    /\ collector' = [at |-> "collected"]
    /\ UNCHANGED <<known, enabled, control, measure, prober, observers>>

\* collectOne: both lookups and ApplyPlan.  An answer with an address ends the
\* failing streak, anything else extends it.  The row is written by id,
\* whatever has become of the name meanwhile.
Collect(ok) ==
    /\ collector.at = "resolving"
    /\ fails' = IF ok THEN 0 ELSE IF fails < BackoffAfter THEN fails + 1 ELSE fails
    /\ failing' = IF ok THEN Never ELSE IF failing = Never THEN 0 ELSE failing
    /\ checked' = 0
    /\ records' = (records \/ ok)
    /\ collector' = [at |-> "collected"]
    /\ UNCHANGED <<known, enabled, control, measure, prober, observers>>

\* RetireStale, first query.
NeverResolved == Listed /\ failing >= RetireAfter /\ ~records

\* Mutant: the oldest verdict decides.
NeverAnsweredSomewhere ==
    /\ Listed /\ reach = "dead" /\ ~answered
    /\ \E k \in DOMAIN rows : rows[k].age >= RetireAfter
\* RetireStale, second query: MAX(p.since) over the rows there are.
NeverAnswered ==
    /\ Listed /\ reach = "dead" /\ ~answered
    /\ DOMAIN rows # {}
    /\ \A k \in DOMAIN rows : rows[k].age >= RetireAfter

\* What was true when a query picked the name, for the observers.
Picked(reason) ==
    [reason |-> reason, standing |-> standing, silence |-> silence,
     heard |-> heard, torn |-> torn \/ prober.at = "probed",
     records |-> records]

SweepResolved ==
    /\ collector.at = "collected"
    /\ collector' = [at |-> "sweeping",
                     stale |-> IF NeverResolved THEN {Picked("never resolved")} ELSE {}]
    /\ UNCHANGED <<tracker, measure, prober, observers>>

SweepAnswered ==
    /\ collector.at = "sweeping"
    /\ LET silent == IF NeverAnswered THEN {Picked("never answered")} ELSE {}
           stale  == collector.stale \cup silent
       IN  collector' = IF stale = {} THEN Idle ELSE [at |-> "retiring", stale |-> stale]
    /\ UNCHANGED <<tracker, measure, prober, observers>>

\* RetireStale, the transaction: disabled by id, with no second look.
Retire ==
    /\ collector.at = "retiring"
    /\ enabled' = FALSE
    /\ collector' = Idle
    /\ UNCHANGED <<known, control, fails, failing, checked, records, measure,
                   prober, observers>>

-----------------------------------------------------------------------------
(* A probing pass.                                                          *)

\* ProbeTargets and the reads of probeOne; addresses to probe come from
\* records.
Target ==
    /\ prober.at = "idle"
    /\ Listed /\ records
    /\ prober' = [at |-> "probing"]
    /\ UNCHANGED <<tracker, measure, collector, observers>>

PutRestarting(said) ==   \* Mutant: every round starts the verdict over.
    /\ prober.at = "probing"
    /\ rows' = [k \in DOMAIN said |-> [result |-> said[k], age |-> 0]]
    /\ prober' = [at |-> "probed",
                  reach |-> RollUp({said[k] : k \in DOMAIN said})]
    /\ heard' = (heard \/ \E k \in DOMAIN said : said[k] = "live")
    /\ silence' = IF RollUp({said[k] : k \in DOMAIN said}) # "dead" THEN Never
                  ELSE IF silence = Never THEN 0 ELSE silence
    /\ UNCHANGED <<tracker, reach, answered, collector, standing, torn>>

\* PutProbes: a verdict that stands keeps its since.
Put(said) ==
    /\ prober.at = "probing"
    /\ rows' = [k \in DOMAIN said |->
                  [result |-> said[k],
                   age |-> IF k \in DOMAIN rows /\ rows[k].result = said[k]
                           THEN rows[k].age ELSE 0]]
    /\ prober' = [at |-> "probed",
                  reach |-> RollUp({said[k] : k \in DOMAIN said})]
    /\ heard' = (heard \/ \E k \in DOMAIN said : said[k] = "live")
    /\ silence' = IF RollUp({said[k] : k \in DOMAIN said}) # "dead" THEN Never
                  ELSE IF silence = Never THEN 0 ELSE silence
    /\ UNCHANGED <<tracker, reach, answered, collector, standing, torn>>

SetReach ==
    /\ prober.at = "probed"
    /\ reach' = prober.reach
    /\ answered' = (answered \/ Answers(prober.reach))
    /\ prober' = Idle
    /\ UNCHANGED <<tracker, rows, collector, observers>>

\* A pass is cancelled or fails.
Stop ==
    /\ \/ collector.at # "idle" /\ collector' = Idle /\ UNCHANGED <<prober, torn>>
       \/ /\ prober.at # "idle" /\ prober' = Idle
          /\ torn' = (torn \/ prober.at = "probed")
          /\ UNCHANGED collector
    /\ UNCHANGED <<tracker, measure, standing, silence, heard>>

-----------------------------------------------------------------------------

Init ==
    /\ known = FALSE /\ enabled = FALSE /\ control = FALSE
    /\ fails = 0 /\ failing = Never /\ checked = Never
    /\ records = FALSE
    /\ rows = [k \in {} |-> 0]
    /\ reach = "" /\ answered = FALSE
    /\ collector = Idle /\ prober = Idle
    /\ standing = Never /\ silence = Never /\ heard = FALSE /\ torn = FALSE

ByHand == AddTracker \/ RemoveTracker \/ SetControl
Collecting ==
    \/ Begin \/ SweepResolved \/ SweepAnswered \/ Retire
    \/ \E ok \in BOOLEAN : Collect(ok)
Probing == Target \/ SetReach \/ \E said \in ProbeRounds : Put(said)

Work == Tick \/ ByHand \/ Collecting \/ Probing
Next == Work \/ Stop

Spec == Init /\ [][Next]_vars

\* serve runs both loops until it is stopped: time passes whatever they do, and
\* a pass that can go on, or begin, does.  No step by hand is owed.
FairSpec == Spec /\ SF_vars(Tick) /\ WF_vars(Collecting) /\ WF_vars(Probing)

-----------------------------------------------------------------------------
(* Properties.                                                              *)

TypeOK ==
    /\ {known, enabled, control, records, answered, heard, torn} \subseteq BOOLEAN
    /\ fails \in 0 .. BackoffAfter
    /\ {failing, checked, standing, silence} \subseteq Age
    /\ DOMAIN rows \subseteq Pair
    /\ \A k \in DOMAIN rows :
         rows[k] \in [result : {"live", "dead", "unknown"}, age : 0 .. Longest]
    /\ reach \in {"", "live", "partial", "dead", "unknown"}
    /\ collector.at \in {"idle", "resolving", "collected", "sweeping", "retiring"}
    /\ prober.at \in {"idle", "probing", "probed"}

Stale == IF collector.at \in {"sweeping", "retiring"} THEN collector.stale ELSE {}

\* Backoff and retirement are read off the same streak: the two columns agree
\* on whether there is one.
StreakAgrees == (fails = 0) = (failing = Never)

RegistryInv == TypeOK /\ StreakAgrees

\* What the sweep picks has never worked on the axis it names, and is picked
\* for a month of silence rather than a month of being on the list; unless a
\* probing pass is, or was left for good, between storing verdicts and rolling
\* them up.
PickedHasNeverWorked ==
    \A s \in Stale :
        /\ s.reason = "never resolved" => ~s.records
        /\ s.reason = "never answered" => s.torn \/ (~s.heard /\ s.silence >= RetireAfter)

\* A name that never resolved is not picked before it has stood for RetireAfter
\* since it was added, or added again.  A silent one may be: its verdicts, and
\* their age, outlive a removal.  Nor is what was picked looked at again: a name
\* removed and added back between the query and Retire is retired all the same.
FreshMonth ==
    \A s \in Stale : s.reason = "never resolved" => s.standing >= RetireAfter

\* Passes are in the end no longer cut short.
Running == <>[][Work]_vars

\* A listed name is looked up again and again, backed off or not.
TriedForever ==
    Running /\ <>[]Listed => []<><<\E ok \in BOOLEAN : Collect(ok)>>_vars

\* A name that never works does not stay listed for ever: neither one that
\* never resolves, nor one whose probes only ever say dead.  The youngest
\* verdict counts, so one whose addresses keep coming and going may.
Silent ==
    /\ ~answered /\ reach = "dead"
    /\ DOMAIN rows # {} /\ \A k \in DOMAIN rows : rows[k].result = "dead"
SamePairs == <>[][DOMAIN rows' = DOMAIN rows]_vars
NeverWorkingIsRetired ==
    Running /\ SamePairs => ~<>[](Listed /\ (~records \/ Silent))

=============================================================================
