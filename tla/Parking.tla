-------------------------------- MODULE Parking --------------------------------
(***************************************************************************)
(* Parked names: a control is a name known to be no tracker, so what it    *)
(* answers with is a parking address, and a name that answers with nothing *)
(* else is parked.  A collecting pass lists the names, asks the controls,  *)
(* and then judges each name by the answers of its own lookups.            *)
(* Source: internal/collector/collector.go, internal/store/trackers.go,    *)
(* internal/cli/cli.go.                                                    *)
(***************************************************************************)
EXTENDS Integers, FiniteSets

CONSTANTS
    Name,       \* the names that have a row in trackers
    Ip,         \* the addresses they may answer with
    Family,     \* the address families, each looked up with a query
    FamilyOf,   \* the family of each address
    Collector   \* processes that collect

ASSUME ParkingAssumption ==
    /\ FamilyOf \in [Ip -> Family]

VARIABLES
    enabled, control, parked,   \* columns of trackers: the names that have them
    answers,   \* the world: the addresses each name has in DNS
    pass,      \* where each collector is, with what it has read and heard
    cli        \* the names trackerd parked --disable has still to remove

\* Observers.
VARIABLES
    news,      \* parked entries of each name since it was last not parked
    clean      \* the collectors whose pass was told the truth so far

row == <<enabled, control, parked>>
parkingVars == <<row, answers, pass, cli, news, clean>>

Idle == [at |-> "idle"]

\* ListTrackers(false) and ListControls.
Listed == enabled \ control
Controls == enabled \cap control

\* What looking a name up may bring: a family whose query fails has none.
Heard(n) ==
    {{ip \in answers[n] : FamilyOf[ip] \in fs} : fs \in SUBSET Family}

-----------------------------------------------------------------------------
(* A pass.                                                                  *)

\* RunOnce: the names due; a name backed off is not among them.
Begin(c) ==
    /\ pass[c].at = "idle"
    /\ \E due \in SUBSET Listed :
         pass' = [pass EXCEPT ![c] = [at |-> "listed", due |-> due]]
    /\ clean' = clean \cup {c}
    /\ UNCHANGED <<row, answers, cli, news>>

\* resolveControls: what the controls answer with, all of it heard or not.
ResolveControls(c) ==
    /\ pass[c].at = "listed"
    /\ \E heard \in [Controls -> SUBSET Ip] :
         /\ \A k \in Controls : heard[k] \in Heard(k)
         /\ pass' = [pass EXCEPT ![c] =
                [at |-> "working", left |-> pass[c].due,
                 obs |-> [n \in {} |-> {}],
                 parking |-> UNION {heard[k] : k \in Controls}]]
         /\ clean' = IF heard = [k \in Controls |-> answers[k]] THEN clean ELSE clean \ {c}
    /\ UNCHANGED <<row, answers, cli, news>>

\* collectOne of a worker: both lookups.
Resolve(c, n) ==
    /\ pass[c].at = "working" /\ n \in pass[c].left
    /\ \E heard \in Heard(n) :
         /\ pass' = [pass EXCEPT
                ![c].left = @ \ {n},
                ![c].obs = [m \in DOMAIN @ \cup {n} |-> IF m = n THEN heard ELSE @[m]]]
         /\ clean' = IF heard = answers[n] THEN clean ELSE clean \ {c}
    /\ UNCHANGED <<row, answers, cli, news>>

SetParkedAgain(n, is) ==   \* Mutant: a flag that stands is news again.
    /\ parked' = IF is THEN parked \cup {n} ELSE parked \ {n}
    /\ news' = [news EXCEPT ![n] = IF ~is THEN 0 ELSE @ + 1]

\* SetParked: only a flag that moves is written, and only parking is news.
SetParked(n, is) ==
    /\ parked' = IF is THEN parked \cup {n} ELSE parked \ {n}
    /\ news' = [news EXCEPT ![n] = IF ~is THEN 0 ELSE IF n \in parked THEN @ ELSE @ + 1]

JudgedByAny(addrs, parking) == addrs \cap parking # {}   \* Mutant: one will do.
\* markParked: the verdict on an observation.
Judged(addrs, parking) == addrs # {} /\ addrs \subseteq parking

\* markParked: without a parking address, or an address of the name, nothing
\* is said either way.
MarkParked(c, n) ==
    LET here  == pass[c]
        addrs == here.obs[n]
    IN  /\ here.at = "working" /\ n \in DOMAIN here.obs
        /\ IF here.parking = {} \/ addrs = {} THEN UNCHANGED <<parked, news>>
           ELSE SetParked(n, Judged(addrs, here.parking))
        /\ pass' = [pass EXCEPT ![c].obs = [m \in DOMAIN @ \ {n} |-> @[m]]]
        /\ UNCHANGED <<enabled, control, answers, cli, clean>>

\* collectOne failed before it came to that.
Fail(c, n) ==
    /\ pass[c].at = "working" /\ n \in DOMAIN pass[c].obs
    /\ pass' = [pass EXCEPT ![c].obs = [m \in DOMAIN @ \ {n} |-> @[m]]]
    /\ UNCHANGED <<row, answers, cli, news, clean>>

\* RunOnce: every name it handed out has been dealt with.
Finish(c) ==
    /\ pass[c].at = "working" /\ pass[c].left = {} /\ DOMAIN pass[c].obs = {}
    /\ pass' = [pass EXCEPT ![c] = Idle]
    /\ UNCHANGED <<row, answers, cli, news, clean>>

\* The pass is cancelled, or the process stops.
Stop(c) ==
    /\ pass[c].at # "idle"
    /\ pass' = [pass EXCEPT ![c] = Idle]
    /\ UNCHANGED <<row, answers, cli, news, clean>>

-----------------------------------------------------------------------------
(* By hand, and the world.                                                  *)

\* add: a name taken off the list comes back with its flags.
Add(n) ==
    /\ n \notin enabled
    /\ enabled' = enabled \cup {n}
    /\ UNCHANGED <<control, parked, answers, pass, cli, news>>

\* trackerd control, and --unset.
SetControl(n) ==
    /\ control' = IF n \in control THEN control \ {n} ELSE control \cup {n}
    /\ UNCHANGED <<enabled, parked, answers, pass, cli, news>>

\* trackerd parked --disable: ListParked, then a RemoveTracker for each.
ListParked ==
    /\ cli = {}
    /\ cli' = parked \cap Listed
    /\ UNCHANGED <<row, answers, pass, news>>
Remove(n) ==
    /\ n \in cli
    /\ cli' = cli \ {n}
    /\ enabled' = enabled \ {n}
    /\ UNCHANGED <<control, parked, answers, pass, news>>

\* A domain lapses, is bought, or is pointed elsewhere.
Move(n, addrs) ==
    /\ addrs # answers[n]
    /\ answers' = [answers EXCEPT ![n] = addrs]
    /\ UNCHANGED <<row, pass, cli, news>>

\* What a pass was told may be untrue once the controls or the world change.
Outside ==
    /\ \/ \E n \in Name : Add(n) \/ SetControl(n) \/ Remove(n)
       \/ \E n \in Name : \E addrs \in SUBSET Ip : Move(n, addrs)
       \/ ListParked
    /\ clean' = IF UNCHANGED <<enabled, control, answers>> THEN clean ELSE {}

-----------------------------------------------------------------------------

ParkingInit ==
    /\ enabled = Name /\ control = {} /\ parked = {}
    /\ answers \in [Name -> SUBSET Ip]
    /\ pass = [c \in Collector |-> Idle]
    /\ cli = {}
    /\ news = [n \in Name |-> 0]
    /\ clean = {}

Collect(c) ==
    \/ Begin(c) \/ ResolveControls(c) \/ Finish(c)
    \/ \E n \in Name : Resolve(c, n) \/ MarkParked(c, n) \/ Fail(c, n)

ParkingNext == Outside \/ \E c \in Collector : Collect(c) \/ Stop(c)

ParkingSpec == ParkingInit /\ [][ParkingNext]_parkingVars

-----------------------------------------------------------------------------
(* Properties.                                                              *)

ParkingTypeOK ==
    /\ {enabled, control, parked, cli} \subseteq SUBSET Name
    /\ answers \in [Name -> SUBSET Ip]
    /\ news \in [Name -> 0 .. 1]
    /\ clean \subseteq Collector
    /\ \A c \in Collector : pass[c].at \in {"idle", "listed", "working"}

\* Only the transition into parked is news, whatever passes meet on a name:
\* the feed has one entry for every spell of parking.
NewsInv == ParkingTypeOK /\ \A n \in Name : news[n] = IF n \in parked THEN 1 ELSE 0

\* A name is parked when every address it answers with is one that a control
\* answers with: so it is after a pass judged it whose lookups all succeeded,
\* while neither the names nor what they answer with changed.
Parking(n) == answers[n] # {} /\ answers[n] \subseteq UNION {answers[k] : k \in Controls}
VerdictIsTrue ==
    [][\A c \in clean : \A n \in Name :
        MarkParked(c, n) /\ answers[n] # {} /\ (\E k \in Controls : answers[k] # {})
            => (n \in parked') = Parking(n)]_parkingVars

=============================================================================
