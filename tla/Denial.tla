-------------------------------- MODULE Denial --------------------------------
(***************************************************************************)
(* The collector and the probers meet over one tracker: the collector      *)
(* reads the BEP 34 record the name publishes, adopts the UDP endpoints it *)
(* names, flags a denying name and closes its probe intervals, each in a   *)
(* transaction of its own, while passes of the probers are under way.      *)
(* Source: internal/collector/collector.go, internal/store/trackers.go,    *)
(* internal/store/probes.go, internal/cli/cli.go (serve, two loops).       *)
(***************************************************************************)
EXTENDS Probing, BEP34

VARIABLES
    record,     \* trackers.bep34, as the place of its text, 0 for none
    adopted,    \* the UDP endpoints adopted from it
    collector   \* what checkBEP34 has left to do

\* Observers.
VARIABLE
    clean       \* "carried" once a denial was carried through that found no
                \* pass under way, "closing" on the way there; "adopted" once
                \* another record was read to its end

dvars == <<vars, record, adopted, collector, clean>>

denies == Denies(record)
AllIdle == \A p \in Prober : pass[p].at = "idle"
Done == [at |-> "idle"]

\* The places of a record whose endpoints are adopted here; a TCP port is left
\* to the probers (module Preferences).
UDP(n) == {i \in DOMAIN Named[n] : Named[n][i].proto = "UDP"}
First(places) == CHOOSE i \in places : \A j \in places : i <= j

\* SetBEP34's feed entry.
RecordEntry(was, now) ==
    CASE was = now -> ""
      [] was = 0 /\ now # 0 -> "bep34_added"
      [] was # 0 /\ now = 0 -> "bep34_removed"
      [] OTHER -> "bep34_changed"

ToDoForNews(now) ==   \* Mutant: a record known already is not adopted from.
    IF now = record THEN Done
    ELSE IF Denies(now) THEN [at |-> "clear"]
    ELSE IF UDP(now) # {} THEN [at |-> "adopting", left |-> UDP(now)] ELSE Done

\* What a pass has to do about a record.
ToDo(now) ==
    IF Denies(now) THEN IF now # record THEN [at |-> "clear"] ELSE Done
    ELSE IF UDP(now) # {} THEN [at |-> "adopting", left |-> UDP(now)] ELSE Done

\* checkBEP34 with an answered query, up to SetBEP34's commit.  A denial goes
\* on to stopProbing when it is news; the endpoints of any other record are
\* adopted, news or not.  A query that failed changes nothing.
Check(now) ==
    /\ collector = Done
    /\ now # record /\ Denies(now) => clock < MaxTime
    /\ record' = now
    /\ collector' = ToDo(now)
    /\ clean' = IF Denies(now) THEN IF denies THEN clean ELSE "no"
                ELSE IF collector' = Done THEN "adopted" ELSE "no"
    /\ news' = RecordEntry(record, now)
    /\ UNCHANGED <<clock, stored, pass, observers, adopted>>

\* AdoptEndpoint, one preference after the other.
Adopt ==
    /\ collector.at = "adopting"
    /\ LET place == First(collector.left)
           left  == collector.left \ {place}
       IN  /\ adopted' = adopted \cup {Named[record][place]}
           /\ collector' = IF left = {} THEN Done ELSE [at |-> "adopting", left |-> left]
    /\ clean' = IF collector' = Done THEN "adopted" ELSE "no"
    /\ news' = ""
    /\ UNCHANGED <<clock, stored, pass, observers, record>>

\* stopProbing, first half: ClearProbes closes every interval now.
Clear ==
    /\ collector.at = "clear"
    /\ clock' = clock + 1
    /\ PutProbes(NoRows, clock + 1)
    /\ collector' = [at |-> "forget"]
    /\ news' = ""
    /\ clean' = IF AllIdle THEN "closing" ELSE "no"
    /\ UNCHANGED <<reach, lastLive, pass, observers, record, adopted>>

\* stopProbing, second half: the reach becomes unknown.
Forget ==
    /\ collector.at = "forget"
    /\ SetReach("unknown", clock)
    /\ collector' = Done
    /\ clean' = IF clean = "closing" THEN "carried" ELSE clean
    /\ UNCHANGED <<clock, rows, history, pass, observers, record, adopted>>

\* The process stops, or one of the transactions fails.
Abandon ==
    /\ collector # Done
    /\ collector' = Done
    /\ clean' = "no"
    /\ news' = ""
    /\ UNCHANGED <<clock, stored, pass, observers, record, adopted>>

\* Mutant: denying names stay targets.
TargetsOfAll(p) == Targets(p)

\* ProbeTargets leaves a denying name out; a pass that has read its targets
\* goes on with them.
TargetsAllowed(p) == Targets(p) /\ ~denies

ProberNext ==
    /\ \/ \E p \in Prober :
            TargetsAllowed(p) \/ Read(p) \/ Store(p) \/ Roll(p)
       \/ Prune
    /\ UNCHANGED <<record, adopted, collector, clean>>

Proceed ==
    \/ ProberNext
    \/ \E now \in Record : Check(now)
    \/ Adopt \/ Clear \/ Forget

StopPass ==
    (\E p \in Prober : Stop(p)) /\ UNCHANGED <<record, adopted, collector, clean>>

DInit ==
    /\ Init
    /\ record = 0 /\ adopted = {} /\ collector = Done
    /\ clean = "no"

DNext == Proceed \/ Abandon \/ StopPass

DSpec == DInit /\ [][DNext]_dvars

-----------------------------------------------------------------------------
(* Properties.                                                              *)

\* A name whose denial was carried through with no pass under way stays out of
\* the present for as long as it denies: no open interval, no known reach,
\* whatever passes run meanwhile.
DenialHolds ==
    clean = "carried" /\ denies /\ collector = Done => rows = NoRows /\ reach = "unknown"

\* A record that names UDP endpoints is adopted from until it is done, also
\* when the pass that found it new was cut short: after any check that was
\* carried through, they are all endpoints of the name.
AdvertisedIsAdopted ==
    clean = "adopted" => \A i \in UDP(record) : Named[record][i] \in adopted

=============================================================================
