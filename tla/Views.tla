--------------------------------- MODULE Views ---------------------------------
(***************************************************************************)
(* What the pages and the commands read: counts and rollups over the       *)
(* tables at one moment.  A table is a set of rows, and every operator is  *)
(* one query with the folding done in Go after it; a page puts several of  *)
(* them together, each with a moment of its own.                           *)
(* Source: internal/store/query.go, store.go, probes.go, ipinfo.go,        *)
(* records.go, trackers.go.                                                *)
(***************************************************************************)
EXTENDS Integers, FiniteSets

CONSTANTS
    Software(_),        \* the implementation a signature names, or ""
    ServerSoftware(_)   \* the implementation a Server header names, or ""

Reaches == {"unknown", "live", "partial", "dead"}

-----------------------------------------------------------------------------
(* Trackers: id, name, enabled, control, parked, status, reach ("" before a *)
(* first probe), probed and lastLive (when the name last answered, 0 never).*)

trackerScope(trackers) == {t \in trackers : t.enabled /\ ~t.control /\ ~t.parked}
enabledTrackers(trackers) == {t \in trackers : t.enabled /\ ~t.control}
parkedTrackers(trackers) == {t \in enabledTrackers(trackers) : t.parked}
deadTrackers(trackers) == {t \in trackerScope(trackers) : t.reach = "dead"}

\* ReachSummary: a name never probed counts as unknown.
ReachOf(t) == IF t.reach = "" THEN "unknown" ELSE t.reach
ReachSummary(trackers) ==
    [r \in Reaches |-> Cardinality({t \in trackerScope(trackers) : ReachOf(t) = r})]

StatusOf(t) == IF t.status = "" THEN "unchecked" ELSE t.status
ByStatus(trackers, Statuses) ==
    [s \in Statuses |-> Cardinality({t \in enabledTrackers(trackers) : StatusOf(t) = s})]

\* Records: tracker, ip (an address, or a prefix where isPrefix), family,
\* active and lastSeen.
activeIPs(records) == {r.ip : r \in {x \in records : x.active /\ ~x.isPrefix}}

\* The first query of Stats.
Stats(trackers, records, changes) ==
    [Trackers        |-> Cardinality({t \in trackers : ~t.control}),
     EnabledTrackers |-> Cardinality(enabledTrackers(trackers)),
     ActiveIPs       |-> Cardinality(activeIPs(records)),
     ActiveIPRecords |-> Cardinality({r \in records : r.active /\ ~r.isPrefix}),
     TotalIPs        |-> Cardinality({r.ip : r \in {x \in records : ~x.isPrefix}}),
     Changes         |-> Cardinality(changes),
     Parked          |-> Cardinality(parkedTrackers(trackers)),
     NeverAnswered   |-> Cardinality({t \in deadTrackers(trackers) : t.lastLive = 0}),
     WentQuiet       |-> Cardinality({t \in deadTrackers(trackers) : t.lastLive # 0})]

-----------------------------------------------------------------------------
(* Probing: endpoints have id, tracker and retired; a verdict has endpoint, *)
(* signature, kind and server.  A shape is the set of the keys of a reply,  *)
(* a failure a set of one text, and no signature the empty set.             *)

InUse(trackers, endpoints) ==
    {e \in endpoints : ~e.retired /\ \E t \in trackerScope(trackers) : t.id = e.tracker}

conditional ==
    {"peers", "peers6", "downloaded", "min interval", "warning message",
     "external ip", "tracker id"}

groupSignature(sig, kind) ==
    IF kind # "shape" \/ sig \subseteq conditional THEN sig ELSE sig \ conditional

\* What a verdict discloses, with who and through what it was disclosed.
Disclosed(trackers, endpoints, probes) ==
    {[tracker |-> x[1].tracker, endpoint |-> x[1].id,
      sig |-> x[2].sig, kind |-> x[2].kind, server |-> x[2].server] :
        x \in {y \in endpoints \X probes :
            /\ y[1].id = y[2].endpoint /\ y[2].sig # {}
            /\ \E t \in trackerScope(trackers) : t.id = y[1].tracker}}

softwareName(d) ==
    LET name == Software(groupSignature(d.sig, d.kind))
    IN IF name # "" THEN name ELSE ServerSoftware(d.server)

fingerprinted(disclosed) == {d.tracker : d \in disclosed}
named(disclosed) == {d.tracker : d \in {x \in disclosed : softwareName(x) # ""}}

ProbeCoverage(trackers, records, endpoints, probes) ==
    LET in == trackerScope(trackers)
        disclosed == Disclosed(trackers, endpoints, probes)
    IN [Trackers      |-> Cardinality(in),
        WithEndpoints |-> Cardinality({e.tracker : e \in InUse(trackers, endpoints)}),
        Endpoints     |-> Cardinality(InUse(trackers, endpoints)),
        Probed        |-> Cardinality({t \in in : t.probed}),
        NeverResolved |-> Cardinality({t \in in : ~\E r \in records : r.tracker = t.id}),
        Parked        |-> Cardinality(parkedTrackers(trackers)),
        Fingerprinted |-> Cardinality(fingerprinted(disclosed)),
        Named         |-> Cardinality(named(disclosed))]

\* SoftwareStats: one row for all that answers alike.  Each keeps the trackers
\* and endpoints it counts, and the raw signatures folded into it.
Alike(d) == <<d.kind, groupSignature(d.sig, d.kind)>>
Cluster(disclosed, key) ==
    LET of == {d \in disclosed : Alike(d) = key}
    IN [key       |-> key,
        name      |-> Software(key[2]),
        trackers  |-> {d.tracker : d \in of},
        endpoints |-> {d.endpoint : d \in of},
        variants  |-> {d.sig : d \in of} \ {key[2]}]
Clusters(disclosed) == {Cluster(disclosed, Alike(d)) : d \in disclosed}

\* The first limit rows, those of more trackers first; the order among equals
\* is by name and left open.
Tops(rows, limit) ==
    {top \in SUBSET rows :
        /\ Cardinality(top) <= limit
        /\ top = rows \/ Cardinality(top) = limit
        /\ \A a \in top, b \in rows \ top : Cardinality(a.trackers) >= Cardinality(b.trackers)}

-----------------------------------------------------------------------------
(* Placement: an info has ip, prefix, asn (0 unknown), holder, rir and      *)
(* country.                                                                 *)

recordInfoJoin(records, infos) ==
    {x \in records \X infos :
        IF x[1].isPrefix THEN x[2].prefix = x[1].ip ELSE x[2].ip = x[1].ip}

listedScope(trackers, joined) ==
    {x \in joined : x[1].active /\ \E t \in trackerScope(trackers) : t.id = x[1].tracker}

NetworkStat(key, rows) ==
    [key |-> key, trackers |-> {x[1].tracker : x \in rows}, ips |-> {x[1].ip : x \in rows}]
RollUpBy(key(_), rows) == {NetworkStat(key(x[2]), {y \in rows : key(y[2]) = key(x[2])}) : x \in rows}

\* By AS, by registry and by country, each of which may be unknown.
asnOf(i) == i.asn
rirOf(i) == i.rir
countryOf(i) == i.country
Networks(trackers, records, infos) ==
    RollUpBy(asnOf, listedScope(trackers, recordInfoJoin(records, infos)))
ByRIR(trackers, records, infos) ==
    RollUpBy(rirOf, listedScope(trackers, recordInfoJoin(records, infos)))
ByCountry(trackers, records, infos) ==
    RollUpBy(countryOf, listedScope(trackers, recordInfoJoin(records, infos)))

\* Coverage joins on the address alone.
enrichedIPs(records, infos) == {r.ip : r \in {x \in records : x.active /\ \E i \in infos : i.ip = x.ip}}
placedIPs(records, infos) ==
    {r.ip : r \in {x \in records : x.active /\ \E i \in infos : i.ip = x.ip /\ i.asn # 0}}
Coverage(records, infos) ==
    [ActiveIPs |-> Cardinality(activeIPs(records)),
     Enriched  |-> Cardinality(enrichedIPs(records, infos)),
     WithASN   |-> Cardinality(placedIPs(records, infos))]

\* TrackerNetworks, of one tracker.
NetworkRef(i) == [ASN |-> i.asn, Holder |-> i.holder, RIR |-> i.rir, Country |-> i.country]
TrackerNetworks(id, records, infos) ==
    {NetworkRef(x[2]) : x \in {y \in recordInfoJoin(records, infos) : y[1].active /\ y[1].tracker = id}}

-----------------------------------------------------------------------------
(* Shared addresses.                                                        *)

\* The names on an address now or since a while ago, and those on it now.
NamesOn(ip, trackers, records, since) ==
    {t.name : t \in {x \in trackerScope(trackers) : \E r \in records :
        r.tracker = x.id /\ r.ip = ip /\ ~r.isPrefix /\ (r.active \/ r.lastSeen >= since)}}
NamesOnNow(ip, trackers, records) ==
    {t.name : t \in {x \in trackerScope(trackers) : \E r \in records :
        r.tracker = x.id /\ r.ip = ip /\ ~r.isPrefix /\ r.active}}

SharedAddress(ip, trackers, records, since) ==
    [ip |-> ip, trackers |-> NamesOn(ip, trackers, records, since),
     active |-> Cardinality(NamesOnNow(ip, trackers, records)) > 1]

\* SharedAddresses, before Tops.
SharedAddresses(trackers, records, since) ==
    {s \in {SharedAddress(r.ip, trackers, records, since) : r \in records} : Cardinality(s.trackers) > 1}

-----------------------------------------------------------------------------
(* The list view: a row for every tracker listed, with what it resolves to. *)

TrackerView(t, records, rolling, infos) ==
    [tracker  |-> t,
     IPv4     |-> {r.ip : r \in {x \in records : x.active /\ x.tracker = t.id /\ x.family # 6}},
     IPv6     |-> {r.ip : r \in {x \in records : x.active /\ x.tracker = t.id /\ x.family = 6}},
     Rolling  |-> {f \in {4, 6} : <<t.id, f>> \in rolling},
     Networks |-> TrackerNetworks(t.id, records, infos)]
ListTrackerViews(trackers, records, rolling, infos, includeDisabled) ==
    {TrackerView(t, records, rolling, infos) :
        t \in {x \in trackers : ~x.control /\ (x.enabled \/ includeDisabled)}}

=============================================================================
