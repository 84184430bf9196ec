------------------------------ MODULE PagesProofs ------------------------------
(***************************************************************************)
(* What the pages owe each other and the tables they are made from, and    *)
(* what the change feed keeps of its entries, whatever the tables hold.    *)
(***************************************************************************)
EXTENDS Pages, Feed, FiniteSetTheorems, WellFoundedInduction, TLAPS

-----------------------------------------------------------------------------
(* Totals.                                                                  *)

\* What a row of trackers may hold.
IsTrackers(trackers) ==
    /\ IsFiniteSet(trackers)
    /\ \A t \in trackers :
         /\ t.enabled \in BOOLEAN /\ t.control \in BOOLEAN /\ t.parked \in BOOLEAN
         /\ t.reach \in Reaches \cup {""}

\* Counting two sets that share nothing.
LEMMA DisjointCardinality ==
    ASSUME NEW S, NEW T, IsFiniteSet(S), IsFiniteSet(T), S \cap T = {}
    PROVE  IsFiniteSet(S \cup T) /\ Cardinality(S \cup T) = Cardinality(S) + Cardinality(T)
  <1>1. Cardinality(S \cap T) = 0
    BY FS_EmptySet
  <1>2. Cardinality(S) \in Nat /\ Cardinality(T) \in Nat
    BY FS_CardinalityType
  <1>3. Cardinality(S \cup T) = Cardinality(S) + Cardinality(T) - Cardinality(S \cap T)
    BY FS_Union
  <1> QED
    BY <1>1, <1>2, <1>3, FS_Union

\* Two elements make more than one.
LEMMA TwoElements ==
    ASSUME NEW S, IsFiniteSet(S), NEW a \in S, NEW b \in S, a # b
    PROVE  Cardinality(S) > 1
  <1>1. IsFiniteSet({a}) /\ Cardinality({a}) = 1
    BY FS_Singleton
  <1>2. Cardinality({a}) <= Cardinality(S) /\ (Cardinality(S) = Cardinality({a}) => S = {a})
    BY FS_Subset
  <1>3. Cardinality(S) \in Nat
    BY FS_CardinalityType
  <1> QED
    BY <1>1, <1>2, <1>3

\* And more than one has two.
LEMMA TwoOf ==
    ASSUME NEW S, IsFiniteSet(S), Cardinality(S) > 1
    PROVE  \E a, b \in S : a # b
  <1>1. S # {}
    BY FS_EmptySet
  <1>2. PICK a : a \in S
    BY <1>1
  <1>3. S # {a}
    BY FS_Singleton
  <1> QED
    BY <1>2, <1>3

-----------------------------------------------------------------------------
(* Reachability.                                                            *)

\* Every name in scope is counted under one reachability, so that the totals of
\* the rollup add up to the trackers of the coverage, which are the enabled
\* ones less the parked; and the dead are those that never answered and those
\* that went quiet.
THEOREM ReachTotalsAddUp ==
    ASSUME NEW trackers, IsTrackers(trackers), NEW records, NEW news
    PROVE  LET reach == ReachSummary(trackers)
               stats == Stats(trackers, records, news)
           IN /\ reach["unknown"] + reach["live"] + reach["partial"] + reach["dead"]
                   = Cardinality(trackerScope(trackers))
              /\ Cardinality(trackerScope(trackers)) = stats.EnabledTrackers - stats.Parked
              /\ stats.NeverAnswered + stats.WentQuiet = reach["dead"]
  <1> DEFINE in == trackerScope(trackers)
             of(r) == {t \in in : ReachOf(t) = r}
  <1>1. IsFiniteSet(in) /\ \A t \in in : t.reach \in Reaches \cup {""}
    BY FS_Subset DEF trackerScope, IsTrackers
  <1>2. \A r : IsFiniteSet(of(r))
    BY <1>1, FS_Subset
  <1>3. in = of("unknown") \cup of("live") \cup of("partial") \cup of("dead")
    BY <1>1 DEF ReachOf, Reaches
  <1>4. /\ ReachSummary(trackers)["unknown"] = Cardinality(of("unknown"))
        /\ ReachSummary(trackers)["live"] = Cardinality(of("live"))
        /\ ReachSummary(trackers)["partial"] = Cardinality(of("partial"))
        /\ ReachSummary(trackers)["dead"] = Cardinality(of("dead"))
    BY DEF ReachSummary, Reaches
  <1>5. \A r, s : r # s => of(r) \cap of(s) = {}
    OBVIOUS
  <1>6. of("dead") = deadTrackers(trackers)
    BY <1>1 DEF deadTrackers, ReachOf
  <1> HIDE DEF of
  <1>7. Cardinality(in) = Cardinality(of("unknown")) + Cardinality(of("live"))
                            + Cardinality(of("partial")) + Cardinality(of("dead"))
    <2>1. /\ IsFiniteSet(of("unknown") \cup of("live"))
          /\ Cardinality(of("unknown") \cup of("live")) = Cardinality(of("unknown")) + Cardinality(of("live"))
      BY <1>2, <1>5, DisjointCardinality
    <2>2. /\ IsFiniteSet(of("partial") \cup of("dead"))
          /\ Cardinality(of("partial") \cup of("dead")) = Cardinality(of("partial")) + Cardinality(of("dead"))
      BY <1>2, <1>5, DisjointCardinality
    <2>3. (of("unknown") \cup of("live")) \cap (of("partial") \cup of("dead")) = {}
      <3>1. /\ of("unknown") \cap of("partial") = {} /\ of("unknown") \cap of("dead") = {}
            /\ of("live") \cap of("partial") = {} /\ of("live") \cap of("dead") = {}
        BY <1>5
      <3> QED BY <3>1
    <2>4. in = (of("unknown") \cup of("live")) \cup (of("partial") \cup of("dead"))
      BY <1>3
    <2>5. \A r : Cardinality(of(r)) \in Nat
      BY <1>2, FS_CardinalityType
    <2>6. Cardinality(in) = Cardinality(of("unknown") \cup of("live"))
                              + Cardinality(of("partial") \cup of("dead"))
      BY <2>1, <2>2, <2>3, <2>4, DisjointCardinality
    <2> QED
      BY <2>1, <2>2, <2>5, <2>6
  <1>8. Cardinality(in) = Cardinality(enabledTrackers(trackers)) - Cardinality(parkedTrackers(trackers))
    <2>1. IsFiniteSet(enabledTrackers(trackers)) /\ IsFiniteSet(parkedTrackers(trackers))
      BY FS_Subset DEF IsTrackers, enabledTrackers, parkedTrackers
    <2>2. /\ in \cap parkedTrackers(trackers) = {}
          /\ enabledTrackers(trackers) = in \cup parkedTrackers(trackers)
      BY DEF IsTrackers, trackerScope, enabledTrackers, parkedTrackers
    <2>3. Cardinality(enabledTrackers(trackers)) = Cardinality(in) + Cardinality(parkedTrackers(trackers))
      BY <1>1, <2>1, <2>2, DisjointCardinality
    <2>4. Cardinality(in) \in Nat /\ Cardinality(parkedTrackers(trackers)) \in Nat
      BY <1>1, <2>1, FS_CardinalityType
    <2> QED
      BY <2>3, <2>4
  <1>9. Cardinality({t \in deadTrackers(trackers) : t.lastLive = 0})
          + Cardinality({t \in deadTrackers(trackers) : t.lastLive # 0})
          = Cardinality(deadTrackers(trackers))
    <2> DEFINE never == {t \in deadTrackers(trackers) : t.lastLive = 0}
               quiet == {t \in deadTrackers(trackers) : t.lastLive # 0}
    <2>1. IsFiniteSet(deadTrackers(trackers))
      BY <1>2, <1>6
    <2>2. IsFiniteSet(never) /\ IsFiniteSet(quiet)
      BY <2>1, FS_Subset
    <2>3. never \cap quiet = {} /\ deadTrackers(trackers) = never \cup quiet
      OBVIOUS
    <2> QED
      BY <2>2, <2>3, DisjointCardinality
  <1> QED
    BY <1>4, <1>6, <1>7, <1>8, <1>9 DEF Stats

\* The statuses of a row, and the one of a name never looked up.
Statuses == {"ok", "nxdomain", "nodata", "servfail", "timeout", "error", "unchecked"}

\* Every enabled name is counted under one status, never looked up included, so
\* that the statuses of the dashboard add up to its enabled trackers.
THEOREM StatusTotalsAddUp ==
    ASSUME NEW trackers, IsTrackers(trackers), \A t \in trackers : t.status \in Statuses \cup {""}
    PROVE  LET n == ByStatus(trackers, Statuses) IN
           n["ok"] + n["nxdomain"] + n["nodata"] + n["servfail"] + n["timeout"] + n["error"]
             + n["unchecked"] = Cardinality(enabledTrackers(trackers))
  <1> DEFINE of(s) == {t \in enabledTrackers(trackers) : StatusOf(t) = s}
             n == ByStatus(trackers, Statuses)
             U2 == of("ok") \cup of("nxdomain")
             U3 == U2 \cup of("nodata")
             U4 == U3 \cup of("servfail")
             U5 == U4 \cup of("timeout")
             U6 == U5 \cup of("error")
             U7 == U6 \cup of("unchecked")
  <1>1. IsFiniteSet(enabledTrackers(trackers))
    BY FS_Subset DEF IsTrackers, enabledTrackers
  <1>2. \A s : IsFiniteSet(of(s)) /\ Cardinality(of(s)) \in Nat
    BY <1>1, FS_Subset, FS_CardinalityType
  <1>3. \A t \in enabledTrackers(trackers) : StatusOf(t) \in Statuses
    BY DEF enabledTrackers, StatusOf, Statuses
  <1>4. \A s \in Statuses : n[s] = Cardinality(of(s))
    BY DEF ByStatus
  <1>5. \A s, x : x \in of(s) <=> x \in enabledTrackers(trackers) /\ StatusOf(x) = s
    OBVIOUS
  <1>6. enabledTrackers(trackers) = U7
    BY <1>3, <1>5 DEF Statuses
  <1> HIDE DEF of, n
  <1>7. IsFiniteSet(U2) /\ Cardinality(U2) = Cardinality(of("ok")) + Cardinality(of("nxdomain"))
    <2>1. \A x \in of("ok") : StatusOf(x) # "nxdomain"
      BY <1>5
    <2>2. of("ok") \cap of("nxdomain") = {}
      BY <1>5, <2>1
    <2> QED BY <1>2, <2>2, DisjointCardinality
  <1>8. IsFiniteSet(U3) /\ Cardinality(U3) = Cardinality(U2) + Cardinality(of("nodata"))
    <2>1. \A x \in U2 : StatusOf(x) \in {"ok", "nxdomain"}
      BY <1>5
    <2>2. U2 \cap of("nodata") = {}
      BY <1>5, <2>1
    <2> QED BY <1>2, <1>7, <2>2, DisjointCardinality
  <1>9. IsFiniteSet(U4) /\ Cardinality(U4) = Cardinality(U3) + Cardinality(of("servfail"))
    <2>1. \A x \in U3 : StatusOf(x) \in {"ok", "nxdomain", "nodata"}
      BY <1>5
    <2>2. U3 \cap of("servfail") = {}
      BY <1>5, <2>1
    <2> QED BY <1>2, <1>8, <2>2, DisjointCardinality
  <1>10. IsFiniteSet(U5) /\ Cardinality(U5) = Cardinality(U4) + Cardinality(of("timeout"))
    <2>1. \A x \in U4 : StatusOf(x) \in {"ok", "nxdomain", "nodata", "servfail"}
      BY <1>5
    <2>2. U4 \cap of("timeout") = {}
      BY <1>5, <2>1
    <2> QED BY <1>2, <1>9, <2>2, DisjointCardinality
  <1>11. IsFiniteSet(U6) /\ Cardinality(U6) = Cardinality(U5) + Cardinality(of("error"))
    <2>1. \A x \in U5 : StatusOf(x) \in {"ok", "nxdomain", "nodata", "servfail", "timeout"}
      BY <1>5
    <2>2. U5 \cap of("error") = {}
      BY <1>5, <2>1
    <2> QED BY <1>2, <1>10, <2>2, DisjointCardinality
  <1>12. Cardinality(U7) = Cardinality(U6) + Cardinality(of("unchecked"))
    <2>1. \A x \in U6 : StatusOf(x) \in {"ok", "nxdomain", "nodata", "servfail", "timeout", "error"}
      BY <1>5
    <2>2. U6 \cap of("unchecked") = {}
      BY <1>5, <2>1
    <2> QED BY <1>2, <1>11, <2>2, DisjointCardinality
  <1>13. Cardinality(enabledTrackers(trackers)) = Cardinality(U7)
    BY <1>6
  <1> HIDE DEF U2, U3, U4, U5, U6, U7
  <1>14. Cardinality(enabledTrackers(trackers)) =
           Cardinality(of("ok")) + Cardinality(of("nxdomain")) + Cardinality(of("nodata"))
             + Cardinality(of("servfail")) + Cardinality(of("timeout")) + Cardinality(of("error"))
             + Cardinality(of("unchecked"))
    BY <1>2, <1>7, <1>8, <1>9, <1>10, <1>11, <1>12, <1>13
  <1> QED
    BY <1>4, <1>14 DEF Statuses, n

-----------------------------------------------------------------------------
(* Coverage of the enrichment.                                              *)

\* An address looked up and placed in an AS is one looked up, and one looked up
\* is one of the active addresses the page counts them against: no prefix that
\* stands for a rolling family is taken for an address, as long as none is
\* written like one.
THEOREM EnrichedWithinActive ==
    ASSUME NEW records, IsFiniteSet(records), NEW infos,
           \A r \in records, i \in infos : r.isPrefix => i.ip # r.ip
    PROVE  LET c == Coverage(records, infos) IN
           c.WithASN <= c.Enriched /\ c.Enriched <= c.ActiveIPs
  <1> DEFINE active == {x \in records : x.active /\ ~x.isPrefix}
             ipOf == [r \in active |-> r.ip]
  <1>1. IsFiniteSet(activeIPs(records))
    <2>1. IsFiniteSet(active)
      BY FS_Subset
    <2>2. ipOf \in Surjection(active, activeIPs(records))
      BY DEF Surjection, activeIPs
    <2> QED
      BY <2>1, <2>2, FS_Surjection
  <1>2. enrichedIPs(records, infos) \subseteq activeIPs(records)
    BY DEF enrichedIPs, activeIPs
  <1>3. placedIPs(records, infos) \subseteq enrichedIPs(records, infos)
    BY DEF enrichedIPs, placedIPs
  <1>4. /\ IsFiniteSet(enrichedIPs(records, infos))
        /\ Cardinality(enrichedIPs(records, infos)) <= Cardinality(activeIPs(records))
    BY <1>1, <1>2, FS_Subset
  <1>5. Cardinality(placedIPs(records, infos)) <= Cardinality(enrichedIPs(records, infos))
    BY <1>3, <1>4, FS_Subset
  <1> QED
    BY <1>4, <1>5 DEF Coverage

\* The trackers and the addresses behind a rollup.
Behind(rows) == [trackers |-> UNION {n.trackers : n \in rows}, ips |-> UNION {n.ips : n \in rows}]

\* A rollup by AS has every row under one of its keys.
LEMMA BehindAS ==
    ASSUME NEW rows
    PROVE  Behind(RollUpBy(asnOf, rows)) = [trackers |-> {x[1].tracker : x \in rows}, ips |-> {x[1].ip : x \in rows}]
  <1> DEFINE like(x) == {y \in rows : asnOf(y[2]) = asnOf(x[2])}
             stats == RollUpBy(asnOf, rows)
  <1>1. \A x \in rows : x \in like(x) /\ like(x) \subseteq rows
    OBVIOUS
  <1>2. /\ \A n \in stats : \E x \in rows : n = NetworkStat(asnOf(x[2]), like(x))
        /\ \A x \in rows : NetworkStat(asnOf(x[2]), like(x)) \in stats
    BY DEF RollUpBy
  <1> HIDE DEF like, stats
  <1>3. \A n \in stats : n.trackers \subseteq {x[1].tracker : x \in rows} /\ n.ips \subseteq {x[1].ip : x \in rows}
    BY <1>1, <1>2 DEF NetworkStat
  <1>4. \A x \in rows : \E n \in stats : x[1].tracker \in n.trackers /\ x[1].ip \in n.ips
    BY <1>1, <1>2 DEF NetworkStat
  <1>5. UNION {n.trackers : n \in stats} = {x[1].tracker : x \in rows}
    BY <1>3, <1>4
  <1>6. UNION {n.ips : n \in stats} = {x[1].ip : x \in rows}
    BY <1>3, <1>4
  <1> QED
    BY <1>5, <1>6 DEF Behind, stats

\* So does one by registry.
LEMMA BehindRIR ==
    ASSUME NEW rows
    PROVE  Behind(RollUpBy(rirOf, rows)) = [trackers |-> {x[1].tracker : x \in rows}, ips |-> {x[1].ip : x \in rows}]
  <1> DEFINE like(x) == {y \in rows : rirOf(y[2]) = rirOf(x[2])}
             stats == RollUpBy(rirOf, rows)
  <1>1. \A x \in rows : x \in like(x) /\ like(x) \subseteq rows
    OBVIOUS
  <1>2. /\ \A n \in stats : \E x \in rows : n = NetworkStat(rirOf(x[2]), like(x))
        /\ \A x \in rows : NetworkStat(rirOf(x[2]), like(x)) \in stats
    BY DEF RollUpBy
  <1> HIDE DEF like, stats
  <1>3. \A n \in stats : n.trackers \subseteq {x[1].tracker : x \in rows} /\ n.ips \subseteq {x[1].ip : x \in rows}
    BY <1>1, <1>2 DEF NetworkStat
  <1>4. \A x \in rows : \E n \in stats : x[1].tracker \in n.trackers /\ x[1].ip \in n.ips
    BY <1>1, <1>2 DEF NetworkStat
  <1>5. UNION {n.trackers : n \in stats} = {x[1].tracker : x \in rows}
    BY <1>3, <1>4
  <1>6. UNION {n.ips : n \in stats} = {x[1].ip : x \in rows}
    BY <1>3, <1>4
  <1> QED
    BY <1>5, <1>6 DEF Behind, stats

\* And one by country.
LEMMA BehindCountry ==
    ASSUME NEW rows
    PROVE  Behind(RollUpBy(countryOf, rows)) = [trackers |-> {x[1].tracker : x \in rows}, ips |-> {x[1].ip : x \in rows}]
  <1> DEFINE like(x) == {y \in rows : countryOf(y[2]) = countryOf(x[2])}
             stats == RollUpBy(countryOf, rows)
  <1>1. \A x \in rows : x \in like(x) /\ like(x) \subseteq rows
    OBVIOUS
  <1>2. /\ \A n \in stats : \E x \in rows : n = NetworkStat(countryOf(x[2]), like(x))
        /\ \A x \in rows : NetworkStat(countryOf(x[2]), like(x)) \in stats
    BY DEF RollUpBy
  <1> HIDE DEF like, stats
  <1>3. \A n \in stats : n.trackers \subseteq {x[1].tracker : x \in rows} /\ n.ips \subseteq {x[1].ip : x \in rows}
    BY <1>1, <1>2 DEF NetworkStat
  <1>4. \A x \in rows : \E n \in stats : x[1].tracker \in n.trackers /\ x[1].ip \in n.ips
    BY <1>1, <1>2 DEF NetworkStat
  <1>5. UNION {n.trackers : n \in stats} = {x[1].tracker : x \in rows}
    BY <1>3, <1>4
  <1>6. UNION {n.ips : n \in stats} = {x[1].ip : x \in rows}
    BY <1>3, <1>4
  <1> QED
    BY <1>5, <1>6 DEF Behind, stats

\* The three rollups of the page of networks are of the same addresses and the
\* same trackers, each of them enabled, not a control and not parked.
THEOREM RollUpsAgree ==
    ASSUME NEW trackers, NEW records, NEW infos
    PROVE  /\ Behind(Networks(trackers, records, infos)) = Behind(ByRIR(trackers, records, infos))
           /\ Behind(Networks(trackers, records, infos)) = Behind(ByCountry(trackers, records, infos))
           /\ \A id \in Behind(Networks(trackers, records, infos)).trackers :
                \E t \in trackerScope(trackers) : t.id = id
           /\ \A id \in Behind(Networks(trackers, records, infos)).trackers :
                TrackerNetworks(id, records, infos) # {}
  <1> DEFINE joined == recordInfoJoin(records, infos)
             rows == listedScope(trackers, joined)
  <1>1. Behind(Networks(trackers, records, infos))
          = [trackers |-> {x[1].tracker : x \in rows}, ips |-> {x[1].ip : x \in rows}]
    BY BehindAS DEF Networks
  <1>2. Behind(ByRIR(trackers, records, infos))
          = [trackers |-> {x[1].tracker : x \in rows}, ips |-> {x[1].ip : x \in rows}]
    BY BehindRIR DEF ByRIR
  <1>3. Behind(ByCountry(trackers, records, infos))
          = [trackers |-> {x[1].tracker : x \in rows}, ips |-> {x[1].ip : x \in rows}]
    BY BehindCountry DEF ByCountry
  <1>4. \A x \in rows : /\ x \in joined /\ x[1].active
                        /\ \E t \in trackerScope(trackers) : t.id = x[1].tracker
    BY DEF listedScope
  <1>5. \A x \in rows : TrackerNetworks(x[1].tracker, records, infos) # {}
    BY <1>4 DEF TrackerNetworks
  <1> QED
    BY <1>1, <1>2, <1>3, <1>4, <1>5

\* A tracker counted under an AS has a row in the list of trackers that names a
\* network of that AS, whether the list leaves out the disabled names or not.
THEOREM RollUpsAreListed ==
    ASSUME NEW trackers, NEW records, NEW infos, NEW rolling, NEW includeDisabled,
           NEW n \in Networks(trackers, records, infos), NEW id \in n.trackers
    PROVE  \E v \in ListTrackerViews(trackers, records, rolling, infos, includeDisabled) :
             v.tracker.id = id /\ \E ref \in v.Networks : ref.ASN = n.key
  <1> DEFINE joined == recordInfoJoin(records, infos)
             rows == listedScope(trackers, joined)
  <1>1. PICK x \in rows : n = NetworkStat(x[2].asn, {y \in rows : y[2].asn = x[2].asn})
    BY DEF Networks, RollUpBy, asnOf
  <1>2. PICK y \in rows : y[1].tracker = id /\ y[2].asn = n.key
    BY <1>1 DEF NetworkStat
  <1>3. /\ y \in joined /\ y[1].active
        /\ \E t \in trackerScope(trackers) : t.id = id
    BY <1>2 DEF listedScope
  <1>4. PICK t \in trackers : t.id = id /\ ~t.control /\ t.enabled
    BY <1>3 DEF trackerScope
  <1>5. NetworkRef(y[2]) \in TrackerNetworks(id, records, infos)
    BY <1>2, <1>3 DEF TrackerNetworks
  <1>6. NetworkRef(y[2]).ASN = n.key
    BY <1>2 DEF NetworkRef
  <1>7. TrackerView(t, records, rolling, infos)
          \in ListTrackerViews(trackers, records, rolling, infos, includeDisabled)
    BY <1>4 DEF ListTrackerViews
  <1>8. /\ TrackerView(t, records, rolling, infos).tracker = t
        /\ TrackerView(t, records, rolling, infos).Networks = TrackerNetworks(id, records, infos)
    BY <1>4 DEF TrackerView
  <1> QED
    BY <1>4, <1>5, <1>6, <1>7, <1>8

-----------------------------------------------------------------------------
(* Software.                                                                *)

\* Grouping a grouped signature changes nothing, so what a cluster is called
\* does not depend on which of its replies came first.
LEMMA GroupIsIdempotent ==
    ASSUME NEW sig, NEW kind
    PROVE  groupSignature(groupSignature(sig, kind), kind) = groupSignature(sig, kind)
  BY DEF groupSignature

\* Every verdict that discloses anything is counted in exactly one cluster,
\* under its tracker and its endpoint, and its signature is the cluster's or one
\* of the cluster's variants; and whoever is in a cluster that has a name is
\* counted among those that could be named.
THEOREM ClustersPartition ==
    ASSUME NEW disclosed
    PROVE  /\ \A d \in disclosed : \E c \in Clusters(disclosed) :
                /\ d.tracker \in c.trackers /\ d.endpoint \in c.endpoints
                /\ d.sig \in c.variants \cup {c.key[2]}
                /\ \A other \in Clusters(disclosed) : other.key = Alike(d) => other = c
           /\ UNION {c.trackers : c \in Clusters(disclosed)} = fingerprinted(disclosed)
           /\ \A c \in Clusters(disclosed) : c.name # "" => c.trackers \subseteq named(disclosed)
  <1>1. \A c \in Clusters(disclosed) : c = Cluster(disclosed, c.key)
    BY DEF Clusters, Cluster
  <1>2. \A d \in disclosed :
          /\ Cluster(disclosed, Alike(d)) \in Clusters(disclosed)
          /\ d.tracker \in Cluster(disclosed, Alike(d)).trackers
          /\ d.endpoint \in Cluster(disclosed, Alike(d)).endpoints
          /\ Cluster(disclosed, Alike(d)).key = Alike(d)
          /\ d.sig \in Cluster(disclosed, Alike(d)).variants \cup {Alike(d)[2]}
    BY DEF Clusters, Cluster
  <1>3. \A d \in disclosed : \E c \in Clusters(disclosed) :
          /\ d.tracker \in c.trackers /\ d.endpoint \in c.endpoints
          /\ d.sig \in c.variants \cup {c.key[2]}
          /\ \A other \in Clusters(disclosed) : other.key = Alike(d) => other = c
    BY <1>1, <1>2
  <1>4. UNION {c.trackers : c \in Clusters(disclosed)} = fingerprinted(disclosed)
    <2>1. \A c \in Clusters(disclosed) : c.trackers \subseteq fingerprinted(disclosed)
      BY DEF Clusters, Cluster, fingerprinted
    <2>2. \A id \in fingerprinted(disclosed) : \E c \in Clusters(disclosed) : id \in c.trackers
      BY <1>2 DEF fingerprinted
    <2> QED
      BY <2>1, <2>2
  <1>5. ASSUME NEW c \in Clusters(disclosed), c.name # "", NEW id \in c.trackers
        PROVE  id \in named(disclosed)
    <2>1. c = Cluster(disclosed, c.key)
      BY <1>1
    <2>2. c.name = Software(c.key[2])
      BY <2>1 DEF Cluster
    <2>3. PICK d \in disclosed : d.tracker = id /\ Alike(d) = c.key
      BY <2>1 DEF Cluster
    <2>4. c.key[2] = groupSignature(d.sig, d.kind)
      BY <2>3 DEF Alike
    <2>5. Software(groupSignature(d.sig, d.kind)) # ""
      BY <1>5, <2>2, <2>4
    <2>6. softwareName(d) # ""
      BY <2>5 DEF softwareName
    <2> QED
      BY <2>3, <2>6 DEF named
  <1> QED
    BY <1>3, <1>4, <1>5

-----------------------------------------------------------------------------
(* Shared addresses.                                                        *)

\* A shared address has two names in scope; one said to be shared now has two
\* names in scope that resolve to it now; and any two that do are found.
THEOREM SharedIsShared ==
    ASSUME NEW trackers, IsFiniteSet(trackers), NEW records, NEW since
    PROVE  /\ \A s \in SharedAddresses(trackers, records, since) :
                \E a, b \in NamesOn(s.ip, trackers, records, since) : a # b
           /\ \A s \in SharedAddresses(trackers, records, since) : s.active =>
                \E a, b \in NamesOnNow(s.ip, trackers, records) : a # b
           /\ \A ip : \A a, b \in NamesOnNow(ip, trackers, records) : a # b =>
                \E s \in SharedAddresses(trackers, records, since) :
                    s.ip = ip /\ {a, b} \subseteq s.trackers /\ s.active
  <1> DEFINE scope == trackerScope(trackers)
             names == {t.name : t \in scope}
             nameOf == [t \in scope |-> t.name]
  <1>1. IsFiniteSet(names)
    <2>1. IsFiniteSet(scope)
      BY FS_Subset DEF trackerScope
    <2>2. nameOf \in Surjection(scope, names)
      BY DEF Surjection
    <2> QED
      BY <2>1, <2>2, FS_Surjection
  <1>2. \A ip : IsFiniteSet(NamesOn(ip, trackers, records, since))
    <2>1. \A ip : NamesOn(ip, trackers, records, since) \subseteq names
      BY DEF NamesOn
    <2> QED
      BY <1>1, <2>1, FS_Subset
  <1>3. \A ip : NamesOnNow(ip, trackers, records) \subseteq NamesOn(ip, trackers, records, since)
    BY DEF NamesOn, NamesOnNow
  <1>4. \A ip : IsFiniteSet(NamesOnNow(ip, trackers, records))
    BY <1>2, <1>3, FS_Subset
  <1>5. ASSUME NEW s \in SharedAddresses(trackers, records, since)
        PROVE  /\ \E a, b \in NamesOn(s.ip, trackers, records, since) : a # b
               /\ s.active => \E a, b \in NamesOnNow(s.ip, trackers, records) : a # b
    <2>1. /\ Cardinality(s.trackers) > 1
          /\ s.trackers = NamesOn(s.ip, trackers, records, since)
          /\ s.active = (Cardinality(NamesOnNow(s.ip, trackers, records)) > 1)
      BY DEF SharedAddresses, SharedAddress
    <2>2. \E a, b \in NamesOn(s.ip, trackers, records, since) : a # b
      BY <1>2, <2>1, TwoOf
    <2>3. ASSUME s.active
          PROVE  \E a, b \in NamesOnNow(s.ip, trackers, records) : a # b
      <3>1. IsFiniteSet(NamesOnNow(s.ip, trackers, records))
        BY <1>4
      <3>2. Cardinality(NamesOnNow(s.ip, trackers, records)) > 1
        BY <2>1, <2>3
      <3> QED
        BY <3>1, <3>2, TwoOf
    <2> QED
      BY <2>2, <2>3
  <1>6. ASSUME NEW ip, NEW a \in NamesOnNow(ip, trackers, records),
               NEW b \in NamesOnNow(ip, trackers, records), a # b
        PROVE  \E s \in SharedAddresses(trackers, records, since) :
                 s.ip = ip /\ {a, b} \subseteq s.trackers /\ s.active
    <2> DEFINE s == SharedAddress(ip, trackers, records, since)
    <2>1. \E r \in records : r.ip = ip
      BY DEF NamesOnNow
    <2>2. Cardinality(NamesOnNow(ip, trackers, records)) > 1
      BY <1>4, <1>6, TwoElements
    <2>3. Cardinality(NamesOn(ip, trackers, records, since)) > 1
      BY <1>2, <1>3, <1>6, TwoElements
    <2>4. s.ip = ip /\ s.active /\ s.trackers = NamesOn(ip, trackers, records, since)
      BY <2>2 DEF SharedAddress
    <2>5. s \in SharedAddresses(trackers, records, since)
      BY <2>1, <2>3, <2>4 DEF SharedAddresses
    <2> QED
      BY <1>3, <2>4, <2>5
  <1> QED
    BY <1>5, <1>6

-----------------------------------------------------------------------------
(* Routes.                                                                  *)

\* A path with another end.
LEMMA EndingIs ==
    \A p, end, other :
        /\ Ending(p, end).first = p.first /\ Ending(p, end).end = end
        /\ Ending(Ending(p, end), other) = Ending(p, other)
  BY DEF Ending

\* What canonicalPath does to a path, and does once.
LEMMA CanonicalForm ==
    ASSUME NEW p
    PROVE  /\ canonicalPath(p).first = p.first
           /\ p.first = "" => canonicalPath(p) = Ending(p, "/") /\ canonicalPath(p).end = "/"
           /\ p.first # "" => canonicalPath(p) = Ending(p, "") /\ canonicalPath(p).end = ""
           /\ canonicalPath(canonicalPath(p)) = canonicalPath(p)
  <1>1. CASE p.first = ""
    <2> DEFINE c == Ending(p, "/")
    <2>1. canonicalPath(p) = c
      BY <1>1 DEF canonicalPath
    <2>2. c.first = p.first /\ c.end = "/" /\ Ending(c, "/") = c
      BY EndingIs
    <2> HIDE DEF c
    <2>3. canonicalPath(c) = c
      BY <1>1, <2>2 DEF canonicalPath
    <2>4. canonicalPath(canonicalPath(p)) = canonicalPath(p)
      BY <2>1, <2>3
    <2>5. canonicalPath(p).first = p.first /\ canonicalPath(p).end = "/"
      BY <2>1, <2>2
    <2> QED
      BY <1>1, <2>1, <2>4, <2>5 DEF c
  <1>2. CASE p.first # ""
    <2> DEFINE c == Ending(p, "")
    <2>1. canonicalPath(p) = c
      BY <1>2 DEF canonicalPath
    <2>2. c.first = p.first /\ c.end = "" /\ Ending(c, "") = c
      BY EndingIs
    <2> HIDE DEF c
    <2>3. canonicalPath(c) = c
      BY <1>2, <2>2 DEF canonicalPath
    <2>4. canonicalPath(canonicalPath(p)) = canonicalPath(p)
      BY <2>1, <2>3
    <2>5. canonicalPath(p).first = p.first /\ canonicalPath(p).end = ""
      BY <2>1, <2>2
    <2> QED
      BY <1>2, <2>1, <2>4, <2>5 DEF c
  <1> QED
    BY <1>1, <1>2

\* On the paths that reach a handler, the server and the browser strip alike.
LEMMA SameForm ==
    ASSUME NEW Segment, NEW p \in Path(Segment), Clean(p)
    PROVE  canonicalPath(p) = canonicalInBrowser(p)
  <1>1. /\ p = Ending(p, p.end)
        /\ (p.first = "" => p.second = "") /\ (p.second = "" => p.rest = "")
    BY DEF Path, Ending
  <1>2. CASE p.first = ""
    <2>1. p.end = "/"
      BY <1>2 DEF Clean
    <2>2. p = pathDashboard
      BY <1>1, <1>2, <2>1 DEF pathDashboard, At, Ending
    <2>3. canonicalInBrowser(p) = p
      BY <2>2 DEF canonicalInBrowser
    <2> QED
      BY <1>1, <1>2, <2>1, <2>3, CanonicalForm
  <1>3. CASE p.first # ""
    <2>1. p # pathDashboard /\ p.end \in {"", "/"}
      <3>1. pathDashboard.first = ""
        BY DEF pathDashboard, At
      <3>2. p.end \in {"", "/"}
        BY <1>3 DEF Clean
      <3> QED
        BY <1>3, <3>1, <3>2
    <2>2. canonicalInBrowser(p) = Ending(p, "")
      BY <1>1, <2>1 DEF canonicalInBrowser
    <2> QED
      BY <1>3, <2>2, CanonicalForm
  <1> QED
    BY <1>2, <1>3

\* "It mirrors parseRoute in web/src/lib/router.js": of every path that reaches
\* a handler, the server and the browser render the same page.
THEOREM RoutesAgree ==
    ASSUME NEW Segment, NEW p \in Path(Segment), Clean(p)
    PROVE  fallbackDoc(canonicalPath(p)) = parseRoute(p)
  <1> DEFINE c == canonicalPath(p)
             pages == {pathDashboard, pathTrackers, pathNetworks, pathLists}
  <1>1. c = canonicalInBrowser(p)
    BY SameForm
  <1>2. (c.first = "" => c.end = "/") /\ (c.first # "" => c.end = "")
    BY CanonicalForm
  <1> HIDE DEF c
  <1>3. CASE c \in pages
    <2>1. docRoute(c).page = "one" /\ docRoute(c).name = ""
      BY <1>3 DEF docRoute
    <2>2. /\ pathDashboard # pathTrackers /\ pathDashboard # pathNetworks /\ pathDashboard # pathLists
      BY DEF pathDashboard, pathTrackers, pathNetworks, pathLists, At
    <2> QED
      BY <1>1, <1>3, <2>1, <2>2 DEF fallbackDoc, parseRoute, c
  <1>4. CASE c \notin pages
    <2>1. CASE c.first = "t" /\ c.second # "" /\ c.rest = "" /\ c.end = ""
      <3>1. docRoute(c).page = "one" /\ docRoute(c).name = c.second /\ c.second # ""
        BY <1>2, <1>4, <2>1 DEF docRoute
      <3> QED
        BY <1>1, <1>4, <2>1, <3>1 DEF fallbackDoc, parseRoute, c
    <2>2. CASE ~(c.first = "t" /\ c.second # "" /\ c.rest = "" /\ c.end = "")
      <3>1. docRoute(c).page = "none"
        BY <1>2, <1>4, <2>2 DEF docRoute, NoPage
      <3>2. fallbackDoc(c) = Rendered("notfound", "")
        BY <3>1 DEF fallbackDoc
      <3>3. parseRoute(p) = Rendered("notfound", "")
        BY <1>1, <1>4, <2>2 DEF parseRoute
      <3> QED
        BY <3>2, <3>3 DEF c
    <2> QED
      BY <2>1, <2>2
  <1> QED
    BY <1>3, <1>4

\* A redirect leads to a page and not to another redirect; only the page of a
\* name nobody has may turn out not to be there.
THEOREM RedirectsOnce ==
    ASSUME NEW p, NEW names, spaHandler(p, names) = 301
    PROVE  LET to == canonicalPath(p) IN
           /\ docRoute(to).page # "none"
           /\ spaHandler(to, names) \in {200, 404}
           /\ spaHandler(to, names) = 404 => Missing(docRoute(to), names)
  <1> DEFINE to == canonicalPath(p)
  <1>1. canonicalPath(to) = to
    BY CanonicalForm
  <1>2. docRoute(to).page # "none"
    BY DEF spaHandler
  <1> HIDE DEF to
  <1>3. spaHandler(to, names) = IF Missing(docRoute(to), names) THEN 404 ELSE 200
    BY <1>1, <1>2 DEF spaHandler
  <1> QED
    BY <1>2, <1>3 DEF to

-----------------------------------------------------------------------------
(* The list of trackers, and the figures it is held against.                *)

\* The views /trackers is made from: ListTrackerViews, the retired included.
AllViews(trackers, records, rolling, infos) ==
    ListTrackerViews(trackers, records, rolling, infos, TRUE)

\* The list views are of the names that are no controls, one of each.
LEMMA ViewsOfAll ==
    ASSUME NEW trackers, NEW records, NEW infos, NEW rolling
    PROVE  /\ \A v \in AllViews(trackers, records, rolling, infos) :
                v.tracker \in trackers /\ ~v.tracker.control
           /\ \A t \in trackers : ~t.control =>
                \E v \in AllViews(trackers, records, rolling, infos) : v.tracker = t
  <1> DEFINE views == AllViews(trackers, records, rolling, infos)
             view(t) == TrackerView(t, records, rolling, infos)
  <1>1. \A t : view(t).tracker = t
    BY DEF TrackerView
  <1> HIDE DEF view
  <1>2. views = {view(t) : t \in {x \in trackers : ~x.control}}
    BY DEF AllViews, ListTrackerViews, view
  <1> HIDE DEF views
  <1>3. \A v \in views : v.tracker \in trackers /\ ~v.tracker.control
    BY <1>1, <1>2
  <1>4. \A t \in trackers : ~t.control => view(t) \in views
    BY <1>2
  <1> QED
    BY <1>1, <1>3, <1>4 DEF views

\* The page of a country lists the trackers its rollup counts, less those that
\* publish a denial, which the rollup counts and the page lists as no trackers.
THEOREM CountryPageIsItsRollup ==
    ASSUME NEW trackers, NEW records, NEW infos, NEW rolling,
           \A t \in trackers :
             t.enabled \in BOOLEAN /\ t.control \in BOOLEAN /\ t.parked \in BOOLEAN /\ t.bep34Denies \in BOOLEAN,
           \A i \in infos : i.country # Everywhere,
           NEW n \in ByCountry(trackers, records, infos)
    PROVE  LET page   == trackerListSections(AllViews(trackers, records, rolling, infos), n.key)
               denies == {t \in page.others : trackerClass(t) = "denies" /\ ~t.parked}
           IN n.trackers = {t.id : t \in page.trackers \cup denies}
  <1> DEFINE join   == recordInfoJoin(records, infos)
             in(t)  == \E x \in join : x[1].active /\ x[1].tracker = t.id /\ x[2].country = n.key
             views  == AllViews(trackers, records, rolling, infos)
             page   == trackerListSections(views, n.key)
             denies == {t \in page.others : trackerClass(t) = "denies" /\ ~t.parked}
             scope  == trackerScope(trackers)
  <1>1. /\ n.key # Everywhere
        /\ n.trackers = {x[1].tracker : x \in {y \in listedScope(trackers, join) : y[2].country = n.key}}
    <2>1. PICK x \in listedScope(trackers, join) :
            n = NetworkStat(countryOf(x[2]), {y \in listedScope(trackers, join) : countryOf(y[2]) = countryOf(x[2])})
      BY DEF ByCountry, RollUpBy
    <2>2. n.key = x[2].country
      BY <2>1 DEF NetworkStat, countryOf
    <2>3. n.trackers = {z[1].tracker : z \in {y \in listedScope(trackers, join) : countryOf(y[2]) = countryOf(x[2])}}
      BY <2>1 DEF NetworkStat
    <2>4. x[2] \in infos
      BY DEF listedScope, recordInfoJoin
    <2> QED
      BY <2>2, <2>3, <2>4 DEF countryOf
  <1>2. \A id : id \in n.trackers <=> \E t \in scope : t.id = id /\ in(t)
    <2>1. \A x : x \in listedScope(trackers, join) <=>
            x \in join /\ x[1].active /\ \E t \in scope : t.id = x[1].tracker
      BY DEF listedScope
    <2> HIDE DEF join, scope
    <2> QED
      BY <1>1, <2>1
  <1>3. \A v \in views : v.tracker \in trackers /\ ~v.tracker.control
                          /\ (servedFrom(v, n.key) <=> in(v.tracker))
    <2> SUFFICES ASSUME NEW v \in views
                 PROVE  v.tracker \in trackers /\ ~v.tracker.control /\ (servedFrom(v, n.key) <=> in(v.tracker))
      OBVIOUS
    <2>1. PICK t \in trackers : ~t.control /\ v = TrackerView(t, records, rolling, infos)
      BY DEF AllViews, ListTrackerViews
    <2>2. v.tracker = t /\ v.Networks = TrackerNetworks(t.id, records, infos)
      BY <2>1 DEF TrackerView
    <2>3. (\E m \in TrackerNetworks(t.id, records, infos) : m.Country = n.key) <=> in(t)
      <3> DEFINE ofName == {y \in join : y[1].active /\ y[1].tracker = t.id}
                 ref(i) == NetworkRef(i)
      <3>1. \A i : ref(i).Country = i.country
        BY DEF NetworkRef
      <3>2. \A x : x \in ofName <=> x \in join /\ x[1].active /\ x[1].tracker = t.id
        OBVIOUS
      <3>3. TrackerNetworks(t.id, records, infos) = {ref(x[2]) : x \in ofName}
        BY DEF TrackerNetworks
      <3> HIDE DEF ofName, ref, join
      <3> QED
        BY <3>1, <3>2, <3>3
    <2> QED
      BY <2>1, <2>2, <2>3 DEF servedFrom
  <1>4. \A t \in trackers : ~t.control => \E v \in views : v.tracker = t
    BY ViewsOfAll
  <1> HIDE DEF in, views
  <1>5. \A t : t \in page.trackers <=> t \in trackers /\ ~t.control /\ in(t) /\ trackerClass(t) = "tracker"
    BY <1>1, <1>3, <1>4 DEF trackerListSections
  <1>6. \A t : t \in page.others <=> t \in trackers /\ ~t.control /\ in(t) /\ trackerClass(t) # "tracker"
    BY <1>1, <1>3, <1>4 DEF trackerListSections
  <1> HIDE DEF page
  <1>7. \A t : t \in page.trackers \cup denies <=> t \in scope /\ in(t)
    BY <1>5, <1>6 DEF trackerClass, trackerScope
  <1> HIDE DEF denies, scope
  <1>8. \A id : id \in n.trackers <=> \E t \in page.trackers \cup denies : t.id = id
    BY <1>2, <1>7
  <1>9. n.trackers = {t.id : t \in page.trackers \cup denies}
    <2> DEFINE counted == {x[1].tracker : x \in {y \in listedScope(trackers, join) : y[2].country = n.key}}
               listed  == {t.id : t \in page.trackers \cup denies}
    <2>1. n.trackers = counted
      BY <1>1
    <2>2. \A id : id \in listed <=> \E t \in page.trackers \cup denies : t.id = id
      OBVIOUS
    <2> HIDE DEF counted, listed
    <2>3. \A id : id \in counted <=> id \in listed
      BY <1>8, <2>1, <2>2
    <2>4. counted = listed
      <3>1. counted \subseteq listed /\ listed \subseteq counted
        BY <2>3
      <3> QED
        BY <2>1, <2>3, <3>1 DEF counted, listed
    <2> QED
      BY <2>1, <2>4 DEF listed
  <1> QED
    BY <1>9 DEF page, denies, views

\* What the list says of each name under "Answers" adds up to the totals on the
\* front page, once the names in scope that publish a denial are put back.
THEOREM AnswersAddUp ==
    ASSUME NEW trackers, IsTrackers(trackers), NEW records, NEW infos, NEW rolling, NEW entries,
           \A t \in trackers : t.bep34Denies \in BOOLEAN
    PROVE  LET page   == trackerListSections(AllViews(trackers, records, rolling, infos), Everywhere)
               denies == {t \in page.others : trackerClass(t) = "denies" /\ ~t.parked}
               says(label) == Cardinality({t \in page.trackers \cup denies : answersLabel(t) = label})
               stats  == Stats(trackers, records, entries)
           IN /\ says("live") = ReachSummary(trackers)["live"]
              /\ says("partial") = ReachSummary(trackers)["partial"]
              /\ says("unprobed") = ReachSummary(trackers)["unknown"]
              /\ says("never answered") = stats.NeverAnswered
              /\ says("silent") = stats.WentQuiet
  <1> DEFINE views  == AllViews(trackers, records, rolling, infos)
             page   == trackerListSections(views, Everywhere)
             denies == {t \in page.others : trackerClass(t) = "denies" /\ ~t.parked}
             scope  == trackerScope(trackers)
             said(label) == {t \in page.trackers \cup denies : answersLabel(t) = label}
  <1>1. \A t : (\E v \in views : v.tracker = t) <=> t \in trackers /\ ~t.control
    BY ViewsOfAll
  <1> HIDE DEF views
  <1>2. \A t : t \in page.trackers <=> t \in trackers /\ ~t.control /\ trackerClass(t) = "tracker"
    BY <1>1 DEF trackerListSections
  <1>3. \A t : t \in page.others <=> t \in trackers /\ ~t.control /\ trackerClass(t) # "tracker"
    BY <1>1 DEF trackerListSections
  <1> HIDE DEF page
  <1>4. page.trackers \cup denies = scope
    BY <1>2, <1>3 DEF trackerClass, trackerScope, IsTrackers
  <1>5. \A t \in scope : t.reach \in Reaches \cup {""}
    BY DEF trackerScope, IsTrackers
  <1> HIDE DEF denies
  <1>6. /\ said("live") = {t \in scope : ReachOf(t) = "live"}
        /\ said("partial") = {t \in scope : ReachOf(t) = "partial"}
        /\ said("unprobed") = {t \in scope : ReachOf(t) = "unknown"}
    BY <1>4, <1>5 DEF answersLabel, ReachOf, Reaches
  <1>7. /\ said("never answered") = {t \in deadTrackers(trackers) : t.lastLive = 0}
        /\ said("silent") = {t \in deadTrackers(trackers) : t.lastLive # 0}
    BY <1>4, <1>5 DEF answersLabel, deadTrackers, Reaches
  <1> HIDE DEF said, scope
  <1>8. /\ Cardinality(said("live")) = ReachSummary(trackers)["live"]
        /\ Cardinality(said("partial")) = ReachSummary(trackers)["partial"]
        /\ Cardinality(said("unprobed")) = ReachSummary(trackers)["unknown"]
    BY <1>6 DEF ReachSummary, Reaches, scope
  <1>9. /\ Cardinality(said("never answered")) = Stats(trackers, records, entries).NeverAnswered
        /\ Cardinality(said("silent")) = Stats(trackers, records, entries).WentQuiet
    BY <1>7 DEF Stats
  <1> QED
    BY <1>8, <1>9 DEF said, page, denies, views

\* The sentences of /networks subtract and compare counts of separate queries:
\* no more trackers answer, have an endpoint, never resolved or disclose their
\* software than there are, and no more are named than disclose it.
THEOREM NetworksSentences ==
    ASSUME NEW trackers, IsTrackers(trackers), NEW records, NEW endpoints, NEW probes
    PROVE  LET says == networkSections(trackers, records, endpoints, probes) IN
           /\ says.answering <= says.of
           /\ 0 <= says.withoutEndpoints /\ says.withoutEndpoints <= says.of
           /\ says.neverResolved <= says.of
           /\ says.named <= says.fingerprinted /\ says.fingerprinted <= says.of
  <1> DEFINE scope == trackerScope(trackers)
             ids == {t.id : t \in scope}
             idOf == [t \in scope |-> t.id]
             disclosed == Disclosed(trackers, endpoints, probes)
             with == {e.tracker : e \in InUse(trackers, endpoints)}
             never == {t \in scope : ~\E r \in records : r.tracker = t.id}
             says == networkSections(trackers, records, endpoints, probes)
             reach == ReachSummary(trackers)
  <1>1. IsFiniteSet(scope) /\ Cardinality(scope) \in Nat
    BY FS_Subset, FS_CardinalityType DEF trackerScope, IsTrackers
  <1>2. IsFiniteSet(ids) /\ Cardinality(ids) <= Cardinality(scope)
    <2>1. idOf \in Surjection(scope, ids)
      BY DEF Surjection
    <2> QED
      BY <1>1, <2>1, FS_Surjection
  <1>3. Cardinality(with) \in Nat /\ Cardinality(with) <= Cardinality(ids)
    <2>1. with \subseteq ids
      BY DEF InUse
    <2> QED
      BY <1>2, <2>1, FS_Subset, FS_CardinalityType
  <1>4. /\ IsFiniteSet(fingerprinted(disclosed)) /\ Cardinality(fingerprinted(disclosed)) \in Nat
        /\ Cardinality(fingerprinted(disclosed)) <= Cardinality(ids)
    <2>1. fingerprinted(disclosed) \subseteq ids
      BY DEF fingerprinted, Disclosed
    <2> QED
      BY <1>2, <2>1, FS_Subset, FS_CardinalityType
  <1>5. Cardinality(named(disclosed)) \in Nat /\ Cardinality(named(disclosed)) <= Cardinality(fingerprinted(disclosed))
    <2>1. named(disclosed) \subseteq fingerprinted(disclosed)
      BY DEF named, fingerprinted
    <2> QED
      BY <1>4, <2>1, FS_Subset, FS_CardinalityType
  <1>6. Cardinality(never) <= Cardinality(scope)
    BY <1>1, FS_Subset
  <1>7. reach["live"] + reach["partial"] <= Cardinality(scope)
    <2>1. reach["unknown"] + reach["live"] + reach["partial"] + reach["dead"] = Cardinality(scope)
      BY ReachTotalsAddUp
    <2>2. \A r \in Reaches : reach[r] \in Nat
      <3>1. \A r : IsFiniteSet({t \in scope : ReachOf(t) = r})
        BY <1>1, FS_Subset
      <3>2. \A r \in Reaches : reach[r] = Cardinality({t \in scope : ReachOf(t) = r})
        BY DEF ReachSummary
      <3> QED
        BY <3>1, <3>2, FS_CardinalityType
    <2>3. /\ reach["unknown"] \in Nat /\ reach["live"] \in Nat
          /\ reach["partial"] \in Nat /\ reach["dead"] \in Nat
      BY <2>2 DEF Reaches
    <2> QED
      BY <1>1, <2>1, <2>3
  <1>8. /\ says.answering = reach["live"] + reach["partial"]
        /\ says.of = Cardinality(scope)
        /\ says.withoutEndpoints = Cardinality(scope) - Cardinality(with)
        /\ says.neverResolved = Cardinality(never)
        /\ says.fingerprinted = Cardinality(fingerprinted(disclosed))
        /\ says.named = Cardinality(named(disclosed))
    BY DEF networkSections, ProbeCoverage
  <1>9. Cardinality(ids) \in Nat
    BY <1>2, FS_CardinalityType
  <1> HIDE DEF scope, ids, with, never, says, reach, disclosed
  <1> QED
    BY <1>1, <1>2, <1>3, <1>4, <1>5, <1>6, <1>7, <1>8, <1>9 DEF says

-----------------------------------------------------------------------------
(* The change feed.                                                         *)

\* store.go stores times as text "so they sort lexicographically": times of
\* different seconds do, and are never mistaken for one another; what can be in
\* the wrong order, as the run of Feed shows, is of one second.
THEOREM SecondsSort ==
    ASSUME Base \in Nat \ {0}, NEW s \in Nat, NEW t \in Nat,
           s \div (Base * Base) < t \div (Base * Base)
    PROVE  SortsBefore(fmtTime(s), fmtTime(t)) /\ ~SortsBefore(fmtTime(t), fmtTime(s))
  <1> DEFINE second(x) == x \div (Base * Base)
  <1>1. \A x \in Nat : Fraction(x) \in Seq(Int)
    <2> SUFFICES ASSUME NEW x \in Nat
                 PROVE  Fraction(x) \in Seq(Int)
      OBVIOUS
    <2> DEFINE tenths == (x % (Base * Base)) \div Base
               hundredths == x % Base
    <2>1. Base * Base \in Nat \ {0}
      OBVIOUS
    <2>2. x % (Base * Base) \in Nat
      BY <2>1
    <2>3. tenths \in Int /\ hundredths \in Int
      BY <2>2
    <2>4. Fraction(x) \in {<<Point, tenths, hundredths, Zulu>>, <<Point, tenths, Zulu>>, <<Zulu>>}
      BY DEF Fraction
    <2>5. Point \in Int /\ Zulu \in Int
      BY DEF Point, Zulu
    <2> HIDE DEF tenths, hundredths
    <2>6. /\ <<Point, tenths, hundredths, Zulu>> \in Seq(Int)
          /\ <<Point, tenths, Zulu>> \in Seq(Int) /\ <<Zulu>> \in Seq(Int)
      BY <2>3, <2>5
    <2> QED
      BY <2>4, <2>6
  <1>2. \A x \in Nat : second(x) \in Int
    <2>1. Base * Base \in Nat \ {0}
      OBVIOUS
    <2> QED
      BY <2>1
  <1> HIDE DEF second
  <1>3. \A x \in Nat : 1 \in DOMAIN fmtTime(x) /\ fmtTime(x)[1] = second(x) /\ DOMAIN fmtTime(x) \subseteq Nat
    BY <1>1, <1>2 DEF fmtTime, second
  <1>4. second(s) < second(t)
    BY DEF second
  <1> HIDE DEF fmtTime
  <1>5. SortsBefore(fmtTime(s), fmtTime(t))
    BY <1>3, <1>4 DEF SortsBefore
  <1>6. ASSUME NEW k \in DOMAIN fmtTime(t) \cap DOMAIN fmtTime(s),
               fmtTime(t)[k] < fmtTime(s)[k],
               \A j \in 1 .. (k - 1) : fmtTime(t)[j] = fmtTime(s)[j]
        PROVE  FALSE
    <2>1. k \in Nat
      BY <1>3
    <2>2. k # 1
      BY <1>2, <1>3, <1>4, <1>6
    <2>3. k # 0
      BY <1>1, <1>2 DEF fmtTime, second
    <2>4. 1 \in 1 .. (k - 1)
      BY <2>1, <2>2, <2>3
    <2> QED
      BY <1>2, <1>3, <1>4, <1>6, <2>4
  <1> QED
    BY <1>5, <1>6 DEF SortsBefore

\* The row a change is found under: its own, or the one of its run.
StandsFor(cs, k, i) == k = i \/ (Folds(cs, k) /\ key(cs[k]) = key(cs[i]))

\* Folding loses nothing and shows nothing twice: every change has exactly one
\* row left standing for it, where it was or further up the page.
THEOREM FoldPartitions ==
    ASSUME NEW Change, NEW cs \in Seq(Change), NEW i \in DOMAIN cs
    PROVE  \E k \in Kept(cs) :
             /\ StandsFor(cs, k, i) /\ k <= i
             /\ \A other \in Kept(cs) : StandsFor(cs, other, i) => other = k
  <1>0. Len(cs) \in Nat /\ DOMAIN cs = 1 .. Len(cs)
    OBVIOUS
  <1>1. \A k \in DOMAIN cs : key(cs[k]) = key(cs[i]) => (Folds(cs, k) <=> Folds(cs, i))
    BY DEF Folds, key
  <1>2. CASE ~Folds(cs, i)
    <2>1. i \in Kept(cs) /\ StandsFor(cs, i, i) /\ i <= i
      BY <1>0, <1>2 DEF Kept, StandsFor
    <2>2. \A other \in Kept(cs) : StandsFor(cs, other, i) => other = i
      BY <1>1, <1>2 DEF Kept, StandsFor
    <2> QED
      BY <2>1, <2>2
  <1>3. CASE Folds(cs, i)
    <2> DEFINE run == {j \in DOMAIN cs : key(cs[j]) = key(cs[i])}
    <2>0. \A j \in run : j \in Nat /\ 1 <= j /\ j <= Len(cs)
      BY <1>0
    <2>1. PICK k \in run : \A j \in run : <<j, k>> \notin OpToRel(<, Nat)
      <3>1. run \subseteq Nat /\ i \in run
        BY <1>0
      <3> QED
        BY <3>1, NatLessThanWellFounded, WFMin
    <2>2. \A j \in run : k <= j
      <3>1. \A j \in run : j \in Nat /\ k \in Nat
        BY <1>0
      <3>2. \A j \in Nat : \A m \in Nat : j < m => <<j, m>> \in OpToRel(<, Nat)
        BY DEF OpToRel
      <3>3. \A j \in run : ~(j < k)
        BY <2>1, <3>1, <3>2
      <3> HIDE DEF run
      <3> QED
        BY <3>1, <3>3
    <2>3. k \in Kept(cs)
      <3>1. ASSUME NEW j \in 1 .. (k - 1)
            PROVE  key(cs[j]) # key(cs[k])
        <4>1. j \in DOMAIN cs /\ ~(k <= j)
          <5> HIDE DEF run
          <5> QED
            BY <1>0, <2>0
        <4> QED
          BY <2>1, <2>2, <4>1
      <3> QED
        BY <2>1, <3>1 DEF Kept
    <2>4. StandsFor(cs, k, i) /\ k <= i
      BY <1>1, <1>3, <2>1, <2>2 DEF StandsFor
    <2>5. ASSUME NEW other \in Kept(cs), StandsFor(cs, other, i)
          PROVE  other = k
      <3>1. other \in run /\ Folds(cs, other)
        BY <1>3, <2>5 DEF StandsFor, Kept
      <3>2. \A j \in 1 .. (other - 1) : key(cs[j]) # key(cs[other])
        BY <3>1 DEF Kept
      <3>3. k \notin 1 .. (other - 1)
        BY <2>1, <3>1, <3>2
      <3>4. k <= other /\ k \in Nat /\ other \in Nat /\ k >= 1
        <4> HIDE DEF run
        <4> QED
          BY <2>0, <2>2, <3>1
      <3> QED
        BY <3>3, <3>4
    <2> QED
      BY <2>3, <2>4, <2>5
  <1> QED
    BY <1>2, <1>3

=============================================================================
