------------------------------ MODULE ClientLists ------------------------------
(***************************************************************************)
(* The lists of announce URLs served to clients: the eligible endpoints    *)
(* are put together from queries made one after the other, best uptime     *)
(* first, filtered by what the request asks for, and capped per origin AS. *)
(* Source: internal/store/lists.go, internal/api/list.go.                  *)
(***************************************************************************)
EXTENDS Availability

CONSTANTS
    Request,     \* the requests that come
    Networks,    \* what TrackerNetworks may return
    HalfDays,    \* how long each tracker has been on record
    Families,    \* the families of its active records
    Scheme,      \* the scheme of each endpoint
    MaxListRows  \* bound: intervals read before a list is served

ASSUME ClientListsAssumption ==
    /\ Networks \subseteq [Tracker -> SUBSET (Nat \ {0})]
    /\ HalfDays \in [Tracker -> Nat]
    /\ Families \in [Tracker -> SUBSET {4, 6}]
    /\ Scheme \in [Endpoint -> {"udp", "http", "https"}]
    /\ Request \subseteq [bar : 0 .. 100, schemes : SUBSET {"udp", "http", "https"},
                          liveOnly : BOOLEAN, minAge : Nat, perAS : Nat,
                          require : SUBSET {4, 6}]
    /\ MaxListRows \in Nat

\* The list served, with what it was made from.
VARIABLE reply

lvars == <<avars, reply>>

NoReply == [at |-> "none"]
Served == reply.at = "served"

-----------------------------------------------------------------------------
(* ListEndpoints.                                                           *)

Entry(ep, figures, answering) ==
    [ep |-> ep, tracker |-> TrackerOf[ep], uptime |-> figures[ep],
     answers |-> ep \in answering]

\* Availability.Share of one figure above that of another; without a
\* measurement the share is 0.
ShareAbove(u, v) ==
    u.live * (IF v.measured = 0 THEN 1 ELSE v.measured)
        > v.live * (IF u.measured = 0 THEN 1 ELSE u.measured)

\* Best uptime first, then by name and URL.
Better(x, y) ==
    \/ ShareAbove(x.uptime, y.uptime)
    \/ ~ShareAbove(y.uptime, x.uptime) /\ x.ep < y.ep

\* sort.Slice, one entry at a time: after all that are better.
Placed(sorted, e) ==
    InsertAt(sorted, Cardinality({i \in DOMAIN sorted : Better(sorted[i], e)}) + 1, e)

ListEndpoints(listed, figures, answering) ==
    LET sorted[ep \in 0 .. Cardinality(Endpoint)] ==
            IF ep = 0 THEN <<>>
            ELSE IF ep \in listed THEN Placed(sorted[ep - 1], Entry(ep, figures, answering))
            ELSE sorted[ep - 1]
    IN  sorted[Cardinality(Endpoint)]

-----------------------------------------------------------------------------
(* The request.                                                             *)

\* wants: an uptime bar needs a measurement to clear it.
wants(r, e) ==
    /\ r.liveOnly => e.answers
    /\ r.bar > 0 => /\ e.uptime.measured > 0
                    /\ e.uptime.live * 100 >= r.bar * e.uptime.measured
    /\ r.schemes = {} \/ Scheme[e.ep] \in r.schemes

historyDaysBegun(ts) ==   \* Mutant: a day begun counts.
    IF ts = {} THEN 0
    ELSE ((CHOOSE n \in {HalfDays[t] : t \in ts} : \A t \in ts : HalfDays[t] <= n) + 1) \div 2

\* historyDays: whole days since the oldest name of the list was added.
historyDays(ts) ==
    IF ts = {} THEN 0
    ELSE (CHOOSE n \in {HalfDays[t] : t \in ts} : \A t \in ts : HalfDays[t] <= n) \div 2

\* The age floor, clamped to the history held.
Floor(r, ts) == IF r.minAge > historyDays(ts) THEN historyDays(ts) ELSE r.minAge
OldEnough(floor, t) == floor > 0 => HalfDays[t] >= 2 * floor

\* The entries of a list that are among some, in their order.
Only(entries, some) ==
    LET only[i \in 0 .. Len(entries)] ==
            IF i = 0 THEN <<>>
            ELSE IF entries[i] \in some THEN Append(only[i - 1], entries[i])
            ELSE only[i - 1]
    IN  only[Len(entries)]

Keep(r, entries) ==
    LET floor == Floor(r, {entries[i].tracker : i \in DOMAIN entries})
    IN  Only(entries, {e \in Range(entries) :
            /\ wants(r, e) /\ OldEnough(floor, e.tracker)
            /\ r.require \subseteq Families[e.tracker]})

\* capPerAS while it walks the entries: what each AS has been charged, the
\* verdicts so far and the list so far.
Begun(nets) ==
    [count   |-> [n \in UNION Range(nets) |-> 0],
     verdict |-> [t \in DOMAIN nets |-> "none"],
     out     |-> <<>>]

Charged(count, ns) == [n \in DOMAIN count |-> IF n \in ns THEN count[n] + 1 ELSE count[n]]

admitFirst(count, ns, quota) ==   \* Mutant: only one of the ASes is looked at.
    ns = {} \/ \E n \in ns : count[n] < quota

\* admit: every AS it sits in is under quota.
admit(count, ns, quota) == \A n \in ns : count[n] < quota

CapChargingAll(nets, quota, st, e) ==   \* Mutant: the refused are charged too.
    LET t    == e.tracker
        new  == st.verdict[t] = "none"
        keep == IF new THEN admit(st.count, nets[t], quota) ELSE st.verdict[t] = "kept"
    IN  [count   |-> IF new THEN Charged(st.count, nets[t]) ELSE st.count,
         verdict |-> [st.verdict EXCEPT ![t] = IF keep THEN "kept" ELSE "dropped"],
         out     |-> IF keep THEN Append(st.out, e) ELSE st.out]

\* One entry: its tracker's verdict, made when the first of its endpoints
\* comes, and charged to all its ASes when it is taken.
Cap(nets, quota, st, e) ==
    LET t    == e.tracker
        new  == st.verdict[t] = "none"
        keep == IF new THEN admit(st.count, nets[t], quota) ELSE st.verdict[t] = "kept"
    IN  [count   |-> IF new /\ keep THEN Charged(st.count, nets[t]) ELSE st.count,
         verdict |-> [st.verdict EXCEPT ![t] = IF keep THEN "kept" ELSE "dropped"],
         out     |-> IF keep THEN Append(st.out, e) ELSE st.out]

capPerAS(entries, nets, quota) ==
    LET walk[i \in 0 .. Len(entries)] ==
            IF i = 0 THEN Begun(nets) ELSE Cap(nets, quota, walk[i - 1], entries[i])
    IN  walk[Len(entries)].out

\* handleList.  The uptime is read first; what answers, or which names are
\* listed, may have changed by the time the other queries run: here one
\* endpoint or one name at most.
handleList(r, nets) ==
    LET figures == [ep \in Endpoint |-> availability(endpoints[ep])]
        now     == {ep \in Endpoint : figures[ep].answering}
        Serve(answering, listed) ==
            LET entries == ListEndpoints(listed, figures, answering)
                keep    == Keep(r, entries)
            IN  reply' = [at |-> "served", request |-> r, nets |-> nets,
                          entries |-> entries, keep |-> keep,
                          out |-> IF r.perAS > 0 THEN capPerAS(keep, nets, r.perAS) ELSE keep]
    IN  /\ ~Served /\ Len(read) <= MaxListRows
        /\ \/ Serve(now, Endpoint)
           \/ \E ep \in Endpoint :
                Serve(IF ep \in now THEN now \ {ep} ELSE now \cup {ep}, Endpoint)
           \/ \E t \in Tracker : Serve(now, {ep \in Endpoint : TrackerOf[ep] # t})
        /\ UNCHANGED avars

\* TrackerNetworks is queried for a capped list only.
Asked(r) == IF r.perAS > 0 THEN Networks ELSE {[t \in Tracker |-> {}]}

LInit == AInit /\ reply = NoReply

LNext ==
    \/ ~Served /\ ANext /\ UNCHANGED reply
    \/ \E r \in Request : \E nets \in Asked(r) : handleList(r, nets)

LSpec == LInit /\ [][LNext]_lvars

-----------------------------------------------------------------------------
(* Properties.                                                              *)

Trackers(entries) == {entries[i].tracker : i \in DOMAIN entries}
Quota == reply.request.perAS

\* per_as: no more than that many trackers of a list sit in any one AS, also
\* when they sit in several.
QuotaHolds ==
    Served /\ Quota > 0 =>
        \A n \in UNION Range(reply.nets) :
            Cardinality({t \in Trackers(reply.out) : n \in reply.nets[t]}) <= Quota

\* A tracker is left out for its network only when one of its ASes was filled
\* by trackers with a better endpoint, all of which are in the list; one of no
\* known network never is, and the endpoints of a tracker go together.
FirstOf(t) == CHOOSE i \in DOMAIN reply.keep :
    reply.keep[i].tracker = t /\ \A j \in 1 .. (i - 1) : reply.keep[j].tracker # t
DroppedForAReason ==
    Served =>
        /\ reply.out = Only(reply.keep, {e \in Range(reply.keep) :
                                            e.tracker \in Trackers(reply.out)})
        /\ \A t \in Trackers(reply.keep) \ Trackers(reply.out) :
             \E n \in reply.nets[t] :
                Cardinality({u \in Trackers(reply.out) :
                    n \in reply.nets[u] /\ FirstOf(u) < FirstOf(t)}) = Quota

\* The age floor is relaxed "so the list is the best one available": whatever
\* floor is asked for, the oldest name of the registry is never below it.
FloorKeepsTheOldest ==
    Served =>
        \A i \in DOMAIN reply.entries :
            LET e == reply.entries[i]
                eldest == \A j \in DOMAIN reply.entries :
                            HalfDays[reply.entries[j].tracker] <= HalfDays[e.tracker]
            IN  /\ eldest /\ wants(reply.request, e)
                /\ reply.request.require \subseteq Families[e.tracker]
                => e \in Range(reply.keep)

=============================================================================
