------------------------------ MODULE Availability ------------------------------
(***************************************************************************)
(* Uptime over a window: the probe intervals of a name are read one by     *)
(* one, clipped to the window, and folded into measured and answering      *)
(* time, for the name and for each endpoint.                               *)
(* Source: internal/store/availability.go.                                 *)
(***************************************************************************)
EXTENDS Integers, Sequences, FiniteSets, SequencesExt

CONSTANTS
    Endpoint,   \* endpoints, as numbers: the order of tracker name and URL
    Tracker,
    TrackerOf,  \* the tracker of each endpoint
    Result,     \* the verdicts an interval may hold
    MaxTime,    \* bound: intervals lie within 0 .. MaxTime
    From, Until,\* the window
    MaxRows     \* bound: intervals read

ASSUME AvailabilityAssumption ==
    /\ IsFiniteSet(Endpoint) /\ Endpoint = 1 .. Cardinality(Endpoint)
    /\ IsFiniteSet(Tracker)
    /\ TrackerOf \in [Endpoint -> Tracker]
    /\ Result \subseteq {"live", "dead", "unknown"}
    /\ MaxTime \in Nat /\ MaxRows \in Nat
    /\ From \in 0 .. MaxTime /\ Until \in 0 .. MaxTime /\ From < Until

VARIABLES
    read,      \* observer: the rows read so far
    endpoints, \* per endpoint: the clipped intervals, measured and live
    trackers   \* per tracker: the same of all its endpoints

avars == <<read, endpoints, trackers>>

Interval == [start : 0 .. MaxTime, end : 0 .. MaxTime]

\* What the query selects of probe_history and probes: an interval of an
\* endpoint on one of its addresses, with its verdict, that ends in the window
\* or later.
Row == {r \in [ep : Endpoint, result : Result, iv : Interval] :
            r.iv.start < r.iv.end /\ r.iv.start < Until /\ r.iv.end > From}

\* interval.clip.
clip(iv) ==
    [start |-> IF iv.start < From THEN From ELSE iv.start,
     end   |-> IF iv.end > Until THEN Until ELSE iv.end]

\* merge's sort.Slice, one interval at a time: after those that start no later.
Inserted(sorted, iv) ==
    InsertAt(sorted, Cardinality({i \in DOMAIN sorted : sorted[i].start <= iv.start}) + 1, iv)

SortedByStart(ivs) ==
    LET sorted[i \in 0 .. Len(ivs)] ==
            IF i = 0 THEN <<>> ELSE Inserted(sorted[i - 1], ivs[i])
    IN  sorted[Len(ivs)]

\* One more interval folded onto the last of those merged so far.
FoldOnto(out, iv) ==
    IF out = <<>> \/ iv.start > Last(out).end THEN Append(out, iv)
    ELSE IF iv.end > Last(out).end
         THEN [out EXCEPT ![Len(out)] = [start |-> Last(out).start, end |-> iv.end]]
    ELSE out

Folded(sorted) ==
    LET folded[i \in 0 .. Len(sorted)] ==
            IF i = 0 THEN <<>> ELSE FoldOnto(folded[i - 1], sorted[i])
    IN  folded[Len(sorted)]

FoldApart(out, iv) ==   \* Mutant: intervals that only touch stay apart.
    IF out # <<>> /\ iv.start = Last(out).end THEN Append(out, iv) ELSE FoldOnto(out, iv)
mergeTouching(ivs) == FoldLeft(FoldApart, <<>>, SortedByStart(ivs))

mergeUnsorted(ivs) == Folded(ivs)   \* Mutant: in read order.

\* merge.
merge(ivs) == Folded(SortedByStart(ivs))

cover(merged) ==
    LET total[i \in 0 .. Len(merged)] ==
            IF i = 0 THEN 0 ELSE total[i - 1] + (merged[i].end - merged[i].start)
    IN  total[Len(merged)]

\* spans.availability, Since being -1 when nothing is being measured now.
availability(sp) ==
    LET live     == merge(sp.live)
        measured == merge(sp.measured)
        present  == measured # <<>> /\ Last(measured).end >= Until
        answers  == present /\ live # <<>> /\ Last(live).end >= Until
        since    == CASE ~present -> -1
                      [] answers -> Last(live).start
                      [] present /\ ~answers /\ live # <<>> -> Last(live).end
                      [] OTHER -> measured[1].start
    IN  [live |-> cover(live), measured |-> cover(measured),
         answering |-> answers, since |-> since,
         clipped |-> present /\ since <= From]

NoSpans == [measured |-> <<>>, live |-> <<>>]

\* spans.add: every interval is measured time, a live one answering time too.
add(sp, iv, live) ==
    [measured |-> Append(sp.measured, iv),
     live |-> IF live THEN Append(sp.live, iv) ELSE sp.live]

\* AvailabilityOver, one row, onto its endpoint and onto its tracker.  Unknown
\* verdicts stay out in the query.
Scan(row) ==
    LET iv   == clip(row.iv)
        live == row.result = "live"
        left == row.result # "unknown" /\ iv.end > iv.start
    IN  /\ Len(read) < MaxRows
        /\ read' = Append(read, row)
        /\ endpoints' = IF left THEN [endpoints EXCEPT ![row.ep] = add(@, iv, live)]
                        ELSE endpoints
        /\ trackers' = IF left THEN [trackers EXCEPT ![TrackerOf[row.ep]] = add(@, iv, live)]
                       ELSE trackers

AInit ==
    /\ read = <<>>
    /\ endpoints = [ep \in Endpoint |-> NoSpans]
    /\ trackers = [t \in Tracker |-> NoSpans]

ANext == \E row \in Row : Scan(row)

ASpec == AInit /\ [][ANext]_avars

-----------------------------------------------------------------------------
(* Properties: the figures against their meaning, instant by instant.       *)

SpansOK ==
    \A sp \in Range(endpoints) \cup Range(trackers) :
        /\ ToSet(sp.measured) \subseteq Interval
        /\ ToSet(sp.live) \subseteq ToSet(sp.measured)

\* The instants of the window at which some row of the endpoints said so.
Instants(eps, results) ==
    {t \in From .. (Until - 1) : \E i \in DOMAIN read :
        /\ read[i].ep \in eps /\ read[i].result \in results
        /\ t \in read[i].iv.start .. (read[i].iv.end - 1)}

Least(s) == CHOOSE t \in s : \A u \in s : t <= u
Greatest(s) == CHOOSE t \in s : \A u \in s : u <= t

\* What the figures mean: an instant counts once however many addresses
\* covered it, an unmeasured one not at all; the present stretch is the
\* longest one of answering instants up to now, or of silence since the last
\* answer.
Meaning(eps) ==
    LET live     == Instants(eps, {"live"})
        measured == Instants(eps, {"live", "dead"})
        now      == Until - 1
        since    == CASE now \notin measured -> -1
                      [] now \in live -> Least({t \in live : t .. now \subseteq live})
                      [] now \in measured \ live /\ live # {} -> Greatest(live) + 1
                      [] OTHER -> Least(measured)
    IN  [live |-> Cardinality(live), measured |-> Cardinality(measured),
         answering |-> now \in live, since |-> since,
         clipped |-> now \in measured /\ since = From]

\* The figure of each endpoint is what its rows mean, in whatever order and
\* however overlapping they were read.
EndpointFigures == \A ep \in Endpoint : availability(endpoints[ep]) = Meaning({ep})

\* A client needs one pair to work, not all of them: the name counts as up
\* whenever anything answered.
NameFigure ==
    \A t \in Tracker :
        availability(trackers[t]) = Meaning({ep \in Endpoint : TrackerOf[ep] = t})

\* The uptime of every endpoint and of every name is what the probe intervals
\* say of them.
AvailabilityInv == SpansOK /\ EndpointFigures /\ NameFigure

=============================================================================
