--------------------------------- MODULE Feed ---------------------------------
(***************************************************************************)
(* The change feed: entries are appended with the time their pass read its *)
(* clock, stored as text, asked for by time, and folded for the pages.  A  *)
(* time is a whole second and two digits of a fraction.                    *)
(* Source: internal/store/records.go, internal/store/store.go,             *)
(* internal/api/api.go, internal/api/fallback.go.                          *)
(***************************************************************************)
EXTENDS Integers, Sequences, FiniteSets, SequencesExt

CONSTANTS
    Tracker,
    Type,       \* the kinds of changes that are recorded
    Base,       \* how many digits there are, 2 or more
    Limit,      \* the limits that are asked for
    FeedRead,   \* fallbackFeedRead: entries read for a page
    Shown,      \* fallbackChanges: rows shown on one
    MaxTime,    \* bound: the clock stops there
    MaxChanges  \* bound: entries in the feed

VARIABLES
    clock,
    changes,  \* the table, in the order of its ids
    reply     \* the answer to the last request

vars == <<clock, changes, reply>>

Time == 0 .. MaxTime
NoReply == [at |-> "none"]
Entries(c) == {c[i] : i \in DOMAIN c}

-----------------------------------------------------------------------------
(* Times as text.                                                           *)

\* The characters told apart: a point sorts before the digits, Z after them.
Point == -1
Zulu == Base

\* fmtTime: the second, and the fraction without the zeros it ends in.
Fraction(t) ==
    LET tenths == (t % (Base * Base)) \div Base
        hundredths == t % Base
    IN  CASE hundredths # 0 -> <<Point, tenths, hundredths, Zulu>>
          [] hundredths = 0 /\ tenths # 0 -> <<Point, tenths, Zulu>>
          [] OTHER -> <<Zulu>>
fmtTime(t) == <<t \div (Base * Base)>> \o Fraction(t)

\* How SQLite compares text.
SortsBefore(s, t) ==
    \E k \in DOMAIN s \cap DOMAIN t :
        /\ s[k] < t[k]
        /\ \A j \in 1 .. (k - 1) : s[j] = t[j]

-----------------------------------------------------------------------------
(* Queries, newest first.                                                   *)

Newer(x, y) ==
    \/ SortsBefore(fmtTime(y.at), fmtTime(x.at))
    \/ y.at = x.at /\ y.id < x.id

Clamped(limit) == IF limit <= 0 \/ limit > 1000 THEN 200 ELSE limit
Newest(entries, limit) ==
    LET sorted == SetToSortSeq(entries, Newer)
        n      == Clamped(limit)
    IN  SubSeq(sorted, 1, IF Len(sorted) < n THEN Len(sorted) ELSE n)

\* -1 is the zero time: no lower bound.
NoBound == -1
RecentChanges(since, limit) ==
    Newest({e \in Entries(changes) :
        since # NoBound => ~SortsBefore(fmtTime(e.at), fmtTime(since))}, limit)
ChangesFor(tracker, limit) ==
    Newest({e \in Entries(changes) : e.tracker = tracker}, limit)

-----------------------------------------------------------------------------
(* Folding.                                                                 *)

minRun == 3

churnGroup(type) ==
    CASE type \in {"ip_added", "ip_removed"} -> "address"
      [] type \in {"prefix_added", "prefix_removed"} -> "prefix"
      [] type \in {"ips_rolling", "ips_stable"} -> "rolling"
      [] type \in {"tracker_up", "tracker_down", "tracker_partial"} -> "reach"
      [] type = "status_changed" -> "dns"
      [] type \in {"bep34_added", "bep34_removed", "bep34_changed"} -> "bep34"
      [] OTHER -> ""

key(c) == <<c.tracker, churnGroup(c.type)>>
counts(cs, k) == Cardinality({i \in DOMAIN cs : key(cs[i]) = k})
Folds(cs, i) == churnGroup(cs[i].type) # "" /\ counts(cs, key(cs[i])) >= minRun

\* A run has its row where its newest member was.
Kept(cs) ==
    {i \in DOMAIN cs : Folds(cs, i) => \A j \in 1 .. (i - 1) : key(cs[j]) # key(cs[i])}

\* A row, with the group and the length of the run it stands for, or the type
\* of its one change.
feedRow(cs, i) ==
    [tracker |-> cs[i].tracker, latest |-> cs[i].at,
     text |-> IF Folds(cs, i)
              THEN [group |-> churnGroup(cs[i].type), count |-> counts(cs, key(cs[i]))]
              ELSE [group |-> "", type |-> cs[i].type]]

collapseChanges(cs) ==
    LET at == SetToSortSeq(Kept(cs), LAMBDA i, j : i < j)
    IN  [n \in DOMAIN at |-> feedRow(cs, at[n])]

-----------------------------------------------------------------------------

Tick == \E t \in Time : t > clock /\ clock' = t /\ UNCHANGED <<changes, reply>>

\* insertChange, in the transaction of a pass that read its clock just now or
\* before it went to the network.
insertChange(tracker, type) ==
    /\ Len(changes) < MaxChanges
    /\ \E at \in {clock, clock - 1} \cap Time :
         changes' = Append(changes,
            [id |-> Len(changes) + 1, tracker |-> tracker, type |-> type, at |-> at])
    /\ UNCHANGED <<clock, reply>>

handleChanges(since, limit) ==
    /\ reply' = [at |-> "changes", since |-> since, limit |-> limit,
                 rows |-> RecentChanges(since, limit)]
    /\ UNCHANGED <<clock, changes>>

\* The dashboard folds what it reads of the feed, a name's page what it reads
\* of that name's; both stop at Shown rows and say that there is folding, the
\* dashboard when rows were folded, the other when there are fewer rows.
FirstRows(rows) == SubSeq(rows, 1, IF Len(rows) < Shown THEN Len(rows) ELSE Shown)
dashboardSections ==
    LET read == RecentChanges(NoBound, FeedRead)
        rows == collapseChanges(read)
    IN  /\ reply' = [at |-> "dashboard", rows |-> FirstRows(rows), folded |-> Len(read) > Len(rows)]
        /\ UNCHANGED <<clock, changes>>
trackerSections(tracker) ==
    LET read == ChangesFor(tracker, FeedRead)
        rows == FirstRows(collapseChanges(read))
    IN  /\ reply' = [at |-> "name", rows |-> rows, folded |-> Len(read) > Len(rows)]
        /\ UNCHANGED <<clock, changes>>

\* The reply is gone before anything else happens.
Read == reply # NoReply /\ reply' = NoReply /\ UNCHANGED <<clock, changes>>

Init == clock = 0 /\ changes = <<>> /\ reply = NoReply

Next ==
    \/ reply = NoReply /\
         \/ Tick
         \/ \E t \in Tracker, type \in Type : insertChange(t, type)
         \/ \E since \in Time \cup {NoBound}, limit \in Limit : handleChanges(since, limit)
         \/ dashboardSections
         \/ \E t \in Tracker : trackerSections(t)
    \/ Read

Spec == Init /\ [][Next]_vars

-----------------------------------------------------------------------------
(* Properties.                                                              *)

\* records.go: "the newest changes, optionally limited to those at or after
\* since", over times that store.go says are stored "so they sort
\* lexicographically": an answer that is shorter than its limit holds every
\* change that is at or after its bound.
SinceIsWhole ==
    reply.at = "changes" /\ Len(reply.rows) < Clamped(reply.limit) =>
        \A e \in Entries(changes) : e.at >= reply.since => e \in Entries(reply.rows)

=============================================================================
