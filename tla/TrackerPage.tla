----------------------------- MODULE TrackerPage -----------------------------
(***************************************************************************)
(* The detail of one tracker as it is served while passes go on and the    *)
(* collector closes its intervals: the open probe intervals are read with  *)
(* one query and the closed ones of the window with a later one, outside   *)
(* any transaction, and the page draws both on one axis.                   *)
(* Source: internal/api/api.go, internal/store/probes.go.                  *)
(***************************************************************************)
EXTENDS Denial

CONSTANT
    Window   \* ?days, in instants

ASSUME TrackerPageAssumption == Window \in 0 .. Retention

\* What handleTracker has read of the name so far.  Of the rows it keeps what
\* they leave open: the attempts of the window that were on record when it
\* began to read and that no interval it has read shows.
VARIABLE page

pvars == <<dvars, page>>

NoPage == [at |-> "none"]

\* An interval shows an attempt made in its time, when it says what was said.
Shows(iv, span, x) ==
    x[2] \in span /\ (x[3] \in {"live", "dead"} => iv.result = x[3])

-----------------------------------------------------------------------------

ProbesFor == rows

\* Mutant: the intervals that began in the window.
ProbeHistoryBegunIn(from) == {iv \in history : iv.since >= from}
\* ProbeHistoryFor: the closed intervals that overlap the window.
ProbeHistoryFor(from) == {iv \in history : iv.until >= from}

\* handleTracker, up to the query of the open intervals.
ReadOpen ==
    /\ page = NoPage
    /\ LET probes == ProbesFor
           shown(x) == x[1] \in DOMAIN probes
                       /\ Shows(probes[x[1]], probes[x[1]].since .. clock, x)
       IN  page' = [at |-> "half", from |-> clock - Window,
                    left |-> {x \in attempts : x[2] >= clock - Window /\ ~shown(x)}]
    /\ UNCHANGED dvars

\* The query of the closed ones, and the reply.
ReadClosed ==
    /\ page.at = "half"
    /\ LET closed == ProbeHistoryFor(page.from)
           shown(x) == \E iv \in closed : iv.pair = x[1] /\ Shows(iv, Span(iv), x)
       IN  page' = [at |-> "full", left |-> {x \in page.left : ~shown(x)}]
    /\ UNCHANGED dvars

\* Nothing that happens later changes the reply, so it is done with before
\* anything else happens.
Reply ==
    /\ page.at = "full"
    /\ page' = NoPage
    /\ UNCHANGED dvars

PInit == DInit /\ page = NoPage

PNext ==
    \/ page.at # "full" /\ DNext /\ UNCHANGED page
    \/ ReadOpen \/ ReadClosed \/ Reply

PSpec == PInit /\ [][PNext]_pvars

-----------------------------------------------------------------------------
(* Properties.                                                              *)

\* "History is the closed probe intervals in the window; the open one is the
\* matching row in Probes, so together they cover the axis": whatever pass or
\* denial closes intervals while the page is read, every attempt that was on
\* record when it began to be read, inside its window and the retention, is in
\* an interval it shows.  An interval closed in between is shown twice.
PageCoversAxis ==
    page.at = "full" => \A x \in page.left : x[2] < clock - Retention

=============================================================================
