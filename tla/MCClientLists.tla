---------------------------- MODULE MCClientLists ----------------------------
(* Instances of ClientLists for TLC: three trackers, the first with two     *)
(* endpoints.                                                               *)
EXTENDS ClientLists

CONSTANTS t1, t2, t3

MCTrackerOf == <<t1, t1, t2, t3>>
MCScheme == <<"udp", "http", "udp", "https">>
MCHalfDays == [t \in Tracker |-> CASE t = t1 -> 1 [] t = t2 -> 5 [] OTHER -> 3]
MCFamilies == [t \in Tracker |-> CASE t = t1 -> {4} [] t = t2 -> {4, 6} [] OTHER -> {6}]

\* The middle one shares an AS with each of the others, or knows none.
MCNetworks ==
    {[t \in Tracker |-> CASE t = t1 -> {1} [] t = t2 -> n [] OTHER -> m] :
        n \in {{}, {1, 2}}, m \in {{1}, {2}}}

Ask(bar, schemes, live, age, quota, families) ==
    [bar |-> bar, schemes |-> schemes, liveOnly |-> live, minAge |-> age,
     perAS |-> quota, require |-> families]

\* stable (its floor cut to two days), live and all capped, a percentage of
\* one scheme, and stable with live=0 for one family.
MCRequest ==
    {Ask(95, {}, TRUE, 2, 0, {}), Ask(0, {}, TRUE, 0, 1, {}), Ask(0, {}, FALSE, 0, 2, {}),
     Ask(50, {"http", "https"}, TRUE, 1, 1, {}), Ask(95, {}, FALSE, 3, 0, {6})}

=============================================================================
