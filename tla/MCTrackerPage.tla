---------------------------- MODULE MCTrackerPage ----------------------------
(* Instances of TrackerPage for TLC.                                        *)
EXTENDS TrackerPage, TLC

CONSTANTS p1, p2, e1, a1, a2

\* Two ways to deny, a record with a repeated and a surplus word, and a text that is
\* somebody else's.
MCTexts ==
    <<[first |-> "BITTORRENT", words |-> <<>>],
      [first |-> "BITTORRENT", words |-> <<[proto |-> "DENY", port |-> 0]>>],
      [first |-> "BITTORRENT",
       words |-> <<[proto |-> "UDP", port |-> 1], [proto |-> "UDP", port |-> 1],
                   [proto |-> "TCP", port |-> 80], [proto |-> "UDP", port |-> 2],
                   [proto |-> "UDP", port |-> 3]>>],
      [first |-> "v=spf1", words |-> <<>>]>>

=============================================================================
