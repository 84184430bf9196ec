------------------------------ MODULE MCRegistry ------------------------------
(* Instances of Registry for TLC.                                           *)
EXTENDS Registry, TLC

CONSTANTS k1, k2

\* Nothing to probe; one address with every verdict; and a second one that comes
\* and goes beside it: dead or alive beside a dead one, dead beside one that
\* could not be tried.
MCProbeRounds ==
    {[k \in {} |-> "dead"]}
        \cup {k1 :> v : v \in {"live", "dead", "unknown"}}
        \cup {k1 :> "dead" @@ k2 :> v : v \in {"live", "dead"}}
        \cup {k1 :> "unknown" @@ k2 :> "dead"}

=============================================================================
