--------------------------------- MODULE Reach ---------------------------------
(***************************************************************************)
(* The reach of a name: what the verdicts of its addresses add up to, and  *)
(* which of its transitions the change feed reports.                       *)
(* Source: internal/store/probes.go.                                       *)
(***************************************************************************)

\* RollUp: unknown verdicts abstain.
RollUp(verdicts) ==
    CASE {"live", "dead"} \subseteq verdicts -> "partial"
      [] "live" \in verdicts /\ "dead" \notin verdicts -> "live"
      [] "dead" \in verdicts /\ "live" \notin verdicts -> "dead"
      [] OTHER -> "unknown"

Answers(r) == r \in {"live", "partial"}

\* ReachChange: the entry a transition is worth, "" when it is not news.
ReachChange(prev, next) ==
    CASE prev = next \/ next = "unknown" -> ""
      [] prev # next /\ next = "dead" -> "tracker_down"
      [] prev = "live" /\ next = "partial" -> "tracker_partial"
      [] OTHER -> "tracker_up"

=============================================================================
