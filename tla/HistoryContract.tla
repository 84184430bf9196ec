--------------------------- MODULE HistoryContract ---------------------------
(***************************************************************************)
(* What an address history promises its readers, without saying how the    *)
(* records, counters and modes are kept.  Per family there is a set of     *)
(* open records, a mode, and for every key the number of trusted answers   *)
(* in a row that did not name it.  A trusted answer may be held back, may  *)
(* be tracked in the present mode, or may switch the mode and re-record    *)
(* the family as a whole; nothing else ever changes the history.           *)
(***************************************************************************)
EXTENDS Integers

CONSTANTS Family, Addr, Prefix, Patience

VARIABLES open, rolling, unnamed

contract == <<open, rolling, unnamed>>

Recorded(mode) == IF mode THEN Prefix ELSE Addr

Init ==
    /\ open = [f \in Family |-> {}]
    /\ rolling = [f \in Family |-> FALSE]
    /\ unnamed = [f \in Family |-> [k \in Addr \cup Prefix |-> 0]]

\* Patience counts up to itself: only reaching it matters.
Unnamed(f, named) ==
    [k \in Addr \cup Prefix |->
        IF k \in named THEN 0
        ELSE IF unnamed[f][k] < Patience THEN unnamed[f][k] + 1
        ELSE unnamed[f][k]]

\* No answer to trust: nothing about the family moves.
Untouched(f) ==
    /\ open'[f] = open[f]
    /\ rolling'[f] = rolling[f]
    /\ unnamed'[f] = unnamed[f]

\* An answer that is only counted.
Held(f, named) ==
    /\ unnamed'[f] = Unnamed(f, named)
    /\ open'[f] = open[f]
    /\ rolling'[f] = rolling[f]

\* Everything named in this mode is open afterwards, nothing else opens, and
\* a record closes only when the patience with it has run out.
Tracked(f, named) ==
    /\ unnamed'[f] = Unnamed(f, named)
    /\ rolling'[f] = rolling[f]
    /\ named \cap Recorded(rolling[f]) \subseteq open'[f]
    /\ open'[f] \subseteq open[f] \cup (named \cap Recorded(rolling[f]))
    /\ \A k \in open[f] \ open'[f] : unnamed'[f][k] = Patience

\* The family is recorded afresh, in the other mode.
Switched(f, named) ==
    /\ unnamed'[f] = Unnamed(f, named)
    /\ rolling'[f] = ~rolling[f]
    /\ open'[f] = named \cap Recorded(rolling'[f])

FamilyStep(f) ==
    \/ Untouched(f)
    \/ \E named \in SUBSET (Addr \cup Prefix) :
          Held(f, named) \/ Tracked(f, named) \/ Switched(f, named)

Next ==
    /\ \A f \in Family : FamilyStep(f)
    /\ DOMAIN open' = Family /\ DOMAIN rolling' = Family /\ DOMAIN unnamed' = Family

Spec == Init /\ [][Next]_contract

=============================================================================
