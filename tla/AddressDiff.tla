---------------------------- MODULE AddressDiff ----------------------------
(***************************************************************************)
(* The pure half of collection: what one trusted DNS answer does to the    *)
(* stored address records of one family of one tracker.                    *)
(* Source: internal/collector/diff.go.                                     *)
(*                                                                         *)
(* A record is identified by its key.  A key that is an address is an      *)
(* ordinary record (is_prefix = 0), a key that is a prefix is the          *)
(* collapsed record of a rolling family (is_prefix = 1).                   *)
(***************************************************************************)
EXTENDS Integers, FiniteSets

CONSTANTS
    Addr,           \* addresses a family may answer with
    Prefix,         \* routed prefixes those addresses sit in
    PrefixesOf,     \* the prefixes each address sits in, one inside another
    Nowhere,        \* marks the fingerprint of a family never answered for
    MissThreshold,  \* --miss-threshold
    RollAfter,      \* --roll-after; not positive is off
    SteadyAfter     \* --steady-after

ASSUME DiffAssumption ==
    /\ Addr \cap Prefix = {}
    /\ Nowhere \notin Addr \cup Prefix
    /\ PrefixesOf \in [Addr -> SUBSET Prefix]
    /\ MissThreshold \in Int
    /\ RollAfter \in Int
    /\ SteadyAfter \in Int

Key == Addr \cup Prefix

missThreshold == IF MissThreshold < 1 THEN 1 ELSE MissThreshold

steadyAfter == IF SteadyAfter < 1 THEN 6 ELSE SteadyAfter

-----------------------------------------------------------------------------
(* Churn bookkeeping of one family, a row of family_state.                  *)

\* The fingerprint "" of a family that has no family_state row yet.
Unseen == {Nowhere}

\* steady is compared with steadyAfter only (> and >=), so it may saturate
\* one above it without changing any decision.
Trend == [fp : SUBSET (Addr \cup {Nowhere}), churn : Nat,
          steady : 0 .. steadyAfter + 1, rolling : BOOLEAN]

NewTrend == [fp |-> Unseen, churn |-> 0, steady |-> 0, rolling |-> FALSE]

Saturated(n, top) == IF n < top THEN n + 1 ELSE n

\* Mutant: churn never decays, so a burst of changes is held against the
\* family for good.
CountedWithoutDecay(trend, answer) ==
    IF trend.fp \in {Unseen, answer}
    THEN [trend EXCEPT !.fp = answer,
                       !.steady = Saturated(trend.steady, steadyAfter + 1)]
    ELSE [trend EXCEPT !.fp = answer, !.steady = 0, !.churn = trend.churn + 1]

\* Mutant: decay without looking at zero.
CountedBelowZero(trend, answer) ==
    IF trend.fp \in {Unseen, answer}
    THEN [trend EXCEPT
            !.fp = answer,
            !.steady = Saturated(trend.steady, steadyAfter + 1),
            !.churn = IF trend.steady >= steadyAfter THEN @ - 1 ELSE @]
    ELSE [trend EXCEPT !.fp = answer, !.steady = 0, !.churn = trend.churn + 1]

\* Mutant: a changed answer does not restart the settling window.
CountedKeepsSteady(trend, answer) ==
    IF trend.fp \in {Unseen, answer}
    THEN [trend EXCEPT
            !.fp = answer,
            !.steady = Saturated(trend.steady, steadyAfter + 1),
            !.churn = IF trend.steady >= steadyAfter /\ trend.churn > 0
                      THEN trend.churn - 1 ELSE trend.churn]
    ELSE [trend EXCEPT !.fp = answer, !.churn = trend.churn + 1]

\* The counting half of rollingDecision: an unchanged answer settles the
\* family and, past the settling window, decays one change; a changed one
\* counts as churn.  The fingerprint of an answer is its address set.
Counted(trend, answer) ==
    IF trend.fp \in {Unseen, answer}
    THEN [trend EXCEPT
            !.fp = answer,
            !.steady = Saturated(trend.steady, steadyAfter + 1),
            !.churn = IF trend.steady >= steadyAfter /\ trend.churn > 0
                      THEN trend.churn - 1 ELSE trend.churn]
    ELSE [trend EXCEPT !.fp = answer, !.steady = 0, !.churn = trend.churn + 1]

\* Mutant: churn is not cleared when a family stops rolling.
rollingDecisionKeepsChurn(trend, answer) ==
    LET seen == Counted(trend, answer)
    IN  [seen EXCEPT !.rolling =
            /\ RollAfter > 0
            /\ IF trend.rolling THEN seen.steady < steadyAfter
               ELSE seen.churn >= RollAfter]

\* rollingDecision: the trend after the answer, with the mode it calls for.
rollingDecision(trend, answer) ==
    LET seen == Counted(trend, answer)
    IN  CASE RollAfter <= 0 ->
                [seen EXCEPT !.rolling = FALSE]
          [] RollAfter > 0 /\ ~trend.rolling /\ seen.churn >= RollAfter ->
                [seen EXCEPT !.rolling = TRUE]
          [] RollAfter > 0 /\ trend.rolling /\ seen.steady >= steadyAfter ->
                [seen EXCEPT !.rolling = FALSE, !.churn = 0]
          [] OTHER -> seen

-----------------------------------------------------------------------------
(* The diff itself.                                                         *)

\* prefixIndex: what lookup makes of each address.  That is the prefix on record
\* for the address itself, or else the narrowest that contains it of those on
\* record for others; Nowhere is the code's "".  Which one may change.
Index == {found \in [Addr -> Prefix \cup {Nowhere}] :
             \A a \in Addr : found[a] \in PrefixesOf[a] \cup {Nowhere}}

\* prefixesOf: the distinct known prefixes of the answered addresses.
prefixesOf(answer, known) == {known[a] : a \in answer} \ {Nowhere}

\* The keys of the records a family holds in each tracking mode.
KeysIn(rolling) == IF rolling THEN Prefix ELSE Addr

\* supersede: the records a family leaves behind when it enters a mode.
SupersededNothing(active, rolling) == {}   \* Mutant: they stay open.
Superseded(active, rolling) == active \ KeysIn(rolling)

\* reconcile: whether one more absence retires a record.
ExhaustedLate(count) == count >= missThreshold   \* Mutant: one absence more.
Exhausted(count) == count + 1 >= missThreshold

\* The mode is put back when there is no prefix to collapse onto.
Unswitched(next, trend) == next   \* Mutant: the switch is kept.
PutBack(next, trend) == [next EXCEPT !.rolling = trend.rolling]

\* A plan that leaves the records alone and stores the trend.
Hold(trend) ==
    [add |-> {}, refresh |-> {}, miss |-> {}, remove |-> {},
     supersede |-> {}, switched |-> FALSE, trend |-> trend]

\* The plan for one family whose query was answered: supersede closes what
\* the other mode left behind, reconcile diffs the target against the
\* records of this mode.  The second case is the switch to prefixes that no
\* known prefix allows: the mode is put back and nothing is reconciled.
Diff(active, misses, trend, answer, known) ==
    LET next     == rollingDecision(trend, answer)
        switched == next.rolling # trend.rolling
        target   == IF next.rolling THEN prefixesOf(answer, known) ELSE answer
        mine     == active \cap KeysIn(next.rolling)
        absent   == IF switched THEN {} ELSE mine \ target
        gone     == {k \in absent : Exhausted(misses[k])}
    IN  IF next.rolling /\ target = {}
        THEN Hold(PutBack(next, trend))
        ELSE [add       |-> target \ mine,
              refresh   |-> target \cap mine,
              miss      |-> absent \ gone,
              remove    |-> gone,
              supersede |-> IF switched THEN Superseded(active, next.rolling) ELSE {},
              switched  |-> switched,
              trend     |-> next]

-----------------------------------------------------------------------------
(* Applying a plan to the records of one family (ApplyPlan's action loop).  *)

\* Rows with active = 1 once the actions ran.
ActiveAfter(active, plan) ==
    (active \ (plan.remove \cup plan.supersede)) \cup plan.add

\* miss_count of the active rows; a row not active carries none.
MissesAfter(active, misses, plan) ==
    [k \in Key |->
        IF k \in plan.add \cup plan.refresh THEN 0
        ELSE IF k \in plan.miss THEN misses[k] + 1
        ELSE IF k \in ActiveAfter(active, plan) THEN misses[k]
        ELSE 0]

\* Mutant: re-recording a family that switched mode is reported as well.
EntriesWithRerecording(plan) ==
    {[kind |-> "added", key |-> k] : k \in plan.add}
      \cup {[kind |-> "removed", key |-> k] : k \in plan.remove}

\* The change-feed entries the actions and the mode switch append.
Entries(plan) ==
    IF plan.switched
    THEN {[kind |-> IF plan.trend.rolling THEN "ips_rolling" ELSE "ips_stable",
           key |-> Nowhere]}
    ELSE {[kind |-> "added", key |-> k] : k \in plan.add}
           \cup {[kind |-> "removed", key |-> k] : k \in plan.remove}

=============================================================================
