--------------------------- MODULE EndpointProofs ---------------------------
(***************************************************************************)
(* Proofs about the endpoints of trackers.  Preferences, for any endpoints *)
(* and any records: what one prober retires is closed, and it never        *)
(* retires the last endpoint.  ClientLists, for any endpoints, any figures *)
(* and any request: the quota per AS is kept, nothing is left out without  *)
(* a reason, and the age floor leaves the oldest name.  Availability, for  *)
(* any rows in any order: the figures are what the rows say.               *)
(***************************************************************************)
EXTENDS Preferences, ClientLists, FiniteSetTheorems, SequenceTheorems,
        WellFoundedInduction, TLAPS

-----------------------------------------------------------------------------
(* Preferences.                                                             *)

\* One process probes; with two of them each may retire what the other keeps.
OneProber == \A p, q \in Prober : p = q

\* What a pass holds once it has probed.
Field == {"at", "eps", "ports", "said", "left", "retired"}
Settling(here) == here.at \in {"exploring", "retiring", "marking"}
Kept(here) == here.eps \ here.retired

\* What is kept is in use, and counted.
PassIs(here) ==
    /\ here.at \in {"idle", "probing", "exploring", "retiring", "marking"}
    /\ here.at = "probing" => here.eps # {} /\ here.eps \subseteq Open
    /\ Settling(here) => /\ DOMAIN here = Field
                         /\ here.eps \subseteq Id /\ Kept(here) \subseteq Open
                         /\ Kept(here) # {} /\ here.left = Cardinality(Kept(here))
    /\ here.at = "marking" => /\ here.left > 1 /\ Unserved(here) # {}
                              /\ First(Unserved(here)) \notin rows

Strengthening ==
    /\ PreferencesInv /\ LastEndpointStays
    /\ DOMAIN pass = Prober
    /\ \A p \in Prober : PassIs(pass[p])

-----------------------------------------------------------------------------

LEMMA IdIsFinite ==
    /\ Id \subseteq Nat /\ IsFiniteSet(Id)
    /\ \A S \in SUBSET Id : IsFiniteSet(S) /\ Cardinality(S) \in Nat
  <1>1. Id = 1 .. Len(Endpoints) /\ Len(Endpoints) \in Nat
    BY PreferencesAssumption DEF Id
  <1>2. IsFiniteSet(Id)
    BY <1>1, FS_Interval
  <1>3. ASSUME NEW S \in SUBSET Id PROVE IsFiniteSet(S) /\ Cardinality(S) \in Nat
    BY <1>2, FS_Subset, FS_CardinalityType
  <1> QED BY <1>1, <1>2, <1>3

\* The first of some endpoints is one of them.
LEMMA FirstIsOne ==
    ASSUME NEW ids \in SUBSET Id, ids # {}
    PROVE  First(ids) \in ids
  <1> DEFINE Less == {ss \in Nat \X Nat : ss[1] < ss[2]}
  <1>1. ids \subseteq Nat
    BY IdIsFinite
  <1>2. IsWellFoundedOn(Less, Nat)
    BY NatLessThanWellFounded DEF OpToRel
  <1>3. PICK e \in ids : \A i \in ids : <<i, e>> \notin Less
    <2> HIDE DEF Less
    <2> QED BY <1>1, <1>2, WFMin
  <1>4. ASSUME NEW i \in ids PROVE e <= i
    <2>1. ~(i < e)
      BY <1>1, <1>3
    <2> QED BY <1>1, <2>1
  <1> QED BY <1>4 DEF First

\* Replacing two fields of what a pass holds, or three.
Moved(here, at, ports) == [here EXCEPT !.at = at, !.ports = ports]
Retired(here, at, left, retired) ==
    [here EXCEPT !.at = at, !.left = left, !.retired = retired]

LEMMA Replace ==
    ASSUME NEW here, DOMAIN here = Field, NEW at, NEW ports,
           NEW next, next = Moved(here, at, ports)
    PROVE  /\ DOMAIN next = Field /\ next.at = at /\ next.ports = ports
           /\ next.eps = here.eps /\ next.said = here.said
           /\ next.left = here.left /\ next.retired = here.retired
  <1> DEFINE one == [here EXCEPT !.at = at]
  <1>1. /\ DOMAIN one = Field /\ one.at = at
        /\ one.eps = here.eps /\ one.said = here.said
        /\ one.left = here.left /\ one.retired = here.retired
    BY DEF Field
  <1>2. next = [one EXCEPT !.ports = ports]
    BY DEF Moved
  <1> HIDE DEF one
  <1> QED BY <1>1, <1>2 DEF Field

LEMMA Retire ==
    ASSUME NEW here, DOMAIN here = Field, NEW at, NEW left, NEW retired,
           NEW next, next = Retired(here, at, left, retired)
    PROVE  /\ DOMAIN next = Field /\ next.at = at /\ next.left = left
           /\ next.retired = retired /\ next.eps = here.eps
  <1> DEFINE one == [here EXCEPT !.at = at]
             two == [one EXCEPT !.left = left]
  <1>1. DOMAIN one = Field /\ one.at = at /\ one.eps = here.eps
    BY DEF Field
  <1>2. next = [two EXCEPT !.retired = retired]
    BY DEF Retired
  <1>3. DOMAIN two = Field /\ two.at = at /\ two.eps = here.eps /\ two.left = left
    <2> HIDE DEF one
    <2> QED BY <1>1 DEF Field
  <1> HIDE DEF two
  <1> QED BY <1>2, <1>3 DEF Field

-----------------------------------------------------------------------------

LEMMA Starts == Init => Strengthening
  <1> SUFFICES ASSUME Init PROVE Strengthening
    OBVIOUS
  <1>1. <<>> \in Record
    <2>1. <<>> \in [1 .. 0 -> Port] /\ 0 \in 0 .. MaxPrefs
      BY PreferencesAssumption
    <2>2. IsInjective(<<>>)
      BY DEF IsInjective
    <2> QED BY <2>1, <2>2 DEF Record, BoundedSeq, SeqOf
  <1>2. TypeOK
    BY <1>1 DEF Init, TypeOK, Idle
  <1>3. RetiredIsClosed /\ LastEndpointStays
    BY DEF Init, RetiredIsClosed, LastEndpointStays
  <1>4. DOMAIN pass = Prober /\ \A p \in Prober : PassIs(pass[p])
    BY DEF Init, PassIs, Settling, Idle
  <1> QED BY <1>2, <1>3, <1>4 DEF Strengthening, PreferencesInv

\* What is in use stays in use, and what is closed closed: a pass stands.
LEMMA PassStands ==
    ASSUME Strengthening, NEW here, PassIs(here), Open \subseteq Open',
           rows' \subseteq rows
    PROVE  PassIs(here)'
  BY DEF PassIs, Settling, Kept, Unserved, First, endpointsOn, Id

\* Around the probers.
LEMMA AroundStep ==
    ASSUME Strengthening,
           (\E e \in Id : AddEndpoint(e)) \/ (\E ports \in Record : SetBEP34(ports)) \/ Change
    PROVE  Strengthening'
  <1>1. UNCHANGED <<rows, pass>>
    BY DEF AddEndpoint, SetBEP34, Change
  <1>2. TypeOK'
    BY DEF Strengthening, PreferencesInv, TypeOK, AddEndpoint, SetBEP34, Change
  <1>3. Open \subseteq Open' /\ RetiredIsClosed' /\ LastEndpointStays'
    <2>1. CASE UNCHANGED status
      BY <1>1, <2>1 DEF Strengthening, PreferencesInv, RetiredIsClosed, LastEndpointStays, Open
    <2>2. CASE \E e \in Id : AddEndpoint(e)
      BY <1>1, <2>2 DEF AddEndpoint, Strengthening, PreferencesInv, TypeOK, RetiredIsClosed,
                        LastEndpointStays, Open
    <2> QED BY <2>1, <2>2 DEF SetBEP34, Change
  <1>4. \A p \in Prober : PassIs(pass[p])'
    BY <1>1, <1>3, PassStands DEF Strengthening
  <1> QED BY <1>1, <1>2, <1>3, <1>4 DEF Strengthening, PreferencesInv

\* A step of the one prober is good when what it holds from then on is.
LEMMA ProberStep ==
    ASSUME OneProber, Strengthening, NEW p \in Prober, NEW here,
           pass' = [pass EXCEPT ![p] = here], PassIs(here)',
           UNCHANGED <<advertised, serves>>,
           status' \in [Id -> {"absent", "open", "retired"}], rows' \subseteq Id,
           RetiredIsClosed', LastEndpointStays'
    PROVE  Strengthening'
  <1>1. DOMAIN pass' = Prober /\ pass'[p] = here
    BY DEF Strengthening
  <1>2. ASSUME NEW q \in Prober PROVE PassIs(pass[q])'
    BY <1>1 DEF OneProber
  <1>3. TypeOK'
    BY <1>2 DEF Strengthening, PreferencesInv, TypeOK, PassIs
  <1> QED BY <1>1, <1>2, <1>3 DEF Strengthening, PreferencesInv

\* What a settling pass knows of the table.
LEMMA Settled ==
    ASSUME Strengthening, NEW p \in Prober
    PROVE  /\ status \in [Id -> {"absent", "open", "retired"}] /\ rows \subseteq Id
           /\ RetiredIsClosed /\ LastEndpointStays /\ PassIs(pass[p])
  BY DEF Strengthening, PreferencesInv, TypeOK

LEMMA QuietStep ==
    ASSUME OneProber, Strengthening, NEW p \in Prober,
           Target(p) \/ Probe(p) \/ Onward(p) \/ Stop(p)
    PROVE  Strengthening'
  <1>0. UNCHANGED <<status, rows, advertised, serves>>
    BY DEF Target, Probe, Onward, Stop
  <1>1. /\ status' \in [Id -> {"absent", "open", "retired"}] /\ rows' \subseteq Id
        /\ RetiredIsClosed' /\ LastEndpointStays' /\ Open' = Open
    BY <1>0, Settled DEF RetiredIsClosed, LastEndpointStays, Open
  <1>2. CASE Target(p)
    <2> DEFINE here == [at |-> "probing", eps |-> Open, ports |-> advertised]
    <2>1. PICK next : next = here
      OBVIOUS
    <2>2. PassIs(next)'
      BY <1>1, <1>2, <2>1 DEF PassIs, Settling, Target
    <2>3. pass' = [pass EXCEPT ![p] = next]
      BY <1>2, <2>1 DEF Target
    <2> QED BY <1>0, <1>1, <2>2, <2>3, ProberStep
  <1>3. CASE Probe(p)
    <2>1. PICK said \in [pass[p].eps -> Verdict] :
            pass' = [pass EXCEPT ![p] =
                [at |-> "exploring", eps |-> pass[p].eps, ports |-> pass[p].ports,
                 said |-> said, left |-> Cardinality(pass[p].eps), retired |-> {}]]
      BY <1>3 DEF Probe
    <2> DEFINE here == [at |-> "exploring", eps |-> pass[p].eps, ports |-> pass[p].ports,
                        said |-> said, left |-> Cardinality(pass[p].eps), retired |-> {}]
    <2>2. PICK next : next = here
      OBVIOUS
    <2>7. /\ DOMAIN next = Field /\ next.at = "exploring" /\ next.eps = pass[p].eps
          /\ next.retired = {} /\ next.left = Cardinality(next.eps)
      BY <2>2 DEF Field
    <2>3. pass[p].eps # {} /\ pass[p].eps \subseteq Open
      BY <1>3, Settled DEF Probe, PassIs
    <2>4. Kept(next) = next.eps /\ next.eps \subseteq Id
      BY <2>3, <2>7 DEF Kept, Open
    <2>5. PassIs(next)'
      BY <1>1, <2>3, <2>7, <2>4 DEF PassIs, Settling, Kept
    <2>6. pass' = [pass EXCEPT ![p] = next]
      BY <2>1, <2>2
    <2> QED BY <1>0, <1>1, <2>5, <2>6, ProberStep
  <1>4. CASE Onward(p)
    <2> DEFINE here == Moved(pass[p], "exploring", Tail(pass[p].ports))
    <2>1. pass' = [pass EXCEPT ![p] = here]
      BY <1>4 DEF Onward, Moved
    <2>2. DOMAIN pass[p] = Field /\ Settling(pass[p])
      BY <1>4, Settled DEF PassIs, Settling, Onward
    <2>3. PICK next : next = here
      OBVIOUS
    <2>4. /\ DOMAIN next = Field /\ next.at = "exploring"
          /\ next.eps = pass[p].eps /\ next.said = pass[p].said
          /\ next.left = pass[p].left /\ next.retired = pass[p].retired
      <3> HIDE DEF Field
      <3> QED BY <2>2, <2>3, Replace
    <2>5. PassIs(next)'
      BY <1>1, <2>2, <2>4, Settled DEF PassIs, Settling, Kept
    <2>6. pass' = [pass EXCEPT ![p] = next]
      BY <2>1, <2>3
    <2> QED BY <1>0, <1>1, <2>5, <2>6, ProberStep
  <1>5. CASE Stop(p)
    <2>1. PassIs(Idle)'
      BY DEF PassIs, Settling, Idle
    <2> QED BY <1>0, <1>1, <1>5, <2>1, ProberStep DEF Stop
  <1> QED BY <1>2, <1>3, <1>4, <1>5

\* What answers is adopted: nothing goes out of use.
LEMMA ExploreStep ==
    ASSUME OneProber, Strengthening, NEW p \in Prober, Explore(p)
    PROVE  Strengthening'
  <1> DEFINE met == \E e \in endpointsOn(pass[p].eps, Head(pass[p].ports)) :
                        pass[p].said[e] = "live"
             at == IF met THEN "exploring" ELSE "retiring"
             ports == IF met THEN Tail(pass[p].ports) ELSE pass[p].ports
             found == Discovered(Head(pass[p].ports),
                                 endpointsOn(pass[p].eps, Head(pass[p].ports)))
  <1>0. UNCHANGED <<rows, advertised, serves>>
    BY DEF Explore
  <1>1. \/ status' = status
        \/ status' = [e \in Id |-> IF e \in found THEN "open" ELSE status[e]]
    BY DEF Explore
  <1> HIDE DEF found
  <1>2. /\ status' \in [Id -> {"absent", "open", "retired"}] /\ rows' \subseteq Id
        /\ RetiredIsClosed' /\ Open \subseteq Open'
    BY <1>0, <1>1, Settled DEF RetiredIsClosed, Open
  <1>3. PICK next : next = Moved(pass[p], at, ports)
    OBVIOUS
  <1>4. pass' = [pass EXCEPT ![p] = next]
    BY <1>3 DEF Explore, Moved
  <1>5. DOMAIN pass[p] = Field /\ Settling(pass[p])
    BY Settled DEF PassIs, Settling, Explore
  <1>6. at \in {"exploring", "retiring"}
    OBVIOUS
  <1> HIDE DEF at, ports
  <1>7. /\ DOMAIN next = Field /\ next.at = at
        /\ next.eps = pass[p].eps
        /\ next.left = pass[p].left /\ next.retired = pass[p].retired
    BY <1>3, <1>5, Replace
  <1>8. PassIs(next)'
    BY <1>2, <1>5, <1>6, <1>7, Settled DEF PassIs, Settling, Kept
  <1>9. LastEndpointStays'
    <2>1. Kept(pass[p]) # {} /\ Kept(pass[p]) \subseteq Open
      BY <1>5, Settled DEF PassIs
    <2> QED BY <1>2, <2>1 DEF LastEndpointStays, Open
  <1> QED BY <1>0, <1>2, <1>4, <1>8, <1>9, ProberStep

LEMMA PutStep ==
    ASSUME OneProber, Strengthening, NEW p \in Prober, Put(p)
    PROVE  Strengthening'
  <1>1. PassIs(Idle)'
    BY DEF PassIs, Settling, Idle
  <1>2. Kept(pass[p]) \subseteq Open
    BY Settled DEF PassIs, Settling, Put
  <1>3. /\ rows' = rows \cup Kept(pass[p])
        /\ pass' = [pass EXCEPT ![p] = Idle] /\ UNCHANGED <<status, advertised, serves>>
    BY DEF Put, Kept
  <1>4. /\ status' \in [Id -> {"absent", "open", "retired"}] /\ rows' \subseteq Id
        /\ RetiredIsClosed' /\ LastEndpointStays'
    BY <1>2, <1>3, Settled DEF RetiredIsClosed, LastEndpointStays, Open
  <1> QED BY <1>1, <1>3, <1>4, ProberStep

\* What is to be retired next is kept so far.
LEMMA NextIsKept ==
    ASSUME Strengthening, NEW p \in Prober, Settling(pass[p]), Unserved(pass[p]) # {}
    PROVE  First(Unserved(pass[p])) \in Kept(pass[p])
  <1>1. Unserved(pass[p]) \subseteq Kept(pass[p]) /\ Kept(pass[p]) \subseteq Id
    BY Settled DEF PassIs, Unserved, endpointsOn, Kept
  <1> QED BY <1>1, FirstIsOne

LEMMA CloseStep ==
    ASSUME OneProber, Strengthening, NEW p \in Prober, Close(p)
    PROVE  Strengthening'
  <1>1. PICK next : next = [pass[p] EXCEPT !.at = "marking"]
    OBVIOUS
  <1>2. /\ pass' = [pass EXCEPT ![p] = next] /\ UNCHANGED <<status, advertised, serves>>
        /\ rows' = rows \ {First(Unserved(pass[p]))}
        /\ pass[p].left > 1 /\ Unserved(pass[p]) # {} /\ pass[p].at = "retiring"
    BY <1>1 DEF Close
  <1>3. DOMAIN pass[p] = Field /\ Settling(pass[p])
    BY <1>2, Settled DEF PassIs, Settling
  <1>4. /\ DOMAIN next = Field /\ next.at = "marking"
        /\ next.eps = pass[p].eps /\ next.said = pass[p].said /\ next.ports = pass[p].ports
        /\ next.left = pass[p].left /\ next.retired = pass[p].retired
    BY <1>1, <1>3 DEF Field
  <1>5. Unserved(next) = Unserved(pass[p]) /\ Kept(next) = Kept(pass[p])
    BY <1>4 DEF Unserved, Kept
  <1>6. /\ status' \in [Id -> {"absent", "open", "retired"}] /\ rows' \subseteq Id
        /\ RetiredIsClosed' /\ LastEndpointStays' /\ Open' = Open
    BY <1>2, Settled DEF RetiredIsClosed, LastEndpointStays, Open
  <1>7. /\ Kept(next) \subseteq Open /\ Kept(next) # {} /\ next.eps \subseteq Id
        /\ next.left = Cardinality(Kept(next))
    BY <1>3, <1>4, <1>5, Settled DEF PassIs
  <1>8. next.left > 1 /\ Unserved(next) # {} /\ First(Unserved(next)) \notin rows'
    BY <1>2, <1>4, <1>5
  <1>9. PassIs(next)'
    BY <1>4, <1>6, <1>7, <1>8 DEF PassIs, Settling, Kept, Unserved, endpointsOn, First
  <1> QED BY <1>2, <1>6, <1>9, ProberStep

LEMMA MarkStep ==
    ASSUME OneProber, Strengthening, NEW p \in Prober, Mark(p)
    PROVE  Strengthening'
  <1> DEFINE e == First(Unserved(pass[p]))
             left == pass[p].left - 1
             retired == pass[p].retired \cup {e}
  <1>1. PICK next : next = Retired(pass[p], "retiring", left, retired)
    OBVIOUS
  <1>2. /\ pass' = [pass EXCEPT ![p] = next] /\ UNCHANGED <<rows, advertised, serves>>
        /\ status' = [status EXCEPT ![e] = "retired"] /\ pass[p].at = "marking"
    BY <1>1 DEF Mark, Retired
  <1>3. /\ DOMAIN pass[p] = Field /\ Settling(pass[p]) /\ pass[p].eps \subseteq Id
        /\ Kept(pass[p]) \subseteq Open /\ pass[p].left = Cardinality(Kept(pass[p]))
        /\ pass[p].left > 1 /\ e \notin rows /\ Unserved(pass[p]) # {}
    BY <1>2, Settled DEF PassIs, Settling
  <1>4. e \in Kept(pass[p]) /\ e \in Id
    BY <1>3, NextIsKept DEF Kept
  <1> HIDE DEF e
  <1>5. /\ DOMAIN next = Field /\ next.at = "retiring" /\ next.left = left
        /\ next.retired = retired /\ next.eps = pass[p].eps
    <2> HIDE DEF left, retired
    <2> QED BY <1>1, <1>3, Retire
  <1>6. Kept(next) = Kept(pass[p]) \ {e}
    BY <1>5 DEF Kept
  <1>7. /\ Cardinality(Kept(next)) = pass[p].left - 1 /\ pass[p].left \in Nat
        /\ IsFiniteSet(Kept(next))
    <2>1. IsFiniteSet(Kept(pass[p])) /\ Cardinality(Kept(pass[p])) \in Nat
      BY <1>3, IdIsFinite DEF Kept
    <2> QED BY <1>3, <1>4, <1>6, <2>1, FS_RemoveElement
  <1>8. Kept(next) # {}
    BY <1>3, <1>7, FS_EmptySet
  <1>9. /\ status' \in [Id -> {"absent", "open", "retired"}] /\ rows' \subseteq Id
        /\ RetiredIsClosed' /\ Kept(next) \subseteq Open'
    BY <1>2, <1>3, <1>4, <1>6, Settled DEF RetiredIsClosed, Open
  <1>10. LastEndpointStays'
    BY <1>8, <1>9 DEF LastEndpointStays
  <1>11. PassIs(next)'
    BY <1>3, <1>5, <1>7, <1>8, <1>9 DEF PassIs, Settling, Kept
  <1> QED BY <1>2, <1>9, <1>10, <1>11, ProberStep

LEMMA StrengtheningHolds == ASSUME OneProber PROVE Spec => []Strengthening
  <1>1. ASSUME Strengthening, [Next]_vars PROVE Strengthening'
    <2>1. CASE UNCHANGED vars
      <3>1. PreferencesInv' /\ LastEndpointStays' /\ Open' = Open /\ pass' = pass /\ rows' = rows
        BY <1>1, <2>1 DEF vars, Strengthening, PreferencesInv, TypeOK, RetiredIsClosed,
                          LastEndpointStays, Open
      <3>2. ASSUME NEW p \in Prober PROVE PassIs(pass[p])'
        BY <1>1, <3>1, PassStands DEF Strengthening
      <3> QED BY <1>1, <3>1, <3>2 DEF Strengthening
    <2>2. CASE Next
      BY <1>1, <2>2, AroundStep, QuietStep, ExploreStep, CloseStep, MarkStep, PutStep
         DEF Next, Work, Pass
    <2> QED BY <1>1, <2>1, <2>2
  <1> QED BY Starts, <1>1, PTL DEF Spec

\* Retiring an endpoint closes its rows, and nothing one prober does opens one
\* again while the endpoint stays retired.
THEOREM RetiredStaysClosed == ASSUME OneProber PROVE Spec => []PreferencesInv
  <1>1. Strengthening => PreferencesInv
    BY DEF Strengthening
  <1> QED BY <1>1, StrengtheningHolds, PTL

\* However many endpoints a pass finds dead, one of the name stays in use.
THEOREM TheLastIsKept == ASSUME OneProber PROVE Spec => []LastEndpointStays
  <1>1. Strengthening => LastEndpointStays
    BY DEF Strengthening
  <1> QED BY <1>1, StrengtheningHolds, PTL

-----------------------------------------------------------------------------
(* Recursive functions over the places of a list.                           *)

\* Where the first place holds and each place passes it on, all do.
LEMMA Steps ==
    ASSUME NEW n \in Nat, NEW P, 0 \in P, \A i \in 1 .. n : i - 1 \in P => i \in P
    PROVE  \A i \in 0 .. n : i \in P
  <1> DEFINE Bad  == {i \in 0 .. n : i \notin P}
             Less == {ss \in Nat \X Nat : ss[1] < ss[2]}
  <1>1. SUFFICES ASSUME Bad # {} PROVE FALSE
    OBVIOUS
  <1>2. IsWellFoundedOn(Less, Nat)
    BY NatLessThanWellFounded DEF OpToRel
  <1>3. Bad \subseteq Nat
    OBVIOUS
  <1>4. PICK b \in Bad : \A i \in Bad : <<i, b>> \notin Less
    <2> HIDE DEF Less, Bad
    <2> QED BY <1>1, <1>2, <1>3, WFMin
  <1>5. b \in 1 .. n /\ b - 1 \in 0 .. n /\ b - 1 \in Nat /\ b \in Nat
    OBVIOUS
  <1>6. b - 1 \notin Bad
    <2>1. <<b - 1, b>> \in Less
      BY <1>5
    <2> QED BY <1>4, <2>1
  <1> QED BY <1>5, <1>6

\* A function that starts somewhere and goes on by steps exists.
GoesOn(g, T, c, n, h) ==
    /\ g \in [0 .. n -> T] /\ g[0] = c
    /\ \A i \in 1 .. n : g[i] = h[<<g[i - 1], i>>]

LEMMA Recursion ==
    ASSUME NEW T, NEW c \in T, NEW n \in Nat, NEW h \in [T \X (1 .. n) -> T]
    PROVE  \E g : GoesOn(g, T, c, n, h)
  <1> DEFINE Upto(m, g) == /\ g \in [0 .. m -> T] /\ g[0] = c
                           /\ \A i \in 1 .. m : g[i] = h[<<g[i - 1], i>>]
             P == {m \in 0 .. n : \E g : Upto(m, g)}
  <1>1. 0 \in P
    <2> DEFINE g == [i \in 0 .. 0 |-> c]
    <2>1. g \in [0 .. 0 -> T] /\ g[0] = c /\ 1 .. 0 = {}
      OBVIOUS
    <2> HIDE DEF g
    <2>2. Upto(0, g)
      BY <2>1
    <2> QED BY <2>2
  <1>2. ASSUME NEW m \in 1 .. n, m - 1 \in P PROVE m \in P
    <2>1. PICK g : Upto(m - 1, g)
      BY <1>2
    <2> DEFINE k == [i \in 0 .. m |-> IF i = m THEN h[<<g[m - 1], m>>] ELSE g[i]]
    <2>2. m - 1 \in 0 .. (m - 1) /\ g[m - 1] \in T
      BY <2>1
    <2>3. h[<<g[m - 1], m>>] \in T
      BY <2>2
    <2>4. k \in [0 .. m -> T]
      BY <2>1, <2>3
    <2>5. k[0] = c
      BY <2>1
    <2>6. ASSUME NEW i \in 1 .. m PROVE k[i] = h[<<k[i - 1], i>>]
      <3>1. /\ i \in 0 .. m /\ i - 1 \in 0 .. m /\ i - 1 # m
            /\ i # m => i \in 1 .. (m - 1)
        OBVIOUS
      <3>2. k[i - 1] = g[i - 1]
        BY <3>1
      <3>3. CASE i = m
        BY <3>1, <3>2, <3>3
      <3>4. CASE i # m
        BY <2>1, <3>1, <3>2, <3>4
      <3> QED BY <3>3, <3>4
    <2>7. Upto(m, k)
      BY <2>4, <2>5, <2>6
    <2> HIDE DEF k, Upto
    <2> QED BY <2>7
  <1>3. n \in P
    <2> HIDE DEF P
    <2> QED BY <1>1, <1>2, Steps
  <1>4. PICK g : Upto(n, g)
    BY <1>3
  <1> QED BY <1>4 DEF GoesOn

OnlyIs(g, s, some) ==
    g = [i \in 0 .. Len(s) |-> IF i = 0 THEN <<>>
           ELSE IF s[i] \in some THEN Append(g[i - 1], s[i]) ELSE g[i - 1]]

LEMMA OnlyExists ==
    ASSUME NEW S, NEW s \in Seq(S), NEW some
    PROVE  \E g : OnlyIs(g, s, some) /\ Only(s, some) = g[Len(s)]
  <1> DEFINE T == Seq(S)
             h == [x \in T \X (1 .. Len(s)) |->
                     IF s[x[2]] \in some THEN Append(x[1], s[x[2]]) ELSE x[1]]
  <1>1. h \in [T \X (1 .. Len(s)) -> T]
    OBVIOUS
  <1>2. PICK g : GoesOn(g, T, <<>>, Len(s), h)
    <2>1. <<>> \in T /\ Len(s) \in Nat
      OBVIOUS
    <2> HIDE DEF T, h
    <2> QED BY <1>1, <2>1, Recursion
  <1>3. OnlyIs(g, s, some)
    <2>1. ASSUME NEW i \in 1 .. Len(s)
          PROVE  h[<<g[i - 1], i>>] =
                   IF s[i] \in some THEN Append(g[i - 1], s[i]) ELSE g[i - 1]
      <3>1. <<g[i - 1], i>> \in T \X (1 .. Len(s))
        BY <1>2 DEF GoesOn
      <3> QED BY <3>1
    <2>2. g = [i \in 0 .. Len(s) |-> g[i]] /\ g[0] = <<>>
      <3> HIDE DEF h, T
      <3> QED BY <1>2 DEF GoesOn
    <2>3. \A i \in 0 .. Len(s) : i = 0 \/ i \in 1 .. Len(s)
      OBVIOUS
    <2>4. \A i \in 1 .. Len(s) :
            g[i] = IF s[i] \in some THEN Append(g[i - 1], s[i]) ELSE g[i - 1]
      <3> HIDE DEF h, T
      <3> QED BY <1>2, <2>1 DEF GoesOn
    <2> QED BY <2>2, <2>3, <2>4 DEF OnlyIs
  <1>4. LET f == CHOOSE f : OnlyIs(f, s, some) IN OnlyIs(f, s, some)
    BY <1>3
  <1>5. Only(s, some) = (CHOOSE f : OnlyIs(f, s, some))[Len(s)]
    BY DEF Only, OnlyIs
  <1> QED BY <1>4, <1>5

LEMMA AppendRange ==
    ASSUME NEW S, NEW q \in Seq(S), NEW e \in S
    PROVE  Range(Append(q, e)) = Range(q) \cup {e}
  <1> DEFINE r == Append(q, e)
  <1>1. /\ Len(q) \in Nat /\ DOMAIN q = 1 .. Len(q) /\ DOMAIN r = 1 .. (Len(q) + 1)
        /\ r[Len(q) + 1] = e /\ \A k \in 1 .. Len(q) : r[k] = q[k]
    OBVIOUS
  <1> HIDE DEF r
  <1>2. \A k \in DOMAIN r : k \in DOMAIN q \/ k = Len(q) + 1
    BY <1>1
  <1>3. DOMAIN q \subseteq DOMAIN r /\ Len(q) + 1 \in DOMAIN r
    BY <1>1
  <1>4. Range(r) = Range(q) \cup {e}
    BY <1>1, <1>2, <1>3 DEF Range
  <1> QED BY <1>4 DEF r

LEMMA OnlySound ==
    ASSUME NEW S, NEW s \in Seq(S), NEW some
    PROVE  /\ Only(s, some) \in Seq(S)
           /\ Range(Only(s, some)) = Range(s) \cap some
  <1>1. PICK g : OnlyIs(g, s, some) /\ Only(s, some) = g[Len(s)]
    BY OnlyExists
  <1> DEFINE n == Len(s)
             upto(i) == {s[j] : j \in 1 .. i}
             P == {i \in 0 .. n : g[i] \in Seq(S) /\ Range(g[i]) = upto(i) \cap some}
  <1>2. n \in Nat
    OBVIOUS
  <1>3. 0 \in P
    <2>1. g[0] = <<>> /\ 0 \in 0 .. n
      BY <1>1, <1>2 DEF OnlyIs
    <2>2. Range(<<>>) = {} /\ upto(0) = {}
      BY DEF Range
    <2>3. <<>> \in Seq(S)
      OBVIOUS
    <2> HIDE DEF upto, n
    <2> QED BY <2>1, <2>2, <2>3
  <1>4. ASSUME NEW i \in 1 .. n, i - 1 \in P PROVE i \in P
    <2>1. g[i - 1] \in Seq(S) /\ Range(g[i - 1]) = upto(i - 1) \cap some
      BY <1>4
    <2>2. s[i] \in S /\ i \in 0 .. n /\ i # 0
      BY <1>2
    <2>3. g[i] = IF s[i] \in some THEN Append(g[i - 1], s[i]) ELSE g[i - 1]
      BY <1>1, <2>2 DEF OnlyIs
    <2>4. upto(i) = upto(i - 1) \cup {s[i]}
      <3>1. \A j : j \in 1 .. i <=> j \in 1 .. (i - 1) \/ j = i
        BY <1>2
      <3> QED BY <3>1
    <2>5. s[i] \in some => Append(g[i - 1], s[i]) \in Seq(S)
                           /\ Range(Append(g[i - 1], s[i])) = Range(g[i - 1]) \cup {s[i]}
      BY <2>1, <2>2, AppendRange
    <2> HIDE DEF upto, n
    <2>6. g[i] \in Seq(S) /\ Range(g[i]) = upto(i) \cap some
      <3>1. CASE s[i] \in some
        BY <2>1, <2>3, <2>4, <2>5, <3>1
      <3>2. CASE s[i] \notin some
        BY <2>1, <2>3, <2>4, <3>2
      <3> QED BY <3>1, <3>2
    <2> QED BY <2>2, <2>6
  <1>5. \A i \in 0 .. n : i \in P
    <2> HIDE DEF P, n
    <2> QED BY <1>2, <1>3, <1>4, Steps
  <1>6. g[n] \in Seq(S) /\ Range(g[n]) = upto(n) \cap some
    <2>1. n \in 0 .. n
      BY <1>2
    <2> QED BY <1>5, <2>1
  <1>7. Range(s) = upto(n)
    BY DEF Range
  <1> QED BY <1>1, <1>6, <1>7

-----------------------------------------------------------------------------
(* The list put together.                                                   *)

\* The entries there may be of a list.
Entries(figures, answering) == {Entry(ep, figures, answering) : ep \in Endpoint}

LEMMA PlacedIsList ==
    ASSUME NEW S, NEW s \in Seq(S), NEW e \in S
    PROVE  Placed(s, e) \in Seq(S)
  <1> DEFINE better == {i \in DOMAIN s : Better(s[i], e)}
             k == Cardinality(better)
  <1>1. DOMAIN s = 1 .. Len(s) /\ Len(s) \in Nat
    OBVIOUS
  <1>2. IsFiniteSet(1 .. Len(s)) /\ Cardinality(1 .. Len(s)) = Len(s)
    BY <1>1, FS_Interval
  <1>3. k \in Nat /\ k <= Len(s)
    <2>1. better \subseteq 1 .. Len(s)
      BY <1>1
    <2> HIDE DEF better
    <2> QED BY <1>2, <2>1, FS_Subset, FS_CardinalityType
  <1>4. Placed(s, e) = SubSeq(s, 1, k) \o <<e>> \o SubSeq(s, k + 1, Len(s))
    <2>1. Placed(s, e) = InsertAt(s, k + 1, e)
      BY DEF Placed
    <2> HIDE DEF k
    <2>2. (k + 1) - 1 = k
      BY <1>3
    <2>3. InsertAt(s, k + 1, e) = SubSeq(s, 1, (k + 1) - 1) \o <<e>> \o SubSeq(s, k + 1, Len(s))
      BY DEF InsertAt
    <2> QED BY <2>1, <2>2, <2>3
  <1> HIDE DEF k
  <1>5. SubSeq(s, 1, k) \in Seq(S) /\ SubSeq(s, k + 1, Len(s)) \in Seq(S)
    BY <1>1, <1>3, SubSeqProperties
  <1>6. <<e>> \in Seq(S)
    OBVIOUS
  <1> QED BY <1>4, <1>5, <1>6

LEMMA ListIsOfEndpoints ==
    ASSUME NEW listed, NEW figures, NEW answering
    PROVE  ListEndpoints(listed, figures, answering) \in Seq(Entries(figures, answering))
  <1> DEFINE E == Entries(figures, answering)
             n == Cardinality(Endpoint)
             h == [x \in Seq(E) \X (1 .. n) |->
                     IF x[2] \in listed THEN Placed(x[1], Entry(x[2], figures, answering))
                     ELSE x[1]]
             Sorts(f) ==
               f = [ep \in 0 .. n |->
                      IF ep = 0 THEN <<>>
                      ELSE IF ep \in listed THEN Placed(f[ep - 1], Entry(ep, figures, answering))
                      ELSE f[ep - 1]]
  <1>1. n \in Nat /\ Endpoint = 1 .. n
    BY AvailabilityAssumption, FS_CardinalityType
  <1>2. ASSUME NEW q \in Seq(E), NEW ep \in 1 .. n
        PROVE  Placed(q, Entry(ep, figures, answering)) \in Seq(E)
    <2>1. Entry(ep, figures, answering) \in E
      BY <1>1 DEF Entries
    <2> HIDE DEF E
    <2> QED BY <2>1, PlacedIsList
  <1>3. h \in [Seq(E) \X (1 .. n) -> Seq(E)]
    <2> HIDE DEF E, n
    <2> QED BY <1>2
  <1>4. PICK g : GoesOn(g, Seq(E), <<>>, n, h)
    <2>1. <<>> \in Seq(E)
      OBVIOUS
    <2> HIDE DEF h, n, E
    <2> QED BY <1>1, <1>3, <2>1, Recursion
  <1>5. Sorts(g)
    <2>1. ASSUME NEW i \in 1 .. n
          PROVE  g[i] = IF i \in listed THEN Placed(g[i - 1], Entry(i, figures, answering))
                        ELSE g[i - 1]
      <3>1. <<g[i - 1], i>> \in Seq(E) \X (1 .. n) /\ g[i] = h[<<g[i - 1], i>>]
        <4> HIDE DEF h, E, n
        <4> QED BY <1>1, <1>4 DEF GoesOn
      <3> HIDE DEF E, n
      <3> QED BY <3>1
    <2> HIDE DEF h, E
    <2> QED BY <1>1, <1>4, <2>1 DEF GoesOn
  <1>6. Sorts(CHOOSE f : Sorts(f))
    <2> HIDE DEF Sorts
    <2> QED BY <1>5
  <1>7. ListEndpoints(listed, figures, answering) = (CHOOSE f : Sorts(f))[n]
    BY DEF ListEndpoints
  <1> DEFINE f == CHOOSE f : Sorts(f)
             P == {i \in 0 .. n : f[i] \in Seq(E)}
  <1>8. Sorts(f)
    BY <1>6
  <1> HIDE DEF f
  <1>9. 0 \in P
    <2>1. f[0] = <<>> /\ 0 \in 0 .. n
      BY <1>1, <1>8
    <2>2. <<>> \in Seq(E)
      OBVIOUS
    <2> HIDE DEF E, n
    <2> QED BY <2>1, <2>2
  <1>10. ASSUME NEW i \in 1 .. n, i - 1 \in P PROVE i \in P
    <2>1. i \in 0 .. n /\ i # 0
      BY <1>1
    <2>2. f[i] = IF i \in listed THEN Placed(f[i - 1], Entry(i, figures, answering))
                 ELSE f[i - 1]
      BY <1>8, <2>1
    <2>3. f[i - 1] \in Seq(E)
      BY <1>10
    <2> HIDE DEF E, n
    <2> QED BY <1>2, <2>1, <2>2, <2>3
  <1>11. f[n] \in Seq(E)
    <2>1. \A i \in 0 .. n : i \in P
      <3> HIDE DEF P, n
      <3> QED BY <1>1, <1>9, <1>10, Steps
    <2>2. n \in 0 .. n
      BY <1>1
    <2> QED BY <2>1, <2>2
  <1> QED BY <1>7, <1>11 DEF f

\* What a reply was made from, and how.
Answer ==
    /\ reply.request \in Request
    /\ reply.nets \in [Tracker -> SUBSET (Nat \ {0})]
    /\ \E figures, answering : reply.entries \in Seq(Entries(figures, answering))
    /\ reply.keep = Keep(reply.request, reply.entries)
    /\ reply.out = IF Quota > 0 THEN capPerAS(reply.keep, reply.nets, Quota) ELSE reply.keep

AnswersOnly == Served => Answer

LEMMA AnswersOnlyStep ==
    ASSUME AnswersOnly, [LNext]_lvars
    PROVE  AnswersOnly'
  <1>1. ASSUME UNCHANGED reply PROVE AnswersOnly'
    BY <1>1 DEF AnswersOnly, Answer, Served, Quota
  <1>2. ASSUME NEW r \in Request, NEW nets \in Asked(r), handleList(r, nets)
        PROVE  AnswersOnly'
    <2>1. nets \in [Tracker -> SUBSET (Nat \ {0})]
      BY ClientListsAssumption DEF Asked
    <2>2. PICK figures, answering, listed :
            LET entries == ListEndpoints(listed, figures, answering)
                keep    == Keep(r, entries)
            IN  reply' = [at |-> "served", request |-> r, nets |-> nets,
                          entries |-> entries, keep |-> keep,
                          out |-> IF r.perAS > 0 THEN capPerAS(keep, nets, r.perAS) ELSE keep]
      BY <1>2 DEF handleList
    <2> DEFINE entries == ListEndpoints(listed, figures, answering)
    <2>3. entries \in Seq(Entries(figures, answering))
      BY ListIsOfEndpoints
    <2> HIDE DEF entries
    <2> QED BY <2>1, <2>2, <2>3 DEF AnswersOnly, Answer, Quota, entries
  <1> QED BY <1>1, <1>2 DEF LNext, lvars

LEMMA AnswersOnlyStarts == LInit => AnswersOnly
  BY DEF LInit, AnswersOnly, Served, NoReply

LEMMA OldestIsOldEnough ==
    ASSUME NEW r \in Request, NEW ts \in SUBSET Tracker, NEW t \in ts,
           \A u \in ts : HalfDays[u] <= HalfDays[t]
    PROVE  OldEnough(Floor(r, ts), t)
  <1> DEFINE ages == {HalfDays[u] : u \in ts}
             most == CHOOSE n \in ages : \A u \in ts : HalfDays[u] <= n
  <1>1. \A u \in ts : HalfDays[u] \in Nat
    BY ClientListsAssumption
  <1>2. most \in ages /\ \A u \in ts : HalfDays[u] <= most
    <2>1. HalfDays[t] \in ages
      OBVIOUS
    <2> HIDE DEF ages
    <2> QED BY <2>1
  <1>3. historyDays(ts) = most \div 2
    BY DEF historyDays
  <1> HIDE DEF most
  <1>4. most = HalfDays[t] /\ most \in Nat
    BY <1>1, <1>2
  <1>5. r.minAge \in Nat
    BY ClientListsAssumption
  <1> QED BY <1>3, <1>4, <1>5 DEF OldEnough, Floor

LEMMA OldestIsKept == AnswersOnly => FloorKeepsTheOldest
  <1> SUFFICES ASSUME AnswersOnly, Served, NEW i \in DOMAIN reply.entries,
                      \A j \in DOMAIN reply.entries :
                        HalfDays[reply.entries[j].tracker] <= HalfDays[reply.entries[i].tracker],
                      wants(reply.request, reply.entries[i]),
                      reply.request.require \subseteq Families[reply.entries[i].tracker]
               PROVE  reply.entries[i] \in Range(reply.keep)
    BY DEF FloorKeepsTheOldest
  <1> DEFINE r  == reply.request
             es == reply.entries
             ts == {es[j].tracker : j \in DOMAIN es}
             some == {e \in Range(es) :
                        /\ wants(r, e) /\ OldEnough(Floor(r, ts), e.tracker)
                        /\ r.require \subseteq Families[e.tracker]}
  <1>1. PICK figures, answering : es \in Seq(Entries(figures, answering))
    BY DEF AnswersOnly, Answer
  <1>2. ts \in SUBSET Tracker
    <2>1. \A j \in DOMAIN es : es[j] \in Entries(figures, answering)
      BY <1>1
    <2>2. \A e \in Entries(figures, answering) : e.tracker \in Tracker
      BY AvailabilityAssumption DEF Entries, Entry
    <2> QED BY <2>1, <2>2
  <1>3. OldEnough(Floor(r, ts), es[i].tracker)
    <2>1. es[i].tracker \in ts /\ \A u \in ts : HalfDays[u] <= HalfDays[es[i].tracker]
      OBVIOUS
    <2>2. r \in Request
      BY DEF AnswersOnly, Answer
    <2> HIDE DEF ts, r
    <2> QED BY <1>2, <2>1, <2>2, OldestIsOldEnough
  <1>4. es[i] \in some
    <2>1. es[i] \in Range(es)
      BY DEF Range
    <2> HIDE DEF ts
    <2> QED BY <1>3, <2>1
  <1>5. reply.keep = Only(es, some)
    BY DEF AnswersOnly, Answer, Keep
  <1>6. Range(Only(es, some)) = Range(es) \cap some
    <2> HIDE DEF es, some
    <2> QED BY <1>1, OnlySound
  <1>7. es[i] \in Range(es)
    BY DEF Range
  <1> QED BY <1>4, <1>5, <1>6, <1>7

\* The age floor (internal/api/list.go, historyDays and the clamp of minAge):
\* whatever is asked for, the oldest name of the registry is not lost to it.
THEOREM OldestIsNeverLost == LSpec => []FloorKeepsTheOldest
  BY AnswersOnlyStarts, AnswersOnlyStep, OldestIsKept, PTL DEF LSpec

-----------------------------------------------------------------------------
(* The walk of capPerAS.                                                    *)

\* The states of a walk.
Walk(S, nets) ==
    [count   : [UNION Range(nets) -> Nat],
     verdict : [DOMAIN nets -> {"none", "kept", "dropped"}],
     out     : Seq(S)]

WalkIs(g, es, nets, quota) ==
    g = [i \in 0 .. Len(es) |->
           IF i = 0 THEN Begun(nets) ELSE Cap(nets, quota, g[i - 1], es[i])]

\* What one entry does: its tracker is known and kept, known and dropped, taken,
\* or refused.
CapDoes(nets, quota, st, e, new) ==
    \/ /\ st.verdict[e.tracker] = "kept" /\ new.out = Append(st.out, e)
       /\ new.verdict = st.verdict /\ new.count = st.count
    \/ /\ st.verdict[e.tracker] = "dropped" /\ new.out = st.out
       /\ new.verdict = st.verdict /\ new.count = st.count
    \/ /\ st.verdict[e.tracker] = "none" /\ new.out = Append(st.out, e)
       /\ \A n \in nets[e.tracker] : st.count[n] < quota
       /\ new.verdict = [st.verdict EXCEPT ![e.tracker] = "kept"]
       /\ new.count = Charged(st.count, nets[e.tracker])
    \/ /\ st.verdict[e.tracker] = "none" /\ new.out = st.out
       /\ \E n \in nets[e.tracker] : ~(st.count[n] < quota)
       /\ new.verdict = [st.verdict EXCEPT ![e.tracker] = "dropped"]
       /\ new.count = st.count

LEMMA CapEffect ==
    ASSUME NEW S, NEW nets, NEW quota \in Nat, NEW st \in Walk(S, nets),
           NEW e \in S, e.tracker \in DOMAIN nets
    PROVE  /\ Cap(nets, quota, st, e) \in Walk(S, nets)
           /\ CapDoes(nets, quota, st, e, Cap(nets, quota, st, e))
  <1> DEFINE t == e.tracker
             new == st.verdict[t] = "none"
             keep == IF new THEN admit(st.count, nets[t], quota) ELSE st.verdict[t] = "kept"
             count == IF new /\ keep THEN Charged(st.count, nets[t]) ELSE st.count
             verdict == [st.verdict EXCEPT ![t] = IF keep THEN "kept" ELSE "dropped"]
             out == IF keep THEN Append(st.out, e) ELSE st.out
  <1>1. Cap(nets, quota, st, e) = [count |-> count, verdict |-> verdict, out |-> out]
    BY DEF Cap
  <1>2. /\ st.count \in [UNION Range(nets) -> Nat]
        /\ st.verdict \in [DOMAIN nets -> {"none", "kept", "dropped"}]
        /\ st.out \in Seq(S)
    BY DEF Walk
  <1>3. Charged(st.count, nets[t]) \in [UNION Range(nets) -> Nat]
    BY <1>2 DEF Charged
  <1>4. Append(st.out, e) \in Seq(S)
    BY <1>2
  <1>5. count \in [UNION Range(nets) -> Nat] /\ out \in Seq(S)
        /\ verdict \in [DOMAIN nets -> {"none", "kept", "dropped"}]
    BY <1>2, <1>3, <1>4
  <1>6. Cap(nets, quota, st, e) \in Walk(S, nets)
    <2> HIDE DEF count, verdict, out
    <2> QED BY <1>1, <1>5 DEF Walk
  <1> DEFINE r == Cap(nets, quota, st, e)
  <1>7. r.count = count /\ r.verdict = verdict /\ r.out = out
    <2> HIDE DEF count, verdict, out
    <2> QED BY <1>1
  <1> HIDE DEF r
  <1>8. ASSUME st.verdict[t] = "kept"
        PROVE  CapDoes(nets, quota, st, e, r)
    <2>1. keep /\ ~new
      BY <1>8
    <2>2. r.count = st.count /\ r.verdict = st.verdict /\ r.out = Append(st.out, e)
      BY <1>2, <1>7, <1>8, <2>1
    <2> QED BY <1>8, <2>2 DEF CapDoes
  <1>9. ASSUME st.verdict[t] = "dropped"
        PROVE  CapDoes(nets, quota, st, e, r)
    <2>1. ~keep /\ ~new
      BY <1>9
    <2>2. r.count = st.count /\ r.verdict = st.verdict /\ r.out = st.out
      BY <1>2, <1>7, <1>9, <2>1
    <2> QED BY <1>9, <2>2 DEF CapDoes
  <1>10. ASSUME st.verdict[t] = "none" /\ admit(st.count, nets[t], quota)
        PROVE  CapDoes(nets, quota, st, e, r)
    <2>1. keep /\ new
      BY <1>10
    <2>2. /\ r.count = Charged(st.count, nets[t]) /\ r.out = Append(st.out, e)
          /\ r.verdict = [st.verdict EXCEPT ![t] = "kept"]
      BY <1>7, <2>1
    <2> QED BY <1>10, <2>2 DEF CapDoes, admit
  <1>11. ASSUME st.verdict[t] = "none" /\ ~admit(st.count, nets[t], quota)
        PROVE  CapDoes(nets, quota, st, e, r)
    <2>1. ~keep /\ new
      BY <1>11
    <2>2. /\ r.count = st.count /\ r.out = st.out
          /\ r.verdict = [st.verdict EXCEPT ![t] = "dropped"]
      BY <1>7, <2>1
    <2> QED BY <1>11, <2>2 DEF CapDoes, admit
  <1> QED BY <1>2, <1>6, <1>8, <1>9, <1>10, <1>11 DEF r

\* A list over names of which the networks are known.
Capped(S, es, nets, quota) ==
    /\ es \in Seq(S) /\ \A e \in S : e.tracker \in DOMAIN nets
    /\ quota \in Nat /\ IsFiniteSet(DOMAIN nets)

LEMMA WalkExists ==
    ASSUME NEW S, NEW es, NEW nets, NEW quota, Capped(S, es, nets, quota)
    PROVE  \E g : /\ g[0] = Begun(nets)
                  /\ \A i \in 1 .. Len(es) : g[i] = Cap(nets, quota, g[i - 1], es[i])
                  /\ \A i \in 0 .. Len(es) : g[i] \in Walk(S, nets)
                  /\ capPerAS(es, nets, quota) = g[Len(es)].out
  <1> DEFINE n == Len(es)
             T == Walk(S, nets)
             h == [x \in T \X (1 .. n) |-> Cap(nets, quota, x[1], es[x[2]])]
             g == CHOOSE f : WalkIs(f, es, nets, quota)
             P == {i \in 0 .. n : g[i] \in T}
  <1>1. n \in Nat /\ \A i \in 1 .. n : es[i] \in S /\ es[i].tracker \in DOMAIN nets
    BY DEF Capped
  <1>2. \A st \in T : \A i \in 1 .. n : Cap(nets, quota, st, es[i]) \in T
    BY <1>1, CapEffect DEF Capped
  <1>3. Begun(nets) \in T
    BY DEF Begun, Walk
  <1>4. WalkIs(g, es, nets, quota)
    <2>1. h \in [T \X (1 .. n) -> T]
      <3> HIDE DEF T, n
      <3> QED BY <1>2
    <2>2. PICK f : GoesOn(f, T, Begun(nets), n, h)
      <3> HIDE DEF T, n, h
      <3> QED BY <1>1, <1>3, <2>1, Recursion
    <2>3. ASSUME NEW i \in 1 .. n
          PROVE  f[i] = Cap(nets, quota, f[i - 1], es[i])
      <3>1. <<f[i - 1], i>> \in T \X (1 .. n) /\ f[i] = h[<<f[i - 1], i>>]
        <4> HIDE DEF h, T, n
        <4> QED BY <1>1, <2>2 DEF GoesOn
      <3> HIDE DEF T, n
      <3> QED BY <3>1
    <2>4. WalkIs(f, es, nets, quota)
      <3> HIDE DEF h, T
      <3> QED BY <1>1, <2>2, <2>3 DEF GoesOn, WalkIs
    <2> QED BY <2>4
  <1>5. capPerAS(es, nets, quota) = g[n].out
    BY DEF capPerAS, WalkIs
  <1> HIDE DEF g
  <1>6. g[0] = Begun(nets)
    BY <1>1, <1>4 DEF WalkIs
  <1>7. ASSUME NEW i \in 1 .. n PROVE g[i] = Cap(nets, quota, g[i - 1], es[i])
    <2>1. i \in 0 .. n /\ i # 0
      BY <1>1
    <2> QED BY <1>4, <2>1 DEF WalkIs
  <1>8. 0 \in P
    <2>1. 0 \in 0 .. n
      BY <1>1
    <2> QED BY <1>3, <1>6, <2>1
  <1>9. ASSUME NEW i \in 1 .. n, i - 1 \in P PROVE i \in P
    <2>1. i \in 0 .. n /\ g[i - 1] \in T
      BY <1>1, <1>9
    <2> HIDE DEF T, n
    <2> QED BY <1>2, <1>7, <2>1
  <1>10. \A i \in 0 .. n : i \in P
    <2> HIDE DEF P, n
    <2> QED BY <1>1, <1>8, <1>9, Steps
  <1> QED BY <1>5, <1>6, <1>7, <1>10

\* Where a tracker comes first.
Place(es, t) == CHOOSE i \in DOMAIN es : es[i].tracker = t /\ \A j \in 1 .. (i - 1) : es[j].tracker # t

KeptIn(st, nets, n) == {t \in DOMAIN nets : st.verdict[t] = "kept" /\ n \in nets[t]}

\* A tracker has a verdict once it came.
Judged(es, nets, i, st) ==
    \A t \in DOMAIN nets :
        IF st.verdict[t] = "none" THEN \A j \in 1 .. i : es[j].tracker # t
        ELSE Place(es, t) \in 1 .. i

\* An AS is charged for what is kept in it, within the quota.
Charges(nets, quota, st) ==
    \A n \in UNION Range(nets) :
        st.count[n] = Cardinality(KeptIn(st, nets, n)) /\ st.count[n] <= quota

\* What is kept is listed.
Lists(nets, st) ==
    \A t \in DOMAIN nets : st.verdict[t] = "kept" <=> \E e \in Range(st.out) : e.tracker = t

\* What was dropped met an AS that was full.
Reasons(es, nets, quota, st) ==
    \A t \in DOMAIN nets : st.verdict[t] = "dropped" =>
        \E n \in nets[t] :
            Cardinality({u \in KeptIn(st, nets, n) : Place(es, u) < Place(es, t)}) = quota

WalkInv(S, es, nets, quota, i, st) ==
    /\ st \in Walk(S, nets)
    /\ Judged(es, nets, i, st)
    /\ Charges(nets, quota, st)
    /\ Lists(nets, st)
    /\ Reasons(es, nets, quota, st)

LEMMA PlaceIs ==
    ASSUME NEW S, NEW es \in Seq(S), NEW i \in 1 .. Len(es),
           \A j \in 1 .. (i - 1) : es[j].tracker # es[i].tracker
    PROVE  Place(es, es[i].tracker) = i
  <1> DEFINE t == es[i].tracker
             Is(k) == es[k].tracker = t /\ \A j \in 1 .. (k - 1) : es[j].tracker # t
  <1>1. DOMAIN es = 1 .. Len(es) /\ Len(es) \in Nat
    OBVIOUS
  <1>2. ASSUME NEW k \in DOMAIN es, Is(k) PROVE k = i
    <2>1. ~(k < i)
      <3>1. k < i => k \in 1 .. (i - 1)
        BY <1>1
      <3> QED BY <1>2, <3>1
    <2>2. ~(i < k)
      <3>1. i < k => i \in 1 .. (k - 1)
        BY <1>1
      <3> QED BY <1>2, <3>1
    <2> QED BY <1>1, <2>1, <2>2
  <1>3. i \in DOMAIN es /\ Is(i)
    BY <1>1
  <1>4. Place(es, t) = CHOOSE k \in DOMAIN es : Is(k)
    BY DEF Place
  <1> HIDE DEF Is
  <1> QED BY <1>2, <1>3, <1>4

LEMMA WalkStarts ==
    ASSUME NEW S, NEW es, NEW nets, NEW quota, Capped(S, es, nets, quota)
    PROVE  WalkInv(S, es, nets, quota, 0, Begun(nets))
  <1> DEFINE st == Begun(nets)
  <1>1. /\ st.count = [n \in UNION Range(nets) |-> 0]
        /\ st.verdict = [t \in DOMAIN nets |-> "none"] /\ st.out = <<>>
    BY DEF Begun
  <1>2. st \in Walk(S, nets)
    BY DEF Begun, Walk
  <1> HIDE DEF st
  <1>3. \A n : KeptIn(st, nets, n) = {}
    BY <1>1 DEF KeptIn
  <1>4. Charges(nets, quota, st)
    <2>1. SUFFICES ASSUME NEW n \in UNION Range(nets)
                   PROVE  st.count[n] = Cardinality(KeptIn(st, nets, n)) /\ st.count[n] <= quota
      BY DEF Charges
    <2>2. st.count[n] = 0 /\ quota \in Nat
      BY <1>1 DEF Capped
    <2>3. Cardinality(KeptIn(st, nets, n)) = 0
      BY <1>3, FS_EmptySet
    <2> QED BY <2>2, <2>3
  <1>5. Lists(nets, st)
    BY <1>1 DEF Lists, Range
  <1>6. Judged(es, nets, 0, st) /\ Reasons(es, nets, quota, st)
    BY <1>1 DEF Judged, Reasons
  <1> QED BY <1>2, <1>4, <1>5, <1>6 DEF WalkInv, st

LEMMA WalkGoesOn ==
    ASSUME NEW S, NEW es, NEW nets, NEW quota, Capped(S, es, nets, quota),
           NEW i \in 1 .. Len(es), NEW st, WalkInv(S, es, nets, quota, i - 1, st)
    PROVE  WalkInv(S, es, nets, quota, i, Cap(nets, quota, st, es[i]))
  <1> DEFINE e   == es[i]
             t   == e.tracker
             new == Cap(nets, quota, st, e)
  <1>1. /\ e \in S /\ t \in DOMAIN nets /\ quota \in Nat /\ es \in Seq(S) /\ i \in Nat
        /\ IsFiniteSet(DOMAIN nets)
    BY DEF Capped
  <1>2. st \in Walk(S, nets)
    BY DEF WalkInv
  <1>3. /\ st.count \in [UNION Range(nets) -> Nat] /\ st.out \in Seq(S)
        /\ st.verdict \in [DOMAIN nets -> {"none", "kept", "dropped"}]
    BY <1>2 DEF Walk
  <1>4. /\ Judged(es, nets, i - 1, st) /\ Charges(nets, quota, st)
        /\ Lists(nets, st) /\ Reasons(es, nets, quota, st)
    BY DEF WalkInv
  <1>5. new \in Walk(S, nets)
    BY <1>1, <1>2, CapEffect
  <1>6. Range(Append(st.out, e)) = Range(st.out) \cup {e}
    BY <1>1, <1>3, AppendRange
  <1>7. \A j \in 1 .. i : j \in 1 .. (i - 1) \/ j = i
    BY <1>1
  <1>8. 1 .. (i - 1) \subseteq 1 .. i /\ i \in 1 .. i
    BY <1>1
  <1>14. CapDoes(nets, quota, st, e, new)
    BY <1>1, <1>2, CapEffect
  <1> HIDE DEF e, new
  <1>9. CASE /\ st.verdict[t] = "kept" /\ new.out = Append(st.out, e)
             /\ new.verdict = st.verdict /\ new.count = st.count
    <2>1. \A n : KeptIn(new, nets, n) = KeptIn(st, nets, n)
      BY <1>9 DEF KeptIn
    <2>2. Judged(es, nets, i, new)
      BY <1>4, <1>7, <1>8, <1>9 DEF Judged, e
    <2>3. Charges(nets, quota, new) /\ Reasons(es, nets, quota, new)
      BY <1>4, <1>9, <2>1 DEF Charges, Reasons
    <2>4. Lists(nets, new)
      BY <1>4, <1>6, <1>9 DEF Lists
    <2> QED BY <1>5, <2>2, <2>3, <2>4 DEF WalkInv, new, e
  <1>10. CASE /\ st.verdict[t] = "dropped" /\ new.out = st.out
              /\ new.verdict = st.verdict /\ new.count = st.count
    <2>1. \A n : KeptIn(new, nets, n) = KeptIn(st, nets, n)
      BY <1>10 DEF KeptIn
    <2>2. Judged(es, nets, i, new)
      BY <1>4, <1>7, <1>8, <1>10 DEF Judged, e
    <2>3. Charges(nets, quota, new) /\ Reasons(es, nets, quota, new)
      BY <1>4, <1>10, <2>1 DEF Charges, Reasons
    <2>4. Lists(nets, new)
      BY <1>4, <1>10 DEF Lists
    <2> QED BY <1>5, <2>2, <2>3, <2>4 DEF WalkInv, new, e
  <1>11. ASSUME st.verdict[t] = "none"
         PROVE  /\ Place(es, t) = i
                /\ \A u \in DOMAIN nets : st.verdict[u] # "none" => Place(es, u) \in 1 .. (i - 1)
    <2>1. \A j \in 1 .. (i - 1) : es[j].tracker # t
      BY <1>1, <1>4, <1>11 DEF Judged
    <2>2. Place(es, t) = i
      BY <1>1, <2>1, PlaceIs DEF e
    <2> QED BY <1>4, <2>2 DEF Judged
  <1>12. CASE /\ st.verdict[t] = "none" /\ new.out = Append(st.out, e)
              /\ \A n \in nets[t] : st.count[n] < quota
              /\ new.verdict = [st.verdict EXCEPT ![t] = "kept"]
              /\ new.count = Charged(st.count, nets[t])
    <2>1. /\ new.verdict[t] = "kept"
          /\ \A u \in DOMAIN nets : u # t => new.verdict[u] = st.verdict[u]
      BY <1>1, <1>3, <1>12
    <2>2. Judged(es, nets, i, new)
      BY <1>4, <1>7, <1>8, <1>11, <1>12, <2>1 DEF Judged, e
    <2>3. \A n : KeptIn(new, nets, n) = IF n \in nets[t] THEN KeptIn(st, nets, n) \cup {t}
                                        ELSE KeptIn(st, nets, n)
      BY <1>1, <1>12, <2>1 DEF KeptIn
    <2>4. \A n : t \notin KeptIn(st, nets, n) /\ IsFiniteSet(KeptIn(st, nets, n))
      BY <1>1, <1>12, FS_Subset DEF KeptIn
    <2>5. Charges(nets, quota, new)
      <3>1. SUFFICES ASSUME NEW n \in UNION Range(nets)
                     PROVE  /\ new.count[n] = Cardinality(KeptIn(new, nets, n))
                            /\ new.count[n] <= quota
        BY DEF Charges
      <3>2. /\ st.count[n] = Cardinality(KeptIn(st, nets, n)) /\ st.count[n] <= quota
            /\ st.count[n] \in Nat
        BY <1>3, <1>4 DEF Charges
      <3>3. new.count[n] = IF n \in nets[t] THEN st.count[n] + 1 ELSE st.count[n]
        BY <1>3, <1>12 DEF Charged
      <3>4. CASE n \in nets[t]
        <4>1. Cardinality(KeptIn(st, nets, n) \cup {t}) = Cardinality(KeptIn(st, nets, n)) + 1
          BY <2>4, FS_AddElement
        <4>2. KeptIn(new, nets, n) = KeptIn(st, nets, n) \cup {t}
          BY <2>3, <3>4
        <4>3. st.count[n] < quota /\ new.count[n] = st.count[n] + 1
          BY <1>12, <3>3, <3>4
        <4> QED BY <1>1, <3>2, <4>1, <4>2, <4>3
      <3>5. CASE n \notin nets[t]
        BY <2>3, <3>2, <3>3, <3>5
      <3> QED BY <3>4, <3>5
    <2>6. Lists(nets, new)
      BY <1>4, <1>6, <1>12, <2>1 DEF Lists
    <2>7. Reasons(es, nets, quota, new)
      <3>1. SUFFICES ASSUME NEW u \in DOMAIN nets, new.verdict[u] = "dropped"
                     PROVE  \E n \in nets[u] :
                              Cardinality({v \in KeptIn(new, nets, n) :
                                             Place(es, v) < Place(es, u)}) = quota
        BY DEF Reasons
      <3>2. u # t /\ st.verdict[u] = "dropped"
        BY <2>1, <3>1
      <3>3. PICK n \in nets[u] :
              Cardinality({v \in KeptIn(st, nets, n) : Place(es, v) < Place(es, u)}) = quota
        BY <1>4, <3>2 DEF Reasons
      <3>4. ~(Place(es, t) < Place(es, u))
        BY <1>1, <1>11, <1>12, <3>2
      <3>5. {v \in KeptIn(new, nets, n) : Place(es, v) < Place(es, u)}
              = {v \in KeptIn(st, nets, n) : Place(es, v) < Place(es, u)}
        BY <2>3, <3>4
      <3> QED BY <3>3, <3>5
    <2> QED BY <1>5, <2>2, <2>5, <2>6, <2>7 DEF WalkInv, new, e
  <1>13. CASE /\ st.verdict[t] = "none" /\ new.out = st.out
              /\ \E n \in nets[t] : ~(st.count[n] < quota)
              /\ new.verdict = [st.verdict EXCEPT ![t] = "dropped"]
              /\ new.count = st.count
    <2>1. /\ new.verdict[t] = "dropped"
          /\ \A u \in DOMAIN nets : u # t => new.verdict[u] = st.verdict[u]
      BY <1>1, <1>3, <1>13
    <2>2. Judged(es, nets, i, new)
      BY <1>4, <1>7, <1>8, <1>11, <1>13, <2>1 DEF Judged, e
    <2>3. \A n : KeptIn(new, nets, n) = KeptIn(st, nets, n)
      BY <1>1, <1>13, <2>1 DEF KeptIn
    <2>4. Charges(nets, quota, new)
      BY <1>4, <1>13, <2>3 DEF Charges
    <2>5. Lists(nets, new)
      BY <1>4, <1>13, <2>1 DEF Lists
    <2>6. Reasons(es, nets, quota, new)
      <3>1. SUFFICES ASSUME NEW u \in DOMAIN nets, new.verdict[u] = "dropped"
                     PROVE  \E n \in nets[u] :
                              Cardinality({v \in KeptIn(st, nets, n) :
                                             Place(es, v) < Place(es, u)}) = quota
        BY <2>3 DEF Reasons
      <3>2. CASE u # t
        BY <1>4, <2>1, <3>1, <3>2 DEF Reasons
      <3>3. CASE u = t
        <4>1. PICK n \in nets[t] : ~(st.count[n] < quota)
          BY <1>13
        <4>2. n \in UNION Range(nets)
          BY <1>1, <4>1 DEF Range
        <4>3. /\ st.count[n] = Cardinality(KeptIn(st, nets, n)) /\ st.count[n] <= quota
              /\ st.count[n] \in Nat
          BY <1>3, <1>4, <4>2 DEF Charges
        <4>4. st.count[n] = quota
          BY <1>1, <4>1, <4>3
        <4>5. \A v \in KeptIn(st, nets, n) : Place(es, v) < Place(es, t)
          BY <1>1, <1>11, <1>13 DEF KeptIn
        <4>6. {v \in KeptIn(st, nets, n) : Place(es, v) < Place(es, t)} = KeptIn(st, nets, n)
          BY <4>5
        <4> QED BY <3>3, <4>3, <4>4, <4>6
      <3> QED BY <3>2, <3>3
    <2> QED BY <1>5, <2>2, <2>4, <2>5, <2>6 DEF WalkInv, new, e
  <1> QED BY <1>14, <1>9, <1>10, <1>12, <1>13 DEF CapDoes

LEMMA OnlyAll ==
    ASSUME NEW S, NEW s \in Seq(S), NEW some, Range(s) \subseteq some
    PROVE  Only(s, some) = s
  <1>1. PICK g : OnlyIs(g, s, some) /\ Only(s, some) = g[Len(s)]
    BY OnlyExists
  <1> DEFINE n == Len(s)
             P == {i \in 0 .. n : /\ g[i] \in Seq(S) /\ Len(g[i]) = i
                                  /\ \A j \in 1 .. i : g[i][j] = s[j]}
  <1>2. n \in Nat /\ DOMAIN s = 1 .. n
    OBVIOUS
  <1>3. 0 \in P
    <2>1. g[0] = <<>> /\ 0 \in 0 .. n
      BY <1>1, <1>2 DEF OnlyIs
    <2>2. <<>> \in Seq(S) /\ Len(<<>>) = 0 /\ 1 .. 0 = {}
      OBVIOUS
    <2>3. \A j \in 1 .. 0 : g[0][j] = s[j]
      BY <2>2
    <2> HIDE DEF n
    <2> QED BY <2>1, <2>2, <2>3
  <1>4. ASSUME NEW i \in 1 .. n, i - 1 \in P PROVE i \in P
    <2>1. /\ g[i - 1] \in Seq(S) /\ Len(g[i - 1]) = i - 1
          /\ \A j \in 1 .. (i - 1) : g[i - 1][j] = s[j]
      BY <1>4
    <2>2. s[i] \in S /\ s[i] \in some /\ i \in 0 .. n /\ i # 0
      BY <1>2 DEF Range
    <2>3. g[i] = Append(g[i - 1], s[i])
      BY <1>1, <2>2 DEF OnlyIs
    <2>4. g[i] \in Seq(S) /\ Len(g[i]) = i
      BY <1>2, <2>1, <2>2, <2>3
    <2>5. ASSUME NEW j \in 1 .. i PROVE g[i][j] = s[j]
      <3>1. CASE j = i
        BY <1>2, <2>1, <2>2, <2>3, <3>1
      <3>2. CASE j # i
        <4>1. j \in 1 .. (i - 1)
          BY <1>2, <3>2
        <4> QED BY <2>1, <2>2, <2>3, <4>1
      <3> QED BY <3>1, <3>2
    <2> HIDE DEF n
    <2> QED BY <2>2, <2>4, <2>5
  <1>5. \A i \in 0 .. n : i \in P
    <2> HIDE DEF P, n
    <2> QED BY <1>2, <1>3, <1>4, Steps
  <1>6. g[n] \in Seq(S) /\ Len(g[n]) = n /\ \A j \in 1 .. n : g[n][j] = s[j]
    <2>1. n \in 0 .. n
      BY <1>2
    <2> QED BY <1>5, <2>1
  <1>7. g[n] = s
    BY <1>6, SeqEqual
  <1> QED BY <1>1, <1>7

\* Capping a list ends in a state of the walk, and leaves what it kept.
Ends(S, es, nets, quota, st) ==
    /\ WalkInv(S, es, nets, quota, Len(es), st)
    /\ capPerAS(es, nets, quota) = st.out
    /\ st.out = Only(es, {e \in Range(es) : st.verdict[e.tracker] = "kept"})

LEMMA CapSound ==
    ASSUME NEW S, NEW es, NEW nets, NEW quota, Capped(S, es, nets, quota)
    PROVE  \E st : Ends(S, es, nets, quota, st)
  <1>1. PICK g : /\ g[0] = Begun(nets)
                 /\ \A i \in 1 .. Len(es) : g[i] = Cap(nets, quota, g[i - 1], es[i])
                 /\ \A i \in 0 .. Len(es) : g[i] \in Walk(S, nets)
                 /\ capPerAS(es, nets, quota) = g[Len(es)].out
    BY WalkExists
  <1> DEFINE n == Len(es)
             st == g[n]
             some == {e \in Range(es) : st.verdict[e.tracker] = "kept"}
             Inv == {i \in 0 .. n : WalkInv(S, es, nets, quota, i, g[i])}
             Stands(i, m) == \A t \in DOMAIN nets :
                g[i].verdict[t] # "none" => g[m].verdict[t] = g[i].verdict[t]
             Lasts == {m \in 0 .. n : \A i \in 0 .. m : Stands(i, m)}
  <1>2. /\ n \in Nat /\ es \in Seq(S) /\ quota \in Nat
        /\ \A i \in 1 .. n : es[i] \in S /\ es[i].tracker \in DOMAIN nets /\ es[i] \in Range(es)
    BY DEF Capped, Range
  <1>3. \A i \in 0 .. n : i \in Inv
    <2>1. 0 \in Inv
      BY <1>1, <1>2, WalkStarts
    <2>2. ASSUME NEW i \in 1 .. n, i - 1 \in Inv PROVE i \in Inv
      <3>1. WalkInv(S, es, nets, quota, i - 1, g[i - 1])
        BY <2>2
      <3>2. WalkInv(S, es, nets, quota, i, Cap(nets, quota, g[i - 1], es[i]))
        BY <3>1, WalkGoesOn
      <3>3. i \in 0 .. n
        BY <1>2
      <3> QED BY <1>1, <3>2, <3>3
    <2> HIDE DEF Inv, n
    <2> QED BY <1>2, <2>1, <2>2, Steps
  <1>4. ASSUME NEW i \in 1 .. n
        PROVE  CapDoes(nets, quota, g[i - 1], es[i], g[i])
    <2>1. i - 1 \in 0 .. n
      BY <1>2
    <2> QED BY <1>1, <1>2, <2>1, CapEffect
  <1>5. ASSUME NEW i \in 1 .. n PROVE Stands(i - 1, i)
    <2>1. CapDoes(nets, quota, g[i - 1], es[i], g[i]) /\ g[i - 1] \in Walk(S, nets)
      <3>1. i - 1 \in 0 .. n
        BY <1>2
      <3> QED BY <1>1, <1>4, <3>1
    <2>2. g[i - 1].verdict \in [DOMAIN nets -> {"none", "kept", "dropped"}]
      BY <2>1 DEF Walk
    <2> QED BY <2>1, <2>2 DEF CapDoes
  <1>6. \A i \in 0 .. n : i \in Lasts
    <2>1. 0 \in Lasts
      BY <1>2
    <2>2. ASSUME NEW m \in 1 .. n, m - 1 \in Lasts PROVE m \in Lasts
      <3>1. \A i \in 0 .. (m - 1) : Stands(i, m - 1)
        BY <2>2
      <3>2. \A i \in 0 .. m : i \in 0 .. (m - 1) \/ i = m
        BY <1>2
      <3>3. Stands(m - 1, m) /\ m \in 0 .. n
        BY <1>2, <1>5
      <3>4. \A i \in 0 .. m : Stands(i, m)
        BY <3>1, <3>2, <3>3
      <3> QED BY <3>3, <3>4
    <2> HIDE DEF Lasts, n
    <2> QED BY <1>2, <2>1, <2>2, Steps
  <1>7. \A i \in 0 .. n : Stands(i, n)
    <2>1. n \in 0 .. n
      BY <1>2
    <2> QED BY <1>6, <2>1
  <1>8. st.out = Only(es, some)
    <2>1. PICK f : OnlyIs(f, es, some) /\ Only(es, some) = f[n]
      BY <1>2, OnlyExists
    <2> DEFINE Same == {i \in 0 .. n : g[i].out = f[i]}
    <2>2. 0 \in Same
      <3>1. f[0] = <<>> /\ 0 \in 0 .. n
        BY <1>2, <2>1 DEF OnlyIs
      <3>2. g[0].out = <<>>
        BY <1>1 DEF Begun
      <3> QED BY <3>1, <3>2
    <2>3. ASSUME NEW i \in 1 .. n, i - 1 \in Same PROVE i \in Same
      <3>1. i \in 0 .. n /\ i # 0 /\ g[i - 1].out = f[i - 1]
        BY <1>2, <2>3
      <3>2. f[i] = IF es[i] \in some THEN Append(f[i - 1], es[i]) ELSE f[i - 1]
        BY <2>1, <3>1 DEF OnlyIs
      <3>3. es[i].tracker \in DOMAIN nets /\ g[i - 1] \in Walk(S, nets)
        <4>1. i - 1 \in 0 .. n
          BY <1>2
        <4> QED BY <1>1, <1>2, <4>1
      <3>4. IF g[i].verdict[es[i].tracker] = "kept" THEN g[i].out = Append(g[i - 1].out, es[i])
            ELSE g[i].verdict[es[i].tracker] = "dropped" /\ g[i].out = g[i - 1].out
        <4>1. g[i - 1].verdict \in [DOMAIN nets -> {"none", "kept", "dropped"}]
          BY <3>3 DEF Walk
        <4> QED BY <1>4, <3>3, <4>1 DEF CapDoes
      <3>5. es[i] \in some <=> g[i].verdict[es[i].tracker] = "kept"
        <4>1. Stands(i, n)
          BY <1>7, <3>1
        <4> QED BY <1>2, <3>3, <3>4, <4>1
      <3> HIDE DEF some
      <3> QED BY <3>1, <3>2, <3>4, <3>5
    <2>4. \A i \in 0 .. n : i \in Same
      <3> HIDE DEF Same, n
      <3> QED BY <1>2, <2>2, <2>3, Steps
    <2>5. n \in 0 .. n
      BY <1>2
    <2> HIDE DEF n, some
    <2> QED BY <2>1, <2>4, <2>5
  <1>9. WalkInv(S, es, nets, quota, n, st)
    <2>1. n \in 0 .. n
      BY <1>2
    <2> QED BY <1>3, <2>1
  <1>10. Ends(S, es, nets, quota, st)
    BY <1>1, <1>8, <1>9 DEF Ends
  <1> HIDE DEF st
  <1> QED BY <1>10

-----------------------------------------------------------------------------
(* The quota.                                                               *)

\* What is capped is a list of entries, the networks of all of them known.
LEMMA ListIsCapped ==
    ASSUME AnswersOnly, Served
    PROVE  \E S : reply.keep \in Seq(S) /\ Capped(S, reply.keep, reply.nets, Quota)
  <1>1. PICK figures, answering : reply.entries \in Seq(Entries(figures, answering))
    BY DEF AnswersOnly, Answer
  <1> DEFINE S == Entries(figures, answering)
  <1>2. reply.keep \in Seq(S)
    <2>1. PICK some : reply.keep = Only(reply.entries, some)
      BY DEF AnswersOnly, Answer, Keep
    <2> HIDE DEF S
    <2> QED BY <1>1, <2>1, OnlySound DEF S
  <1>3. \A e \in S : e.tracker \in Tracker
    BY AvailabilityAssumption DEF Entries, Entry
  <1>4. DOMAIN reply.nets = Tracker /\ IsFiniteSet(Tracker)
    BY AvailabilityAssumption DEF AnswersOnly, Answer
  <1>5. Quota \in Nat
    <2>1. reply.request \in Request
      BY DEF AnswersOnly, Answer
    <2> QED BY <2>1, ClientListsAssumption DEF Quota
  <1> HIDE DEF S
  <1> QED BY <1>2, <1>3, <1>4, <1>5 DEF Capped

\* What the walk keeps is what the list served is of.
Agrees(nets, st, out) ==
    /\ \A t \in DOMAIN nets : st.verdict[t] = "kept" <=> t \in Trackers(out)
    /\ Trackers(out) \subseteq DOMAIN nets
    /\ \A n, t : t \in Trackers(out) /\ n \in nets[t] <=> t \in KeptIn(st, nets, n)

LEMMA KeptIsListed ==
    ASSUME NEW S, NEW es, NEW nets, NEW quota, NEW i, NEW st,
           Capped(S, es, nets, quota), WalkInv(S, es, nets, quota, i, st)
    PROVE  Agrees(nets, st, st.out)
  <1>1. st.out \in Seq(S) /\ Lists(nets, st)
    BY DEF WalkInv, Walk
  <1>2. \A t : t \in Trackers(st.out) <=> \E e \in Range(st.out) : e.tracker = t
    BY DEF Trackers, Range
  <1>3. \A t \in DOMAIN nets : st.verdict[t] = "kept" <=> t \in Trackers(st.out)
    BY <1>1, <1>2 DEF Lists
  <1>4. Trackers(st.out) \subseteq DOMAIN nets
    <2>1. \A k \in DOMAIN st.out : st.out[k] \in S
      BY <1>1
    <2> QED BY <2>1 DEF Trackers, Capped
  <1>5. \A n, t : t \in Trackers(st.out) /\ n \in nets[t] <=> t \in KeptIn(st, nets, n)
    BY <1>3, <1>4 DEF KeptIn
  <1> QED BY <1>3, <1>4, <1>5 DEF Agrees

LEMMA QuotaStands == AnswersOnly => QuotaHolds
  <1> SUFFICES ASSUME AnswersOnly, Served, Quota > 0, NEW n \in UNION Range(reply.nets)
               PROVE  Cardinality({t \in Trackers(reply.out) : n \in reply.nets[t]}) <= Quota
    BY DEF QuotaHolds
  <1>1. PICK S : reply.keep \in Seq(S) /\ Capped(S, reply.keep, reply.nets, Quota)
    BY ListIsCapped
  <1>2. PICK st : Ends(S, reply.keep, reply.nets, Quota, st)
    BY <1>1, CapSound
  <1>3. reply.out = st.out
    BY <1>2 DEF AnswersOnly, Answer, Ends
  <1>4. {t \in Trackers(reply.out) : n \in reply.nets[t]} = KeptIn(st, reply.nets, n)
    <2>1. Agrees(reply.nets, st, reply.out)
      BY <1>1, <1>2, <1>3, KeptIsListed DEF Ends
    <2> QED BY <2>1 DEF Agrees
  <1>5. /\ st.count[n] = Cardinality(KeptIn(st, reply.nets, n))
        /\ st.count[n] <= Quota
    BY <1>2 DEF WalkInv, Charges, Ends
  <1> QED BY <1>4, <1>5

\* per_as (internal/api/list.go, capPerAS): no AS has more trackers in a list
\* than were asked for, however many ASes a tracker sits in.
THEOREM QuotaIsKept == LSpec => []QuotaHolds
  BY AnswersOnlyStarts, AnswersOnlyStep, QuotaStands, PTL DEF LSpec

LEMMA ReasonsStand == AnswersOnly => DroppedForAReason
  <1> DEFINE keep == reply.keep
             nets == reply.nets
             some == {e \in Range(keep) : e.tracker \in Trackers(reply.out)}
  <1> SUFFICES ASSUME AnswersOnly, Served
               PROVE  /\ reply.out = Only(keep, some)
                      /\ \A t \in Trackers(keep) \ Trackers(reply.out) :
                           \E n \in nets[t] :
                             Cardinality({u \in Trackers(reply.out) :
                               n \in nets[u] /\ FirstOf(u) < FirstOf(t)}) = Quota
    BY DEF DroppedForAReason
  <1>1. PICK S : keep \in Seq(S) /\ Capped(S, keep, nets, Quota)
    BY ListIsCapped
  <1>2. CASE ~(Quota > 0)
    <2>1. reply.out = keep
      BY <1>2 DEF AnswersOnly, Answer
    <2>2. Range(keep) \subseteq some
      BY <2>1 DEF Trackers, Range
    <2>3. Only(keep, some) = keep
      <3> HIDE DEF some, keep
      <3> QED BY <1>1, <2>2, OnlyAll
    <2> QED BY <2>1, <2>3
  <1>3. CASE Quota > 0
    <2>1. PICK st : /\ WalkInv(S, keep, nets, Quota, Len(keep), st)
                    /\ capPerAS(keep, nets, Quota) = st.out
                    /\ st.out = Only(keep, {e \in Range(keep) : st.verdict[e.tracker] = "kept"})
      BY <1>1, CapSound DEF Ends
    <2>2. reply.out = st.out
      BY <1>3, <2>1 DEF AnswersOnly, Answer
    <2>3. /\ \A t \in DOMAIN nets : st.verdict[t] = "kept" <=> t \in Trackers(reply.out)
          /\ \A n, t : t \in Trackers(reply.out) /\ n \in nets[t] <=> t \in KeptIn(st, nets, n)
      <3>1. Agrees(nets, st, reply.out)
        BY <1>1, <2>1, <2>2, KeptIsListed
      <3> QED BY <3>1 DEF Agrees
    <2>4. \A i \in DOMAIN keep : keep[i].tracker \in DOMAIN nets
      <3> HIDE DEF keep, nets
      <3> QED BY <1>1 DEF Capped
    <2>5. {e \in Range(keep) : st.verdict[e.tracker] = "kept"} = some
      BY <2>3, <2>4 DEF Range
    <2>6. ASSUME NEW t \in Trackers(keep) \ Trackers(reply.out)
          PROVE  \E n \in nets[t] :
                   Cardinality({u \in Trackers(reply.out) :
                     n \in nets[u] /\ FirstOf(u) < FirstOf(t)}) = Quota
      <3>1. PICK i \in DOMAIN keep : keep[i].tracker = t
        BY DEF Trackers
      <3>2. t \in DOMAIN nets /\ i \in 1 .. Len(keep)
        BY <1>1, <2>4, <3>1
      <3>3. st.verdict[t] \in {"none", "kept", "dropped"}
        BY <2>1, <3>2 DEF WalkInv, Walk
      <3>4. st.verdict[t] # "none"
        BY <2>1, <3>1, <3>2 DEF WalkInv, Judged
      <3>5. st.verdict[t] = "dropped"
        BY <2>3, <3>2, <3>3, <3>4
      <3>6. PICK n \in nets[t] :
              Cardinality({u \in KeptIn(st, nets, n) : Place(keep, u) < Place(keep, t)}) = Quota
        BY <2>1, <3>2, <3>5 DEF WalkInv, Reasons
      <3>7. \A u : FirstOf(u) = Place(keep, u)
        BY DEF FirstOf, Place
      <3>8. {u \in Trackers(reply.out) : n \in nets[u] /\ FirstOf(u) < FirstOf(t)}
              = {u \in KeptIn(st, nets, n) : Place(keep, u) < Place(keep, t)}
        <4> HIDE DEF keep, nets
        <4> QED BY <2>3, <3>7
      <3> QED BY <3>6, <3>8
    <2> QED BY <2>1, <2>2, <2>5, <2>6
  <1>4. Quota \in Nat
    BY <1>1 DEF Capped
  <1> QED BY <1>2, <1>3

\* per_as: the endpoints of a tracker go together, in the order they had, and a
\* tracker is left out only where one of its ASes was full of trackers that
\* came before it.
THEOREM NoneDroppedWithoutReason == LSpec => []DroppedForAReason
  BY AnswersOnlyStarts, AnswersOnlyStep, ReasonsStand, PTL DEF LSpec

-----------------------------------------------------------------------------
(* Uptime: the intervals.                                                   *)

\* What is left of an interval within the window.
Clipped == {iv \in Interval : From <= iv.start /\ iv.start < iv.end /\ iv.end <= Until}

\* The instants some of them hold.
Held(ivs) == {t \in From .. (Until - 1) : \E iv \in ivs : iv.start <= t /\ t < iv.end}

Rising(s) == \A i, j \in DOMAIN s : i < j => s[i].start <= s[j].start

\* Neither overlapping nor touching, in the order of time.
Apart(s) == \A i, j \in DOMAIN s : i < j => s[i].end < s[j].start

LEMMA ClippedIs ==
    /\ From \in Nat /\ Until \in Nat /\ From < Until
    /\ \A iv \in Clipped : /\ iv.start \in Nat /\ iv.end \in Nat /\ iv.start < iv.end
                           /\ From <= iv.start /\ iv.end <= Until
                           /\ iv = [start |-> iv.start, end |-> iv.end]
    /\ \A a, b \in Nat : From <= a /\ a < b /\ b <= Until => [start |-> a, end |-> b] \in Clipped
  <1>1. From \in Nat /\ Until \in Nat /\ From < Until /\ MaxTime \in Nat /\ Until <= MaxTime
    BY AvailabilityAssumption
  <1> QED BY <1>1 DEF Clipped, Interval

\* The places of a rising list whose intervals start by x are the first ones.
LEMMA FirstPlaces ==
    ASSUME NEW s \in Seq(Clipped), Rising(s), NEW x \in Nat
    PROVE  \E k \in 0 .. Len(s) :
             /\ Cardinality({i \in DOMAIN s : s[i].start <= x}) = k
             /\ \A i \in 1 .. k : s[i].start <= x
             /\ \A i \in (k + 1) .. Len(s) : x < s[i].start
  <1> DEFINE n == Len(s)
             by == {i \in DOMAIN s : s[i].start <= x}
             P == {m \in 0 .. n : \E k \in 0 .. m :
                     /\ \A i \in 1 .. k : s[i].start <= x
                     /\ \A i \in (k + 1) .. m : x < s[i].start}
  <1>1. n \in Nat /\ DOMAIN s = 1 .. n /\ \A i \in 1 .. n : s[i].start \in Nat
    BY ClippedIs
  <1>2. 0 \in P
    <2>1. 0 \in 0 .. n /\ 0 \in 0 .. 0 /\ 1 .. 0 = {} /\ (0 + 1) .. 0 = {}
      BY <1>1
    <2> HIDE DEF n
    <2> QED BY <2>1
  <1>3. ASSUME NEW m \in 1 .. n, m - 1 \in P PROVE m \in P
    <2>1. PICK k \in 0 .. (m - 1) :
             /\ \A i \in 1 .. k : s[i].start <= x
             /\ \A i \in (k + 1) .. (m - 1) : x < s[i].start
      BY <1>3
    <2> HIDE DEF n
    <2>2. CASE s[m].start <= x
      <3>1. k = m - 1
        <4>1. ASSUME k # m - 1 PROVE FALSE
          <5>1. m - 1 \in (k + 1) .. (m - 1) /\ m - 1 \in 1 .. n /\ m - 1 < m
            BY <1>1, <4>1
          <5>2. s[m - 1].start <= s[m].start
            BY <1>1, <5>1 DEF Rising
          <5> QED BY <1>1, <2>1, <2>2, <5>1, <5>2
        <4> QED BY <4>1
      <3>2. \A i \in 1 .. m : i \in 1 .. k \/ i = m
        BY <1>1, <3>1
      <3>3. m \in 0 .. m /\ m \in 0 .. n /\ (m + 1) .. m = {}
        BY <1>1
      <3> QED BY <2>1, <2>2, <3>2, <3>3
    <2>3. CASE ~(s[m].start <= x)
      <3>1. \A i \in (k + 1) .. m : i \in (k + 1) .. (m - 1) \/ i = m
        BY <1>1
      <3>2. x < s[m].start /\ k \in 0 .. m /\ m \in 0 .. n
        BY <1>1, <2>3
      <3> QED BY <2>1, <3>1, <3>2
    <2> QED BY <2>2, <2>3
  <1>4. n \in P
    <2>1. n \in 0 .. n
      BY <1>1
    <2> HIDE DEF P, n
    <2> QED BY <1>1, <1>2, <1>3, <2>1, Steps
  <1>5. PICK k \in 0 .. n : /\ \A i \in 1 .. k : s[i].start <= x
                            /\ \A i \in (k + 1) .. n : x < s[i].start
    BY <1>4
  <1> HIDE DEF n
  <1>6. by = 1 .. k
    <2>1. \A i \in 1 .. n : i \in 1 .. k \/ i \in (k + 1) .. n
      BY <1>1
    <2>2. \A i \in 1 .. k : i \in 1 .. n
      BY <1>1
    <2> QED BY <1>1, <1>5, <2>1, <2>2
  <1>7. Cardinality(1 .. k) = k
    BY <1>1, FS_Interval
  <1> QED BY <1>5, <1>6, <1>7 DEF n

LEMMA InsertedRises ==
    ASSUME NEW s \in Seq(Clipped), Rising(s), NEW iv \in Clipped
    PROVE  /\ Inserted(s, iv) \in Seq(Clipped) /\ Rising(Inserted(s, iv))
           /\ Range(Inserted(s, iv)) = Range(s) \cup {iv}
  <1>1. PICK k \in 0 .. Len(s) :
             /\ Cardinality({i \in DOMAIN s : s[i].start <= iv.start}) = k
             /\ \A i \in 1 .. k : s[i].start <= iv.start
             /\ \A i \in (k + 1) .. Len(s) : iv.start < s[i].start
    BY FirstPlaces, ClippedIs
  <1> DEFINE n == Len(s)
             r == Inserted(s, iv)
             before == SubSeq(s, 1, k)
             after == SubSeq(s, k + 1, n)
  <1>2. n \in Nat /\ k \in Nat /\ k <= n /\ DOMAIN s = 1 .. n
    OBVIOUS
  <1>3. r = before \o <<iv>> \o after
    <2>1. r = InsertAt(s, k + 1, iv)
      BY <1>1 DEF Inserted
    <2>2. (k + 1) - 1 = k
      BY <1>2
    <2>3. InsertAt(s, k + 1, iv) = SubSeq(s, 1, (k + 1) - 1) \o <<iv>> \o SubSeq(s, k + 1, Len(s))
      BY DEF InsertAt
    <2> QED BY <2>1, <2>2, <2>3
  <1>4. /\ before \in Seq(Clipped) /\ Len(before) = k
        /\ \A i \in 1 .. k : before[i] = s[i]
    BY <1>2, SubSeqProperties
  <1>5. /\ after \in Seq(Clipped) /\ Len(after) = n - k
        /\ \A i \in 1 .. (n - k) : after[i] = s[k + i]
    <2>1. /\ after \in Seq(Clipped)
          /\ Len(after) = IF k + 1 <= n THEN n - (k + 1) + 1 ELSE 0
          /\ \A i \in 1 .. (n - (k + 1) + 1) : after[i] = s[(k + 1) + i - 1]
      BY <1>2, SubSeqProperties
    <2>2. \A i \in 1 .. (n - k) : (k + 1) + i - 1 = k + i
      BY <1>2
    <2>3. n - (k + 1) + 1 = n - k /\ (~(k + 1 <= n) => n - k = 0)
      <3> HIDE DEF n
      <3> QED BY <1>2
    <2>4. Len(after) = n - k
      <3> HIDE DEF n, after
      <3> QED BY <2>1, <2>3
    <2> HIDE DEF after, n
    <2> QED BY <2>1, <2>2, <2>3, <2>4
  <1> HIDE DEF before, after, n, r
  <1>6. /\ r \in Seq(Clipped) /\ Len(r) = n + 1
        /\ \A i \in 1 .. k : r[i] = s[i]
        /\ r[k + 1] = iv
        /\ \A i \in (k + 2) .. (n + 1) : r[i] = s[i - 1]
    <2>1. <<iv>> \in Seq(Clipped) /\ Len(<<iv>>) = 1 /\ <<iv>>[1] = iv
      OBVIOUS
    <2> DEFINE front == before \o <<iv>>
    <2>2. /\ front \in Seq(Clipped) /\ Len(front) = k + 1
          /\ \A i \in 1 .. k : front[i] = s[i]
          /\ front[k + 1] = iv
      BY <1>2, <1>4, <2>1
    <2> HIDE DEF front
    <2>3. r = front \o after
      BY <1>3 DEF front
    <2>4. /\ r \in Seq(Clipped) /\ Len(r) = (k + 1) + (n - k)
          /\ \A i \in 1 .. ((k + 1) + (n - k)) :
                r[i] = IF i <= k + 1 THEN front[i] ELSE after[i - (k + 1)]
      <3>1. /\ front \o after \in Seq(Clipped)
            /\ Len(front \o after) = Len(front) + Len(after)
            /\ \A i \in 1 .. (Len(front) + Len(after)) : (front \o after)[i] =
                 IF i <= Len(front) THEN front[i] ELSE after[i - Len(front)]
        BY <1>5, <2>2, ConcatProperties
      <3> QED BY <1>5, <2>2, <2>3, <3>1
    <2>5. (k + 1) + (n - k) = n + 1
      BY <1>2
    <2>6. \A i \in 1 .. k : r[i] = s[i]
      BY <1>2, <2>2, <2>4, <2>5
    <2>7. r[k + 1] = iv
      BY <1>2, <2>2, <2>4, <2>5
    <2>8. ASSUME NEW i \in (k + 2) .. (n + 1) PROVE r[i] = s[i - 1]
      <3>1. i \in 1 .. (n + 1) /\ ~(i <= k + 1) /\ i - (k + 1) \in 1 .. (n - k)
        BY <1>2
      <3>2. r[i] = after[i - (k + 1)]
        BY <2>4, <2>5, <3>1
      <3>3. after[i - (k + 1)] = s[k + (i - (k + 1))]
        BY <1>5, <3>1
      <3>4. k + (i - (k + 1)) = i - 1
        BY <1>2
      <3> QED BY <3>2, <3>3, <3>4
    <2> QED BY <2>4, <2>5, <2>6, <2>7, <2>8
  <1>7. DOMAIN r = 1 .. (n + 1)
    BY <1>2, <1>6
  <1>8. \A i \in 1 .. n : s[i].start \in Nat
    BY <1>2, ClippedIs
  <1>9. \A i \in 1 .. (n + 1) : i \in 1 .. k \/ i = k + 1 \/ i \in (k + 2) .. (n + 1)
    BY <1>2
  <1>10. Rising(r)
    <2>1. SUFFICES ASSUME NEW i \in 1 .. (n + 1), NEW j \in 1 .. (n + 1), i < j
                   PROVE  r[i].start <= r[j].start
      BY <1>7 DEF Rising
    <2>2. \A a, b \in 1 .. n : a < b => s[a].start <= s[b].start
      BY <1>2 DEF Rising
    <2>3. CASE i \in 1 .. k /\ j \in 1 .. k
      <3>1. i \in 1 .. n /\ j \in 1 .. n
        BY <1>2, <2>3
      <3> QED BY <1>6, <2>1, <2>2, <2>3, <3>1
    <2>4. CASE i \in 1 .. k /\ j = k + 1
      BY <1>1, <1>6, <2>4
    <2>5. CASE i \in 1 .. k /\ j \in (k + 2) .. (n + 1)
      <3>1. i \in 1 .. n /\ j - 1 \in 1 .. n /\ i < j - 1
        BY <1>2, <2>5
      <3> QED BY <1>6, <2>2, <2>5, <3>1
    <2>6. CASE i = k + 1 /\ j \in (k + 2) .. (n + 1)
      <3>1. j - 1 \in (k + 1) .. n /\ j - 1 \in 1 .. n
        BY <1>2, <2>6
      <3>2. iv.start < s[j - 1].start
        BY <1>1, <3>1 DEF n
      <3>3. iv.start \in Nat /\ s[j - 1].start \in Nat
        BY <1>8, <3>1, ClippedIs
      <3>4. iv.start <= s[j - 1].start
        BY <3>2, <3>3
      <3>5. r[i] = iv /\ r[j] = s[j - 1]
        BY <1>6, <2>6
      <3> QED BY <3>4, <3>5
    <2>7. CASE i \in (k + 2) .. (n + 1) /\ j \in (k + 2) .. (n + 1)
      <3>1. i - 1 \in 1 .. n /\ j - 1 \in 1 .. n /\ i - 1 < j - 1
        BY <1>2, <2>1, <2>7
      <3> QED BY <1>6, <2>2, <2>7, <3>1
    <2> QED BY <1>2, <1>9, <2>1, <2>3, <2>4, <2>5, <2>6, <2>7
  <1>11. Range(r) = Range(s) \cup {iv}
    <2>1. ASSUME NEW i \in 1 .. (n + 1) PROVE r[i] \in Range(s) \cup {iv}
      <3>1. CASE i \in 1 .. k
        <4>1. i \in DOMAIN s
          BY <1>2, <3>1
        <4> QED BY <1>6, <3>1, <4>1 DEF Range
      <3>2. CASE i = k + 1
        BY <1>6, <3>2
      <3>3. CASE i \in (k + 2) .. (n + 1)
        <4>1. i - 1 \in DOMAIN s
          BY <1>2, <3>3
        <4> QED BY <1>6, <3>3, <4>1 DEF Range
      <3> QED BY <1>9, <3>1, <3>2, <3>3
    <2>2. ASSUME NEW i \in 1 .. n PROVE s[i] \in Range(r)
      <3>1. CASE i <= k
        <4>1. i \in 1 .. k /\ i \in DOMAIN r
          BY <1>2, <1>7, <3>1
        <4> QED BY <1>6, <4>1 DEF Range
      <3>2. CASE ~(i <= k)
        <4>1. i + 1 \in (k + 2) .. (n + 1) /\ i + 1 \in DOMAIN r /\ (i + 1) - 1 = i
          BY <1>2, <1>7, <3>2
        <4>2. r[i + 1] = s[i]
          BY <1>6, <4>1
        <4> QED BY <4>1, <4>2 DEF Range
      <3> QED BY <3>1, <3>2
    <2>3. iv \in Range(r)
      <3>1. k + 1 \in DOMAIN r
        BY <1>2, <1>7
      <3> QED BY <1>6, <3>1 DEF Range
    <2>4. Range(r) = {r[i] : i \in 1 .. (n + 1)} /\ Range(s) = {s[i] : i \in 1 .. n}
      BY <1>2, <1>7 DEF Range
    <2> QED BY <2>1, <2>2, <2>3, <2>4
  <1> QED BY <1>6, <1>10, <1>11 DEF r

SortedIs(g, ivs) ==
    g = [i \in 0 .. Len(ivs) |-> IF i = 0 THEN <<>> ELSE Inserted(g[i - 1], ivs[i])]

RisingList == {s \in Seq(Clipped) : Rising(s)}

LEMMA SortedExists ==
    ASSUME NEW ivs \in Seq(Clipped)
    PROVE  \E g : SortedIs(g, ivs) /\ SortedByStart(ivs) = g[Len(ivs)]
  <1> DEFINE n == Len(ivs)
             T == RisingList
             h == [x \in T \X (1 .. n) |-> Inserted(x[1], ivs[x[2]])]
  <1>1. n \in Nat /\ \A i \in 1 .. n : ivs[i] \in Clipped
    OBVIOUS
  <1>2. h \in [T \X (1 .. n) -> T]
    <2>1. \A s \in T : \A i \in 1 .. n : Inserted(s, ivs[i]) \in T
      BY <1>1, InsertedRises DEF RisingList
    <2> HIDE DEF T, n
    <2> QED BY <2>1
  <1>3. <<>> \in T
    BY DEF RisingList, Rising
  <1>4. PICK g : GoesOn(g, T, <<>>, n, h)
    <2> HIDE DEF T, h, n
    <2> QED BY <1>1, <1>2, <1>3, Recursion
  <1>5. SortedIs(g, ivs)
    <2>1. ASSUME NEW i \in 1 .. n PROVE g[i] = Inserted(g[i - 1], ivs[i])
      <3>1. <<g[i - 1], i>> \in T \X (1 .. n) /\ g[i] = h[<<g[i - 1], i>>]
        <4> HIDE DEF h, T, n
        <4> QED BY <1>1, <1>4 DEF GoesOn
      <3> HIDE DEF T, n
      <3> QED BY <3>1
    <2>2. g = [i \in 0 .. n |-> g[i]] /\ g[0] = <<>>
      <3> HIDE DEF h, T, n
      <3> QED BY <1>4 DEF GoesOn
    <2>3. \A i \in 0 .. n : i = 0 \/ i \in 1 .. n
      BY <1>1
    <2> HIDE DEF h, T
    <2> QED BY <2>1, <2>2, <2>3 DEF SortedIs
  <1>6. LET f == CHOOSE f : SortedIs(f, ivs) IN SortedIs(f, ivs)
    BY <1>5
  <1>7. SortedByStart(ivs) = (CHOOSE f : SortedIs(f, ivs))[n]
    BY DEF SortedByStart, SortedIs
  <1> QED BY <1>6, <1>7

LEMMA SortedRises ==
    ASSUME NEW ivs \in Seq(Clipped)
    PROVE  /\ SortedByStart(ivs) \in Seq(Clipped) /\ Rising(SortedByStart(ivs))
           /\ Range(SortedByStart(ivs)) = Range(ivs)
  <1>1. PICK g : SortedIs(g, ivs) /\ SortedByStart(ivs) = g[Len(ivs)]
    BY SortedExists
  <1> DEFINE n == Len(ivs)
             upto(i) == {ivs[j] : j \in 1 .. i}
             P == {i \in 0 .. n : /\ g[i] \in Seq(Clipped) /\ Rising(g[i])
                                  /\ Range(g[i]) = upto(i)}
  <1>2. n \in Nat /\ DOMAIN ivs = 1 .. n /\ \A i \in 1 .. n : ivs[i] \in Clipped
    OBVIOUS
  <1>3. 0 \in P
    <2>1. g[0] = <<>> /\ 0 \in 0 .. n
      BY <1>1, <1>2 DEF SortedIs
    <2>2. Range(<<>>) = {} /\ upto(0) = {}
      BY DEF Range
    <2>3. <<>> \in Seq(Clipped) /\ Rising(<<>>)
      BY DEF Rising
    <2> HIDE DEF upto, n
    <2> QED BY <2>1, <2>2, <2>3
  <1>4. ASSUME NEW i \in 1 .. n, i - 1 \in P PROVE i \in P
    <2>1. g[i - 1] \in Seq(Clipped) /\ Rising(g[i - 1]) /\ Range(g[i - 1]) = upto(i - 1)
      BY <1>4
    <2>2. i \in 0 .. n /\ i # 0 /\ ivs[i] \in Clipped
      BY <1>2
    <2>3. g[i] = Inserted(g[i - 1], ivs[i])
      BY <1>1, <2>2 DEF SortedIs
    <2>4. upto(i) = upto(i - 1) \cup {ivs[i]}
      <3>1. \A j : j \in 1 .. i <=> j \in 1 .. (i - 1) \/ j = i
        BY <1>2
      <3> QED BY <3>1
    <2> HIDE DEF upto, n
    <2>5. g[i] \in Seq(Clipped) /\ Rising(g[i]) /\ Range(g[i]) = Range(g[i - 1]) \cup {ivs[i]}
      BY <2>1, <2>2, <2>3, InsertedRises
    <2> QED BY <2>1, <2>2, <2>4, <2>5
  <1>5. \A i \in 0 .. n : i \in P
    <2> HIDE DEF P, n
    <2> QED BY <1>2, <1>3, <1>4, Steps
  <1>6. g[n] \in Seq(Clipped) /\ Rising(g[n]) /\ Range(g[n]) = upto(n)
    <2>1. n \in 0 .. n
      BY <1>2
    <2> QED BY <1>5, <2>1
  <1>7. Range(ivs) = upto(n)
    BY <1>2 DEF Range
  <1> QED BY <1>1, <1>6, <1>7

-----------------------------------------------------------------------------
(* Merging.                                                                 *)

FoldedIs(g, s) ==
    g = [i \in 0 .. Len(s) |-> IF i = 0 THEN <<>> ELSE FoldOnto(g[i - 1], s[i])]

LEMMA LastIs ==
    ASSUME NEW S, NEW s \in Seq(S), s # <<>>
    PROVE  /\ Len(s) \in Nat /\ Len(s) > 0 /\ Len(s) \in DOMAIN s /\ DOMAIN s = 1 .. Len(s)
           /\ Last(s) = s[Len(s)] /\ Last(s) \in S
  BY DEF Last

LEMMA FoldOntoIsList ==
    ASSUME NEW s \in Seq(Clipped), NEW iv \in Clipped
    PROVE  FoldOnto(s, iv) \in Seq(Clipped)
  <1>1. CASE s = <<>> \/ iv.start > Last(s).end
    BY <1>1 DEF FoldOnto
  <1>2. CASE s # <<>> /\ ~(iv.start > Last(s).end)
    <2> DEFINE longer == [start |-> Last(s).start, end |-> iv.end]
    <2>1. /\ Len(s) \in DOMAIN s /\ Last(s) \in Clipped
          /\ Last(s).start \in Nat /\ Last(s).end \in Nat /\ Last(s).start < Last(s).end
          /\ From <= Last(s).start /\ iv.end \in Nat /\ iv.end <= Until /\ From \in Nat
      BY <1>2, LastIs, ClippedIs
    <2>2. CASE iv.end > Last(s).end
      <3>1. longer \in Clipped
        BY <2>1, <2>2, ClippedIs
      <3>2. FoldOnto(s, iv) = [s EXCEPT ![Len(s)] = longer]
        BY <1>2, <2>2 DEF FoldOnto
      <3> HIDE DEF longer
      <3> QED BY <2>1, <3>1, <3>2, ExceptSeq
    <2>3. CASE ~(iv.end > Last(s).end)
      BY <1>2, <2>3 DEF FoldOnto
    <2> QED BY <2>2, <2>3
  <1> QED BY <1>1, <1>2

LEMMA FoldedExists ==
    ASSUME NEW s \in Seq(Clipped)
    PROVE  \E g : FoldedIs(g, s) /\ Folded(s) = g[Len(s)]
  <1> DEFINE n == Len(s)
             T == Seq(Clipped)
             h == [x \in T \X (1 .. n) |-> FoldOnto(x[1], s[x[2]])]
  <1>1. n \in Nat /\ \A i \in 1 .. n : s[i] \in Clipped
    OBVIOUS
  <1>2. h \in [T \X (1 .. n) -> T]
    <2>1. \A q \in T : \A i \in 1 .. n : FoldOnto(q, s[i]) \in T
      BY <1>1, FoldOntoIsList
    <2> HIDE DEF T, n
    <2> QED BY <2>1
  <1>3. <<>> \in T
    OBVIOUS
  <1>4. PICK g : GoesOn(g, T, <<>>, n, h)
    <2> HIDE DEF T, h, n
    <2> QED BY <1>1, <1>2, <1>3, Recursion
  <1>5. FoldedIs(g, s)
    <2>1. ASSUME NEW i \in 1 .. n PROVE g[i] = FoldOnto(g[i - 1], s[i])
      <3>1. <<g[i - 1], i>> \in T \X (1 .. n) /\ g[i] = h[<<g[i - 1], i>>]
        <4> HIDE DEF h, T, n
        <4> QED BY <1>1, <1>4 DEF GoesOn
      <3> HIDE DEF T, n
      <3> QED BY <3>1
    <2>2. g = [i \in 0 .. n |-> g[i]] /\ g[0] = <<>>
      <3> HIDE DEF h, T, n
      <3> QED BY <1>4 DEF GoesOn
    <2>3. \A i \in 0 .. n : i = 0 \/ i \in 1 .. n
      BY <1>1
    <2> HIDE DEF h, T
    <2> QED BY <2>1, <2>2, <2>3 DEF FoldedIs
  <1>6. LET f == CHOOSE f : FoldedIs(f, s) IN FoldedIs(f, s)
    BY <1>5
  <1>7. Folded(s) = (CHOOSE f : FoldedIs(f, s))[n]
    BY DEF Folded, FoldedIs
  <1> QED BY <1>6, <1>7

LEMMA FoldOntoHolds ==
    ASSUME NEW s \in Seq(Clipped), Apart(s), NEW iv \in Clipped,
           s # <<>> => Last(s).start <= iv.start
    PROVE  /\ Apart(FoldOnto(s, iv)) /\ FoldOnto(s, iv) # <<>>
           /\ Last(FoldOnto(s, iv)).start <= iv.start
           /\ Held(Range(FoldOnto(s, iv))) = Held(Range(s) \cup {iv})
  <1> DEFINE n == Len(s)
             r == FoldOnto(s, iv)
             last == Last(s)
  <1>1. /\ n \in Nat /\ DOMAIN s = 1 .. n
        /\ \A i \in 1 .. n : s[i] \in Clipped /\ s[i].start \in Nat /\ s[i].end \in Nat
                             /\ s[i].start < s[i].end
        /\ iv.start \in Nat /\ iv.end \in Nat /\ iv.start < iv.end
    BY ClippedIs
  <1>2. r \in Seq(Clipped)
    BY FoldOntoIsList
  <1>3. Range(s) = {s[i] : i \in 1 .. n}
    BY <1>1 DEF Range
  <1>4. \A i, j \in 1 .. n : i < j => s[i].end < s[j].start
    BY <1>1 DEF Apart
  <1>5. s # <<>> => /\ n > 0 /\ n \in 1 .. n /\ last = s[n] /\ last \in Clipped
                    /\ last.start <= iv.start
    BY LastIs
  <1>6. CASE s = <<>> \/ iv.start > last.end
    <2>1. r = Append(s, iv)
      BY <1>6 DEF FoldOnto
    <2>2. /\ Len(r) = n + 1 /\ DOMAIN r = 1 .. (n + 1) /\ r[n + 1] = iv
          /\ \A i \in 1 .. n : r[i] = s[i]
      BY <2>1
    <2>3. Range(r) = Range(s) \cup {iv}
      BY <2>1, AppendRange
    <2> HIDE DEF r, n, last
    <2>4. ASSUME NEW i \in 1 .. n PROVE s[i].end < iv.start
      <3>1. s # <<>>
        BY <1>1, <2>4 DEF n
      <3>2. last.end < iv.start /\ last = s[n] /\ n \in 1 .. n
        BY <1>1, <1>5, <1>6, <3>1
      <3>3. i = n \/ s[i].end < s[n].start
        BY <1>1, <1>4, <3>2
      <3> QED BY <1>1, <3>2, <3>3
    <2>5. Apart(r)
      <3>1. SUFFICES ASSUME NEW i \in 1 .. (n + 1), NEW j \in 1 .. (n + 1), i < j
                     PROVE  r[i].end < r[j].start
        BY <2>2 DEF Apart
      <3>2. i \in 1 .. n /\ (j \in 1 .. n \/ j = n + 1)
        BY <1>1, <3>1
      <3> QED BY <1>4, <2>2, <2>4, <3>1, <3>2
    <2>6. r # <<>> /\ Last(r).start <= iv.start
      <3>1. r # <<>>
        BY <1>1, <2>2
      <3>2. Last(r) = iv
        BY <2>2, <3>1, <1>2, LastIs
      <3> QED BY <1>1, <3>1, <3>2
    <2> QED BY <2>3, <2>5, <2>6 DEF r
  <1>7. CASE s # <<>> /\ ~(iv.start > last.end) /\ iv.end > last.end
    <2> DEFINE longer == [start |-> last.start, end |-> iv.end]
    <2>1. r = [s EXCEPT ![n] = longer]
      BY <1>7 DEF FoldOnto
    <2>2. /\ Len(r) = n /\ DOMAIN r = 1 .. n /\ r[n] = longer
          /\ \A i \in 1 .. n : i # n => r[i] = s[i]
      <3>1. n \in 1 .. n /\ n \in DOMAIN s
        BY <1>1, <1>5, <1>7
      <3>2. /\ Len(r) = n /\ DOMAIN r = DOMAIN s /\ r[n] = longer
            /\ \A i \in DOMAIN s : i # n => r[i] = s[i]
        <4> HIDE DEF longer, r, last
        <4> QED BY <1>2, <2>1, <3>1
      <3> QED BY <1>1, <3>2
    <2>3. longer.start = last.start /\ longer.end = iv.end
      OBVIOUS
    <2> HIDE DEF longer, r, n, last
    <2>4. Apart(r)
      <3>1. SUFFICES ASSUME NEW i \in 1 .. n, NEW j \in 1 .. n, i < j
                     PROVE  r[i].end < r[j].start
        BY <2>2 DEF Apart
      <3>2. i # n /\ s[i].end < s[j].start
        BY <1>1, <1>4, <3>1
      <3>3. r[i] = s[i] /\ r[j].start = s[j].start
        BY <1>5, <1>7, <2>2, <2>3, <3>2
      <3> QED BY <3>2, <3>3
    <2>5. r # <<>> /\ Last(r).start <= iv.start
      <3>1. r # <<>>
        BY <1>1, <1>5, <1>7, <2>2
      <3>2. Last(r) = longer
        BY <1>2, <2>2, <3>1, LastIs
      <3> QED BY <1>5, <1>7, <2>3, <3>1, <3>2
    <2>6. Held(Range(r)) = Held(Range(s) \cup {iv})
      <3>1. Range(r) = {r[i] : i \in 1 .. n}
        BY <2>2 DEF Range
      <3>2. ASSUME NEW t \in From .. (Until - 1)
            PROVE  (\E u \in Range(r) : u.start <= t /\ t < u.end)
                     <=> (\E u \in Range(s) \cup {iv} : u.start <= t /\ t < u.end)
        <4>1. t \in Int
          BY ClippedIs
        <4>2. last.start \in Nat /\ last.end \in Nat /\ iv.start <= last.end
          BY <1>1, <1>5, <1>7
        <4>3. longer.start <= t /\ t < longer.end
                <=> (last.start <= t /\ t < last.end) \/ (iv.start <= t /\ t < iv.end)
          BY <1>1, <1>5, <1>7, <2>3, <4>1, <4>2
        <4>4. ASSUME NEW u \in Range(r), u.start <= t /\ t < u.end
              PROVE  \E v \in Range(s) \cup {iv} : v.start <= t /\ t < v.end
          <5>1. PICK i \in 1 .. n : u = r[i]
            BY <3>1
          <5>2. CASE i = n
            BY <1>3, <1>5, <1>7, <2>2, <4>3, <4>4, <5>1, <5>2
          <5>3. CASE i # n
            BY <1>3, <2>2, <4>4, <5>1, <5>3
          <5> QED BY <5>2, <5>3
        <4>5. ASSUME NEW u \in Range(s) \cup {iv}, u.start <= t /\ t < u.end
              PROVE  \E v \in Range(r) : v.start <= t /\ t < v.end
          <5>1. r[n] \in Range(r) /\ r[n] = longer
            BY <1>5, <1>7, <2>2, <3>1
          <5>2. CASE u = iv
            BY <4>3, <4>5, <5>1, <5>2
          <5>3. CASE u \in Range(s)
            <6>1. PICK i \in 1 .. n : u = s[i]
              BY <1>3, <5>3
            <6>2. CASE i = n
              BY <1>5, <1>7, <4>3, <4>5, <5>1, <6>1, <6>2
            <6>3. CASE i # n
              BY <2>2, <3>1, <4>5, <6>1, <6>3
            <6> QED BY <6>2, <6>3
          <5> QED BY <5>2, <5>3
        <4> QED BY <4>4, <4>5
      <3> QED BY <3>2 DEF Held
    <2> QED BY <2>4, <2>5, <2>6 DEF r
  <1>8. CASE s # <<>> /\ ~(iv.start > last.end) /\ ~(iv.end > last.end)
    <2>1. r = s
      BY <1>8 DEF FoldOnto
    <2> HIDE DEF r, n, last
    <2>2. last \in Range(s) /\ last.start <= iv.start /\ iv.end <= last.end
          /\ last.start \in Nat /\ last.end \in Nat
      BY <1>1, <1>3, <1>5, <1>8
    <2>3. Held(Range(s)) = Held(Range(s) \cup {iv})
      <3>1. ASSUME NEW t \in From .. (Until - 1), iv.start <= t /\ t < iv.end
            PROVE  last.start <= t /\ t < last.end
        <4>1. t \in Int
          BY ClippedIs
        <4> QED BY <1>1, <2>2, <3>1, <4>1
      <3> QED BY <2>2, <3>1 DEF Held
    <2> QED BY <1>5, <1>8, <2>1, <2>3 DEF r, last
  <1> QED BY <1>6, <1>7, <1>8

LEMMA MergeHolds ==
    ASSUME NEW ivs \in Seq(Clipped)
    PROVE  /\ merge(ivs) \in Seq(Clipped) /\ Apart(merge(ivs))
           /\ Held(Range(merge(ivs))) = Held(Range(ivs))
  <1> DEFINE s == SortedByStart(ivs)
             n == Len(s)
             upto(i) == {s[j] : j \in 1 .. i}
  <1>1. s \in Seq(Clipped) /\ Rising(s) /\ Range(s) = Range(ivs)
    BY SortedRises
  <1>2. merge(ivs) = Folded(s)
    BY DEF merge
  <1> HIDE DEF s
  <1>3. PICK g : FoldedIs(g, s) /\ Folded(s) = g[n]
    BY <1>1, FoldedExists
  <1>4. n \in Nat /\ DOMAIN s = 1 .. n /\ \A i \in 1 .. n : s[i] \in Clipped
    BY <1>1
  <1> DEFINE P == {i \in 0 .. n : /\ g[i] \in Seq(Clipped) /\ Apart(g[i])
                                  /\ Held(Range(g[i])) = Held(upto(i))
                                  /\ g[i] # <<>> => i # 0 /\ Last(g[i]).start <= s[i].start}
  <1>5. 0 \in P
    <2>1. g[0] = <<>> /\ 0 \in 0 .. n
      BY <1>3, <1>4 DEF FoldedIs
    <2>2. Range(<<>>) = {} /\ upto(0) = {}
      BY DEF Range
    <2>3. <<>> \in Seq(Clipped) /\ Apart(<<>>)
      BY DEF Apart
    <2> HIDE DEF upto, n
    <2> QED BY <2>1, <2>2, <2>3
  <1>6. ASSUME NEW i \in 1 .. n, i - 1 \in P PROVE i \in P
    <2>1. /\ g[i - 1] \in Seq(Clipped) /\ Apart(g[i - 1])
          /\ Held(Range(g[i - 1])) = Held(upto(i - 1))
          /\ g[i - 1] # <<>> => i - 1 # 0 /\ Last(g[i - 1]).start <= s[i - 1].start
      BY <1>6
    <2>2. i \in 0 .. n /\ i # 0 /\ s[i] \in Clipped
      BY <1>4
    <2>3. g[i] = FoldOnto(g[i - 1], s[i])
      BY <1>3, <2>2 DEF FoldedIs
    <2>4. upto(i) = upto(i - 1) \cup {s[i]}
      <3>1. \A j : j \in 1 .. i <=> j \in 1 .. (i - 1) \/ j = i
        BY <1>4
      <3> QED BY <3>1
    <2> HIDE DEF upto, n
    <2>5. g[i - 1] # <<>> => Last(g[i - 1]).start <= s[i].start
      <3> SUFFICES ASSUME g[i - 1] # <<>> PROVE Last(g[i - 1]).start <= s[i].start
        OBVIOUS
      <3>1. i - 1 \in 1 .. n /\ i - 1 < i /\ i \in 1 .. n
        BY <1>4, <2>1
      <3>2. s[i - 1].start <= s[i].start
        BY <1>1, <1>4, <3>1 DEF Rising
      <3>3. Last(g[i - 1]).start \in Nat /\ s[i - 1].start \in Nat /\ s[i].start \in Nat
        BY <1>4, <2>1, <2>2, <3>1, LastIs, ClippedIs
      <3> QED BY <2>1, <3>2, <3>3
    <2>6. /\ g[i] \in Seq(Clipped) /\ Apart(g[i]) /\ Last(g[i]).start <= s[i].start
          /\ Held(Range(g[i])) = Held(Range(g[i - 1]) \cup {s[i]})
      BY <2>1, <2>2, <2>3, <2>5, FoldOntoHolds, FoldOntoIsList
    <2>7. Held(Range(g[i - 1]) \cup {s[i]}) = Held(upto(i - 1) \cup {s[i]})
      BY <2>1 DEF Held
    <2> QED BY <2>2, <2>4, <2>6, <2>7
  <1>7. \A i \in 0 .. n : i \in P
    <2> HIDE DEF P, n
    <2> QED BY <1>4, <1>5, <1>6, Steps
  <1>8. g[n] \in Seq(Clipped) /\ Apart(g[n]) /\ Held(Range(g[n])) = Held(upto(n))
    <2>1. n \in 0 .. n
      BY <1>4
    <2> QED BY <1>7, <2>1
  <1>9. Range(ivs) = upto(n)
    BY <1>1, <1>4 DEF Range
  <1> QED BY <1>2, <1>3, <1>8, <1>9

-----------------------------------------------------------------------------
(* The figures.                                                             *)

CoverIs(g, s) ==
    g = [i \in 0 .. Len(s) |-> IF i = 0 THEN 0 ELSE g[i - 1] + (s[i].end - s[i].start)]

LEMMA CoverExists ==
    ASSUME NEW s \in Seq(Clipped)
    PROVE  \E g : CoverIs(g, s) /\ cover(s) = g[Len(s)]
  <1> DEFINE n == Len(s)
             T == Int
             h == [x \in T \X (1 .. n) |-> x[1] + (s[x[2]].end - s[x[2]].start)]
  <1>1. n \in Nat /\ \A i \in 1 .. n : s[i].start \in Nat /\ s[i].end \in Nat
    BY ClippedIs
  <1>2. h \in [T \X (1 .. n) -> T]
    <2> HIDE DEF n
    <2> QED BY <1>1
  <1>3. PICK g : GoesOn(g, T, 0, n, h)
    <2>1. 0 \in T
      OBVIOUS
    <2> HIDE DEF h, n, T
    <2> QED BY <1>1, <1>2, <2>1, Recursion
  <1>4. CoverIs(g, s)
    <2>1. ASSUME NEW i \in 1 .. n PROVE g[i] = g[i - 1] + (s[i].end - s[i].start)
      <3>1. <<g[i - 1], i>> \in T \X (1 .. n) /\ g[i] = h[<<g[i - 1], i>>]
        <4> HIDE DEF h, n, T
        <4> QED BY <1>1, <1>3 DEF GoesOn
      <3> HIDE DEF n
      <3> QED BY <3>1
    <2>2. g = [i \in 0 .. n |-> g[i]] /\ g[0] = 0
      <3> HIDE DEF h, n, T
      <3> QED BY <1>3 DEF GoesOn
    <2>3. \A i \in 0 .. n : i = 0 \/ i \in 1 .. n
      BY <1>1
    <2> HIDE DEF h
    <2> QED BY <2>1, <2>2, <2>3 DEF CoverIs
  <1>5. LET f == CHOOSE f : CoverIs(f, s) IN CoverIs(f, s)
    BY <1>4
  <1>6. cover(s) = (CHOOSE f : CoverIs(f, s))[n]
    BY DEF cover, CoverIs
  <1> QED BY <1>5, <1>6

\* Intervals apart cover as much time as there are instants they hold.
LEMMA CoverCounts ==
    ASSUME NEW s \in Seq(Clipped), Apart(s)
    PROVE  cover(s) = Cardinality(Held(Range(s)))
  <1>1. PICK g : CoverIs(g, s) /\ cover(s) = g[Len(s)]
    BY CoverExists
  <1> DEFINE n == Len(s)
             upto(i) == {s[j] : j \in 1 .. i}
             P == {i \in 0 .. n : /\ IsFiniteSet(Held(upto(i)))
                                  /\ g[i] = Cardinality(Held(upto(i)))}
  <1>2. /\ n \in Nat /\ DOMAIN s = 1 .. n
        /\ \A i \in 1 .. n : /\ s[i].start \in Nat /\ s[i].end \in Nat /\ s[i].start < s[i].end
                             /\ From <= s[i].start /\ s[i].end <= Until
    BY ClippedIs
  <1>3. 0 \in P
    <2>1. g[0] = 0 /\ 0 \in 0 .. n
      BY <1>1, <1>2 DEF CoverIs
    <2>2. Held(upto(0)) = {}
      BY DEF Held
    <2> HIDE DEF upto, n
    <2> QED BY <2>1, <2>2, FS_EmptySet
  <1>4. ASSUME NEW i \in 1 .. n, i - 1 \in P PROVE i \in P
    <2> DEFINE held == Held(upto(i - 1))
               more == s[i].start .. (s[i].end - 1)
    <2>1. IsFiniteSet(held) /\ g[i - 1] = Cardinality(held)
      BY <1>4
    <2>2. i \in 0 .. n /\ g[i] = g[i - 1] + (s[i].end - s[i].start)
      <3>1. i \in 0 .. n /\ i # 0
        BY <1>2
      <3> QED BY <1>1, <3>1 DEF CoverIs
    <2>3. IsFiniteSet(more) /\ Cardinality(more) = s[i].end - s[i].start
      <3> DEFINE a == s[i].start
                 b == s[i].end - 1
      <3>1. a \in Int /\ b \in Int /\ ~(a > b) /\ b - a + 1 = s[i].end - s[i].start
        <4>1. s[i].start \in Nat /\ s[i].end \in Nat /\ s[i].start < s[i].end
          BY <1>2
        <4> QED BY <4>1
      <3>2. IsFiniteSet(a .. b) /\ Cardinality(a .. b) = b - a + 1
        <4> HIDE DEF a, b
        <4> QED BY <3>1, FS_Interval
      <3> QED BY <3>1, <3>2
    <2>4. Held(upto(i)) = held \cup more
      <3>1. upto(i) = upto(i - 1) \cup {s[i]}
        <4>1. \A j : j \in 1 .. i <=> j \in 1 .. (i - 1) \/ j = i
          BY <1>2
        <4> QED BY <4>1
      <3>2. \A t : t \in From .. (Until - 1) /\ s[i].start <= t /\ t < s[i].end <=> t \in more
        BY <1>2, ClippedIs
      <3> HIDE DEF upto, more
      <3> QED BY <3>1, <3>2 DEF Held
    <2>5. held \cap more = {}
      <3> SUFFICES ASSUME NEW t \in held, t \in more PROVE FALSE
        OBVIOUS
      <3>1. PICK j \in 1 .. (i - 1) : s[j].start <= t /\ t < s[j].end
        BY DEF Held
      <3>2. j \in 1 .. n /\ j < i
        BY <1>2
      <3>3. s[j].end < s[i].start
        BY <1>2, <3>2 DEF Apart
      <3> HIDE DEF n
      <3> QED BY <1>2, <3>1, <3>2, <3>3
    <2> HIDE DEF held, more, upto, n
    <2>6. IsFiniteSet(held \cup more) /\ IsFiniteSet(held \cap more)
          /\ Cardinality(held \cup more)
               = Cardinality(held) + Cardinality(more) - Cardinality(held \cap more)
      BY <2>1, <2>3, FS_Union, FS_Intersection
    <2>7. Cardinality(held \cup more) = Cardinality(held) + Cardinality(more)
      <3>1. Cardinality(held \cap more) = 0
        BY <2>5, FS_EmptySet
      <3>2. Cardinality(held) \in Nat /\ Cardinality(more) \in Nat
        BY <2>1, <2>3, FS_CardinalityType
      <3> QED BY <2>6, <3>1, <3>2
    <2> QED BY <2>1, <2>2, <2>3, <2>4, <2>6, <2>7
  <1>5. \A i \in 0 .. n : i \in P
    <2> HIDE DEF P, n
    <2> QED BY <1>2, <1>3, <1>4, Steps
  <1>6. g[n] = Cardinality(Held(upto(n)))
    <2>1. n \in 0 .. n
      BY <1>2
    <2> QED BY <1>5, <2>1
  <1>7. Range(s) = upto(n)
    BY <1>2 DEF Range
  <1> QED BY <1>1, <1>6, <1>7

LEMMA LeastIs ==
    ASSUME NEW S \in SUBSET Int, NEW a \in S, \A u \in S : a <= u
    PROVE  Least(S) = a
  <1>1. \A b \in S : (\A u \in S : b <= u) => b = a
    OBVIOUS
  <1> QED BY <1>1 DEF Least

LEMMA GreatestIs ==
    ASSUME NEW S \in SUBSET Int, NEW a \in S, \A u \in S : u <= a
    PROVE  Greatest(S) = a
  <1>1. \A b \in S : (\A u \in S : u <= b) => b = a
    OBVIOUS
  <1> QED BY <1>1 DEF Greatest

\* What merged intervals say of the instants they hold.
Tells(m, held) ==
    /\ cover(m) = Cardinality(held)
    /\ m = <<>> <=> held = {}
    /\ m # <<>> =>
        /\ Last(m).end >= Until <=> Until - 1 \in held
        /\ Last(m).start \in Nat /\ From <= Last(m).start
        /\ Last(m).end \in Nat /\ From <= Last(m).end
        /\ m[1].start \in Nat /\ From <= m[1].start
        /\ Until - 1 \in held =>
             Last(m).start = Least({t \in held : t .. (Until - 1) \subseteq held})
        /\ Last(m).end = Greatest(held) + 1
        /\ m[1].start = Least(held)

LEMMA MergeTells ==
    ASSUME NEW ivs \in Seq(Clipped)
    PROVE  Tells(merge(ivs), Held(Range(ivs)))
  <1> DEFINE m == merge(ivs)
             n == Len(m)
             held == Held(Range(ivs))
  <1>1. m \in Seq(Clipped) /\ Apart(m) /\ held = Held(Range(m))
    BY MergeHolds
  <1>2. cover(m) = Cardinality(held)
    BY <1>1, CoverCounts
  <1> HIDE DEF m, held
  <1>3. /\ n \in Nat /\ DOMAIN m = 1 .. n
        /\ \A i \in 1 .. n : /\ m[i].start \in Nat /\ m[i].end \in Nat /\ m[i].start < m[i].end
                             /\ From <= m[i].start /\ m[i].end <= Until
        /\ \A i, j \in 1 .. n : i < j => m[i].end < m[j].start
        /\ From \in Nat /\ Until \in Nat
    BY <1>1, ClippedIs DEF Apart
  <1>4. \A t : t \in held <=> /\ t \in From .. (Until - 1)
                              /\ \E i \in 1 .. n : m[i].start <= t /\ t < m[i].end
    BY <1>1, <1>3 DEF Held, Range
  <1>5. held \subseteq Int
    BY <1>3, <1>4
  <1>6. CASE m = <<>>
    <2>1. n = 0
      BY <1>6
    <2>2. held = {}
      BY <1>4, <2>1
    <2> QED BY <1>2, <1>6, <2>2 DEF Tells, m, held
  <1>7. CASE m # <<>>
    <2>1. n > 0 /\ n \in 1 .. n /\ 1 \in 1 .. n /\ Last(m) = m[n]
      BY <1>1, <1>7, LastIs
    <2> DEFINE last == m[n]
    <2> HIDE DEF n
    <2>2. /\ last.start \in Nat /\ last.end \in Nat /\ last.start < last.end
          /\ From <= last.start /\ last.end <= Until
      BY <1>3, <2>1
    <2>3. \A t \in last.start .. (last.end - 1) : t \in held
      BY <1>3, <1>4, <2>1, <2>2
    <2>4. ASSUME NEW t \in held PROVE t \in Int /\ t < last.end /\ m[1].start <= t
      <3>1. PICK i \in 1 .. n : m[i].start <= t /\ t < m[i].end
        BY <1>4
      <3>2. t \in Int
        BY <1>5
      <3>3. i = n \/ m[i].end < last.start
        BY <1>3, <2>1
      <3>4. i = 1 \/ m[1].end < m[i].start
        BY <1>3, <2>1
      <3> HIDE DEF last
      <3>5. t < last.end
        BY <1>3, <2>2, <3>1, <3>2, <3>3 DEF last
      <3>6. m[1].start <= t
        BY <1>3, <2>1, <3>1, <3>2, <3>4
      <3> QED BY <3>2, <3>5, <3>6
    <2>5. held # {}
      <3>1. last.start \in last.start .. (last.end - 1)
        BY <2>2
      <3> QED BY <2>3, <3>1
    <2>6. last.end >= Until <=> Until - 1 \in held
      <3>1. ASSUME last.end >= Until PROVE Until - 1 \in held
        <4>1. Until - 1 \in last.start .. (last.end - 1)
          BY <1>3, <2>2, <3>1
        <4> QED BY <2>3, <4>1
      <3>2. ASSUME Until - 1 \in held PROVE last.end >= Until
        BY <1>3, <2>2, <2>4, <3>2
      <3> QED BY <3>1, <3>2
    <2>7. ASSUME Until - 1 \in held
          PROVE  last.start = Least({t \in held : t .. (Until - 1) \subseteq held})
      <3> DEFINE stretch == {t \in held : t .. (Until - 1) \subseteq held}
      <3>1. last.end = Until
        BY <1>3, <2>2, <2>6, <2>7
      <3>2. last.start \in stretch
        <4>1. last.start \in last.start .. (last.end - 1)
          BY <2>2
        <4> QED BY <2>3, <3>1, <4>1
      <3>3. ASSUME NEW t \in stretch, t < last.start PROVE FALSE
        <4>1. t \in Int /\ t \in held
          BY <1>5, <3>3
        <4>2. last.start - 1 \in t .. (Until - 1)
          BY <1>3, <2>2, <3>1, <3>3, <4>1
        <4>3. last.start - 1 \in held
          BY <3>3, <4>2
        <4>4. PICK i \in 1 .. n : m[i].start <= last.start - 1 /\ last.start - 1 < m[i].end
          BY <1>4, <4>3
        <4>5. i = n \/ m[i].end < last.start
          BY <1>3, <2>1
        <4> HIDE DEF last
        <4> QED BY <1>3, <2>2, <4>4, <4>5 DEF last
      <3>4. stretch \subseteq Int
        BY <1>5
      <3>5. \A t \in stretch : last.start <= t
        <4> HIDE DEF stretch, last
        <4> QED BY <2>2, <3>3, <3>4
      <3> HIDE DEF stretch, last
      <3> QED BY <3>2, <3>4, <3>5, LeastIs DEF stretch
    <2>8. last.end = Greatest(held) + 1
      <3>1. last.end - 1 \in held
        <4>1. last.end - 1 \in last.start .. (last.end - 1)
          BY <2>2
        <4> QED BY <2>3, <4>1
      <3>2. \A t \in held : t <= last.end - 1
        <4> HIDE DEF last
        <4> QED BY <2>2, <2>4
      <3> HIDE DEF last
      <3>3. Greatest(held) = last.end - 1
        BY <1>5, <3>1, <3>2, GreatestIs
      <3> QED BY <2>2, <3>3
    <2>9. m[1].start = Least(held) /\ m[1].start \in Nat /\ From <= m[1].start
      <3>1. m[1].start \in held
        <4>1. m[1].start \in From .. (Until - 1) /\ m[1].start < m[1].end
              /\ m[1].start <= m[1].start
          BY <1>3, <2>1
        <4> QED BY <1>4, <2>1, <4>1
      <3>2. m[1].start = Least(held)
        BY <1>5, <2>4, <3>1, LeastIs
      <3> QED BY <1>3, <2>1, <3>2
    <2>10. From <= last.end
      <3> HIDE DEF last
      <3> QED BY <1>3, <2>2
    <2>11. Last(m) = last
      BY <2>1
    <2> HIDE DEF last
    <2> QED BY <1>2, <1>7, <2>2, <2>5, <2>6, <2>7, <2>8, <2>9, <2>10, <2>11 DEF Tells, m, held
  <1> QED BY <1>6, <1>7

\* What has been read of some endpoints.
SpansAre(sp, eps) ==
    /\ sp.measured \in Seq(Clipped) /\ sp.live \in Seq(Clipped)
    /\ Range(sp.live) \subseteq Range(sp.measured)
    /\ Held(Range(sp.live)) = Instants(eps, {"live"})
    /\ Held(Range(sp.measured)) = Instants(eps, {"live", "dead"})

LEMMA FigureMeans ==
    ASSUME NEW sp, NEW eps, SpansAre(sp, eps)
    PROVE  availability(sp) = Meaning(eps)
  <1> DEFINE live     == merge(sp.live)
             measured == merge(sp.measured)
             present  == measured # <<>> /\ Last(measured).end >= Until
             answers  == present /\ live # <<>> /\ Last(live).end >= Until
             since    == CASE ~present -> -1
                           [] answers -> Last(live).start
                           [] present /\ ~answers /\ live # <<>> -> Last(live).end
                           [] OTHER -> measured[1].start
             up  == Instants(eps, {"live"})
             on  == Instants(eps, {"live", "dead"})
             now == Until - 1
             from == CASE now \notin on -> -1
                       [] now \in up -> Least({t \in up : t .. now \subseteq up})
                       [] now \in on \ up /\ up # {} -> Greatest(up) + 1
                       [] OTHER -> Least(on)
  <1>1. Tells(live, up) /\ Tells(measured, on)
    <2>1. Tells(live, Held(Range(sp.live))) /\ Tells(measured, Held(Range(sp.measured)))
      BY MergeTells DEF SpansAre
    <2> QED BY <2>1 DEF SpansAre
  <1>2. up \subseteq on
    BY DEF Instants
  <1>3. availability(sp) = [live |-> cover(live), measured |-> cover(measured),
                            answering |-> answers, since |-> since,
                            clipped |-> present /\ since <= From]
    BY DEF availability
  <1>4. Meaning(eps) = [live |-> Cardinality(up), measured |-> Cardinality(on),
                        answering |-> now \in up, since |-> from,
                        clipped |-> now \in on /\ from = From]
    BY DEF Meaning
  <1> HIDE DEF live, measured, up, on
  <1>5. cover(live) = Cardinality(up) /\ cover(measured) = Cardinality(on)
    BY <1>1 DEF Tells
  <1>6. present <=> now \in on
    BY <1>1 DEF Tells
  <1>7. answers <=> now \in up
    BY <1>1, <1>2, <1>6 DEF Tells
  <1>8. From \in Nat
    BY ClippedIs
  <1>9. since = from /\ (present => (since <= From <=> from = From))
    <2>1. CASE ~present
      <3>1. since = -1
        <4>1. ~answers
          BY <2>1
        <4> HIDE DEF present, answers
        <4> QED BY <2>1, <4>1
      <3>2. from = -1
        <4>1. now \notin on /\ now \notin up
          BY <1>2, <1>6, <2>1
        <4> HIDE DEF now
        <4> QED BY <4>1
      <3> QED BY <2>1, <3>1, <3>2
    <2>2. CASE answers
      <3>1. live # <<>> /\ present
        BY <2>2
      <3>2. since = Last(live).start
        <4> HIDE DEF present, answers
        <4> QED BY <2>2, <3>1
      <3>3. from = Least({t \in up : t .. now \subseteq up})
        <4>1. now \in on /\ now \in up
          BY <1>6, <1>7, <2>2, <3>1
        <4> HIDE DEF now
        <4> QED BY <4>1
      <3>4. /\ Last(live).start = Least({t \in up : t .. now \subseteq up})
            /\ Last(live).start \in Nat /\ From <= Last(live).start
        BY <1>1, <1>7, <2>2, <3>1 DEF Tells
      <3> HIDE DEF since, from, present, answers
      <3> QED BY <1>8, <3>2, <3>3, <3>4
    <2>3. CASE present /\ ~answers /\ live # <<>>
      <3>1. since = Last(live).end
        <4> HIDE DEF present, answers
        <4> QED BY <2>3
      <3>2. up # {}
        BY <1>1, <2>3 DEF Tells
      <3>3. from = Greatest(up) + 1
        <4>1. now \in on /\ now \notin up
          BY <1>6, <1>7, <2>3
        <4> HIDE DEF now
        <4> QED BY <3>2, <4>1
      <3>4. /\ Last(live).end = Greatest(up) + 1
            /\ Last(live).end \in Nat /\ From <= Last(live).end
        BY <1>1, <2>3 DEF Tells
      <3> HIDE DEF since, from, present, answers
      <3> QED BY <1>8, <3>1, <3>3, <3>4
    <2>4. CASE present /\ ~answers /\ live = <<>>
      <3>1. since = measured[1].start
        <4> HIDE DEF present, answers
        <4> QED BY <2>4
      <3>2. up = {} /\ measured # <<>>
        BY <1>1, <2>4 DEF Tells
      <3>3. from = Least(on)
        <4>1. now \in on /\ now \notin up
          BY <1>6, <1>7, <2>4
        <4> HIDE DEF now
        <4> QED BY <3>2, <4>1
      <3>4. /\ measured[1].start = Least(on)
            /\ measured[1].start \in Nat /\ From <= measured[1].start
        BY <1>1, <3>2 DEF Tells
      <3> HIDE DEF since, from, present, answers
      <3> QED BY <1>8, <3>1, <3>3, <3>4
    <2> HIDE DEF since, from
    <2> QED BY <2>1, <2>2, <2>3, <2>4
  <1>10. (present /\ since <= From) = (now \in on /\ from = From) /\ answers = (now \in up)
    <2>1. (present /\ since <= From) <=> (now \in on /\ from = From)
      <3> HIDE DEF since, from, present
      <3> QED BY <1>6, <1>9
    <2> QED BY <1>7, <2>1
  <1> HIDE DEF since, from, present, answers
  <1> QED BY <1>3, <1>4, <1>5, <1>9, <1>10

-----------------------------------------------------------------------------
(* Reading.                                                                 *)

Spans == [measured : Seq(Clipped), live : Seq(Clipped)]

UptimeInv ==
    /\ read \in Seq(Row)
    /\ endpoints \in [Endpoint -> Spans] /\ trackers \in [Tracker -> Spans]
    /\ \A ep \in Endpoint : SpansAre(endpoints[ep], {ep})
    /\ \A t \in Tracker : SpansAre(trackers[t], {ep \in Endpoint : TrackerOf[ep] = t})

LEMMA UptimeSays == UptimeInv => AvailabilityInv
  <1> SUFFICES ASSUME UptimeInv PROVE AvailabilityInv
    OBVIOUS
  <1>1. EndpointFigures /\ NameFigure
    BY FigureMeans DEF EndpointFigures, NameFigure, UptimeInv
  <1>2. ASSUME NEW sp, NEW eps, SpansAre(sp, eps)
        PROVE  /\ ToSet(sp.measured) \subseteq Interval
               /\ ToSet(sp.live) \subseteq ToSet(sp.measured)
    <2>1. ToSet(sp.measured) = Range(sp.measured) /\ ToSet(sp.live) = Range(sp.live)
      BY DEF ToSet, Range
    <2>2. Range(sp.measured) \subseteq Clipped
      BY <1>2 DEF SpansAre, Range
    <2> QED BY <1>2, <2>1, <2>2 DEF SpansAre, Clipped
  <1>3. ASSUME NEW sp \in Range(endpoints) \cup Range(trackers)
        PROVE  \E eps : SpansAre(sp, eps)
    BY DEF UptimeInv, Range
  <1>4. SpansOK
    BY <1>2, <1>3 DEF SpansOK
  <1> QED BY <1>1, <1>4 DEF AvailabilityInv

LEMMA UptimeStarts == LInit => UptimeInv
  <1> SUFFICES ASSUME LInit PROVE UptimeInv
    OBVIOUS
  <1>1. /\ read = <<>> /\ endpoints = [ep \in Endpoint |-> NoSpans]
        /\ trackers = [t \in Tracker |-> NoSpans]
    BY DEF LInit, AInit
  <1>2. NoSpans \in Spans
    BY DEF Spans, NoSpans
  <1>3. ASSUME NEW eps PROVE SpansAre(NoSpans, eps)
    <2>1. \A results : Instants(eps, results) = {}
      BY <1>1 DEF Instants
    <2>2. Range(<<>>) = {} /\ Held({}) = {}
      BY DEF Range, Held
    <2>3. NoSpans.measured = <<>> /\ NoSpans.live = <<>>
      BY DEF NoSpans
    <2>4. <<>> \in Seq(Clipped)
      OBVIOUS
    <2> QED BY <2>1, <2>2, <2>3, <2>4 DEF SpansAre
  <1>4. read \in Seq(Row)
    BY <1>1
  <1> HIDE DEF LInit
  <1> QED BY <1>1, <1>2, <1>3, <1>4 DEF UptimeInv

LEMMA ClipIs ==
    ASSUME NEW row \in Row
    PROVE  /\ clip(row.iv) \in Clipped
           /\ \A t \in From .. (Until - 1) :
                t \in row.iv.start .. (row.iv.end - 1)
                  <=> clip(row.iv).start <= t /\ t < clip(row.iv).end
  <1> DEFINE a == row.iv.start
             b == row.iv.end
             iv == clip(row.iv)
  <1>1. /\ a \in 0 .. MaxTime /\ b \in 0 .. MaxTime /\ a < b /\ a < Until /\ b > From
        /\ MaxTime \in Nat /\ From \in 0 .. MaxTime /\ Until \in 0 .. MaxTime /\ From < Until
    BY AvailabilityAssumption DEF Row, Interval
  <1>2. iv = [start |-> IF a < From THEN From ELSE a, end |-> IF b > Until THEN Until ELSE b]
    BY DEF clip
  <1> HIDE DEF a, b, iv
  <1>3. /\ iv.start = IF a < From THEN From ELSE a
        /\ iv.end = IF b > Until THEN Until ELSE b
    BY <1>2
  <1>4. iv \in Clipped
    <2>1. iv = [start |-> iv.start, end |-> iv.end]
      BY <1>2
    <2>2. /\ iv.start \in Nat /\ iv.end \in Nat /\ From <= iv.start /\ iv.start < iv.end
          /\ iv.end <= Until
      BY <1>1, <1>3
    <2> QED BY <2>1, <2>2, ClippedIs
  <1>5. ASSUME NEW t \in From .. (Until - 1)
        PROVE  t \in a .. (b - 1) <=> iv.start <= t /\ t < iv.end
    <2>1. t \in Int /\ From <= t /\ t < Until
      BY <1>1
    <2> QED BY <1>1, <1>3, <2>1
  <1> QED BY <1>4, <1>5 DEF a, b, iv

LEMMA ReadMore ==
    ASSUME read \in Seq(Row), NEW row \in Row, read' = Append(read, row),
           NEW eps, NEW results
    PROVE  Instants(eps, results)' =
             IF row.ep \in eps /\ row.result \in results
             THEN Instants(eps, results) \cup Held({clip(row.iv)}) ELSE Instants(eps, results)
  <1> DEFINE Says(r, t) == /\ r.ep \in eps /\ r.result \in results
                           /\ t \in r.iv.start .. (r.iv.end - 1)
             window == From .. (Until - 1)
  <1>1. ASSUME NEW t
        PROVE  (\E i \in DOMAIN read' : Says(read'[i], t))
                 <=> (\E i \in DOMAIN read : Says(read[i], t)) \/ Says(row, t)
    <2>1. /\ DOMAIN read = 1 .. Len(read) /\ Len(read) \in Nat
          /\ DOMAIN read' = 1 .. (Len(read) + 1)
          /\ \A i \in 1 .. Len(read) : read'[i] = read[i]
          /\ read'[Len(read) + 1] = row
      OBVIOUS
    <2>2. \A i \in 1 .. (Len(read) + 1) : i \in 1 .. Len(read) \/ i = Len(read) + 1
      BY <2>1
    <2>3. Len(read) + 1 \in DOMAIN read' /\ \A i \in DOMAIN read : i \in DOMAIN read'
      BY <2>1
    <2> HIDE DEF Says
    <2> QED BY <2>1, <2>2, <2>3
  <1>2. Instants(eps, results) = {t \in window : \E i \in DOMAIN read : Says(read[i], t)}
    BY DEF Instants
  <1>3. Instants(eps, results)' = {t \in window : \E i \in DOMAIN read' : Says(read'[i], t)}
    BY DEF Instants
  <1>4. \A t \in window : t \in row.iv.start .. (row.iv.end - 1) <=> t \in Held({clip(row.iv)})
    BY ClipIs DEF Held
  <1>5. Held({clip(row.iv)}) \subseteq window
    BY DEF Held
  <1>6. \A t \in window : Says(row, t)
           <=> row.ep \in eps /\ row.result \in results /\ t \in Held({clip(row.iv)})
    BY <1>4
  <1> HIDE DEF Says, window
  <1>7. Instants(eps, results)' = {t \in window : t \in Instants(eps, results) \/ Says(row, t)}
    BY <1>1, <1>2, <1>3
  <1>8. Instants(eps, results) \subseteq window
    BY <1>2
  <1> QED BY <1>5, <1>6, <1>7, <1>8

LEMMA HeldMore ==
    ASSUME NEW s \in Seq(Clipped), NEW iv \in Clipped
    PROVE  /\ Append(s, iv) \in Seq(Clipped)
           /\ Range(Append(s, iv)) = Range(s) \cup {iv}
           /\ Held(Range(Append(s, iv))) = Held(Range(s)) \cup Held({iv})
  <1>1. Range(Append(s, iv)) = Range(s) \cup {iv}
    BY AppendRange
  <1>2. Held(Range(s) \cup {iv}) = Held(Range(s)) \cup Held({iv})
    BY DEF Held
  <1>3. Append(s, iv) \in Seq(Clipped)
    OBVIOUS
  <1>4. Held(Range(Append(s, iv))) = Held(Range(s)) \cup Held({iv})
    BY <1>1, <1>2
  <1> QED BY <1>1, <1>3, <1>4

\* A row more, onto whatever endpoints it is of.
LEMMA SpansGrow ==
    ASSUME read \in Seq(Row), NEW row \in Row, read' = Append(read, row),
           NEW eps, NEW sp \in Spans, SpansAre(sp, eps), NEW new,
           new = IF row.result # "unknown" /\ row.ep \in eps
                 THEN add(sp, clip(row.iv), row.result = "live") ELSE sp
    PROVE  /\ new \in Spans
           /\ Range(new.live) \subseteq Range(new.measured)
           /\ Held(Range(new.live)) = Instants(eps, {"live"})'
           /\ Held(Range(new.measured)) = Instants(eps, {"live", "dead"})'
  <1> DEFINE iv == clip(row.iv)
             up == Instants(eps, {"live"})
             on == Instants(eps, {"live", "dead"})
  <1>1. iv \in Clipped
    BY ClipIs
  <1>2. row.result \in {"live", "dead", "unknown"}
    BY AvailabilityAssumption DEF Row
  <1>3. /\ up' = IF row.ep \in eps /\ row.result = "live" THEN up \cup Held({iv}) ELSE up
        /\ on' = IF row.ep \in eps /\ row.result \in {"live", "dead"}
                 THEN on \cup Held({iv}) ELSE on
    BY ReadMore
  <1>4. /\ sp.measured \in Seq(Clipped) /\ sp.live \in Seq(Clipped)
        /\ Range(sp.live) \subseteq Range(sp.measured)
        /\ Held(Range(sp.live)) = up /\ Held(Range(sp.measured)) = on
    BY DEF SpansAre
  <1> DEFINE S == Seq(Clipped)
             more == Append(sp.measured, iv)
             lives == Append(sp.live, iv)
  <1> HIDE DEF iv, up, on
  <1>5. CASE ~(row.result # "unknown" /\ row.ep \in eps)
    <2>1. new = sp /\ up' = up /\ on' = on
      BY <1>2, <1>3, <1>5
    <2> QED BY <1>4, <2>1 DEF up, on
  <1>6. CASE row.result # "unknown" /\ row.ep \in eps
    <2>1. new = add(sp, iv, row.result = "live")
      BY <1>6 DEF iv
    <2>2. /\ Append(sp.measured, iv) \in Seq(Clipped)
          /\ Range(Append(sp.measured, iv)) = Range(sp.measured) \cup {iv}
          /\ Held(Range(Append(sp.measured, iv))) = on \cup Held({iv})
      BY <1>1, <1>4, HeldMore
    <2>3. /\ Append(sp.live, iv) \in Seq(Clipped)
          /\ Range(Append(sp.live, iv)) = Range(sp.live) \cup {iv}
          /\ Held(Range(Append(sp.live, iv))) = up \cup Held({iv})
      BY <1>1, <1>4, HeldMore
    <2>4. on' = on \cup Held({iv})
      BY <1>2, <1>3, <1>6
    <2>5. CASE row.result = "live"
      <3>1. new = [measured |-> Append(sp.measured, iv), live |-> Append(sp.live, iv)]
        BY <2>1, <2>5 DEF add
      <3>2. up' = up \cup Held({iv})
        BY <1>3, <1>6, <2>5
      <3>3. new.measured = Append(sp.measured, iv) /\ new.live = Append(sp.live, iv) /\ new \in Spans
        <4>1. more \in S /\ lives \in S
          BY <1>4, <2>2, <2>3
        <4>2. new = [measured |-> more, live |-> lives] /\ Spans = [measured : S, live : S]
          BY <3>1 DEF Spans
        <4> HIDE DEF S, more, lives
        <4>3. new.measured = more /\ new.live = lives /\ new \in Spans
          BY <4>1, <4>2
        <4> QED BY <4>3 DEF more, lives
      <3>4. Range(new.live) \subseteq Range(new.measured)
        BY <1>4, <2>2, <2>3, <3>3
      <3>5. Held(Range(new.live)) = up' /\ Held(Range(new.measured)) = on'
        BY <1>4, <2>2, <2>3, <2>4, <3>2, <3>3
      <3> QED BY <3>3, <3>4, <3>5 DEF up, on
    <2>6. CASE row.result # "live"
      <3>1. new = [measured |-> Append(sp.measured, iv), live |-> sp.live]
        BY <2>1, <2>6 DEF add
      <3>2. up' = up
        BY <1>3, <2>6
      <3>3. new.measured = Append(sp.measured, iv) /\ new.live = sp.live /\ new \in Spans
        <4>1. more \in S /\ sp.live \in S
          BY <1>4, <2>2
        <4>2. new = [measured |-> more, live |-> sp.live] /\ Spans = [measured : S, live : S]
          BY <3>1 DEF Spans
        <4> HIDE DEF S, more
        <4>3. new.measured = more /\ new.live = sp.live /\ new \in Spans
          BY <4>1, <4>2
        <4> QED BY <4>3 DEF more
      <3>4. Range(new.live) \subseteq Range(new.measured)
        BY <1>4, <2>2, <3>3
      <3>5. Held(Range(new.live)) = up' /\ Held(Range(new.measured)) = on'
        BY <1>4, <2>2, <2>4, <3>2, <3>3
      <3> QED BY <3>3, <3>4, <3>5 DEF up, on
    <2> QED BY <2>5, <2>6
  <1> QED BY <1>5, <1>6

LEMMA UptimeStep ==
    ASSUME UptimeInv, [LNext]_lvars
    PROVE  UptimeInv'
  <1>1. ASSUME UNCHANGED avars PROVE UptimeInv'
    BY <1>1 DEF UptimeInv, avars, SpansAre, Instants
  <1>2. ASSUME NEW row \in Row, Scan(row) PROVE UptimeInv'
    <2> DEFINE iv   == clip(row.iv)
               live == row.result = "live"
               of(t) == {ep \in Endpoint : TrackerOf[ep] = t}
    <2>1. read \in Seq(Row) /\ read' = Append(read, row)
      BY <1>2 DEF Scan, UptimeInv
    <2>2. iv.end > iv.start
      <3>1. iv \in Clipped
        BY ClipIs
      <3> HIDE DEF iv
      <3> QED BY <3>1, ClippedIs
    <2>3. /\ endpoints' = IF row.result # "unknown"
                          THEN [endpoints EXCEPT ![row.ep] = add(@, iv, live)] ELSE endpoints
          /\ trackers' = IF row.result # "unknown"
                         THEN [trackers EXCEPT ![TrackerOf[row.ep]] = add(@, iv, live)]
                         ELSE trackers
      BY <1>2, <2>2 DEF Scan
    <2>4. row.ep \in Endpoint /\ TrackerOf[row.ep] \in Tracker
      BY AvailabilityAssumption DEF Row
    <2>5. /\ endpoints \in [Endpoint -> Spans] /\ trackers \in [Tracker -> Spans]
          /\ \A ep \in Endpoint : SpansAre(endpoints[ep], {ep})
          /\ \A t \in Tracker : SpansAre(trackers[t], of(t))
      BY DEF UptimeInv
    <2> HIDE DEF iv, live, of
    <2>6. /\ DOMAIN endpoints' = Endpoint /\ endpoints' = [ep \in Endpoint |-> endpoints'[ep]]
          /\ DOMAIN trackers' = Tracker /\ trackers' = [t \in Tracker |-> trackers'[t]]
      BY <2>3, <2>5
    <2>7. ASSUME NEW ep \in Endpoint
          PROVE  endpoints'[ep] \in Spans /\ SpansAre(endpoints[ep], {ep})'
      <3>1. endpoints'[ep] = IF row.result # "unknown" /\ row.ep \in {ep}
                             THEN add(endpoints[ep], iv, live) ELSE endpoints[ep]
        BY <2>3, <2>4, <2>5
      <3>2. endpoints[ep] \in Spans /\ SpansAre(endpoints[ep], {ep})
        BY <2>5
      <3>3. /\ endpoints'[ep] \in Spans
            /\ Range(endpoints'[ep].live) \subseteq Range(endpoints'[ep].measured)
            /\ Held(Range(endpoints'[ep].live)) = Instants({ep}, {"live"})'
            /\ Held(Range(endpoints'[ep].measured)) = Instants({ep}, {"live", "dead"})'
        BY <2>1, <3>1, <3>2, SpansGrow DEF iv, live
      <3> QED BY <3>3 DEF SpansAre, Spans
    <2>8. ASSUME NEW t \in Tracker
          PROVE  trackers'[t] \in Spans /\ SpansAre(trackers[t], of(t))'
      <3>1. row.ep \in of(t) <=> TrackerOf[row.ep] = t
        BY <2>4 DEF of
      <3>2. trackers'[t] = IF row.result # "unknown" /\ row.ep \in of(t)
                           THEN add(trackers[t], iv, live) ELSE trackers[t]
        BY <2>3, <2>4, <2>5, <3>1
      <3>3. trackers[t] \in Spans /\ SpansAre(trackers[t], of(t))
        BY <2>5
      <3>4. /\ trackers'[t] \in Spans
            /\ Range(trackers'[t].live) \subseteq Range(trackers'[t].measured)
            /\ Held(Range(trackers'[t].live)) = Instants(of(t), {"live"})'
            /\ Held(Range(trackers'[t].measured)) = Instants(of(t), {"live", "dead"})'
        BY <2>1, <3>2, <3>3, SpansGrow DEF iv, live
      <3> QED BY <3>4 DEF SpansAre, Spans
    <2>9. read' \in Seq(Row)
      BY <2>1
    <2> QED BY <2>6, <2>7, <2>8, <2>9 DEF UptimeInv, of
  <1> QED BY <1>1, <1>2 DEF LNext, lvars, ANext, handleList

\* Uptime (internal/store/availability.go): whatever the rows and in whatever
\* order they are read, the figure of every endpoint and of every name is what
\* the rows say instant by instant.
THEOREM UptimeIsWhatRowsSay == LSpec => []AvailabilityInv
  BY UptimeStarts, UptimeStep, UptimeSays, PTL DEF LSpec

=============================================================================
