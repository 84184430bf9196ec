--------------------------- MODULE EnrichmentProofs ---------------------------
(***************************************************************************)
(* Proofs about Enrichment, for any addresses, workers and interval, and   *)
(* about Placement, for any answers of any providers.                      *)
(***************************************************************************)
EXTENDS Enrichment, Placement, FiniteSetTheorems, SequenceTheorems, TLAPS

-----------------------------------------------------------------------------
(* The table of what was looked up.                                         *)

TableIs ==
    /\ fetched \in Seq(Addr) /\ IsInjective(fetched)
    /\ stale \in 0 .. Len(fetched)

\* Of an address with a row, the place of the row.
LEMMA PlaceIs ==
    ASSUME NEW a, TableIs
    PROVE  \/ Place(a) = 0 /\ \A i \in DOMAIN fetched : fetched[i] # a
           \/ Place(a) \in 1 .. Len(fetched) /\ fetched[Place(a)] = a
  <1>1. DOMAIN fetched = 1 .. Len(fetched)
    BY DEF TableIs
  <1> QED BY <1>1 DEF Place

\* Taking one row out of the table.
LEMMA RowIsOut ==
    ASSUME NEW s \in Seq(Addr), IsInjective(s), NEW i \in 1 .. Len(s)
    PROVE  /\ RemoveAt(s, i) \in Seq(Addr) /\ Len(RemoveAt(s, i)) = Len(s) - 1
           /\ IsInjective(RemoveAt(s, i))
           /\ \A j \in 1 .. Len(s) - 1 : RemoveAt(s, i)[j] # s[i]
  <1> DEFINE r == RemoveAt(s, i)
             x == SubSeq(s, 1, i - 1)
             y == SubSeq(s, i + 1, Len(s))
             from(j) == IF j < i THEN j ELSE j + 1
  <1>1. /\ x \in Seq(Addr) /\ Len(x) = i - 1
        /\ \A j \in 1 .. i - 1 : x[j] = s[j]
    BY SubSeqProperties
  <1>2. /\ y \in Seq(Addr) /\ Len(y) = Len(s) - i
        /\ \A j \in 1 .. Len(s) - i : y[j] = s[i + j]
    BY SubSeqProperties
  <1>3. r = x \o y
    BY DEF RemoveAt
  <1> HIDE DEF x, y, r
  <1>4. r \in Seq(Addr) /\ Len(r) = Len(s) - 1
    BY <1>1, <1>2, <1>3
  <1>5. ASSUME NEW j \in 1 .. Len(s) - 1
        PROVE  r[j] = s[from(j)] /\ from(j) \in 1 .. Len(s) /\ from(j) # i
    <2>1. r[j] = IF j <= i - 1 THEN x[j] ELSE y[j - (i - 1)]
      BY <1>1, <1>2, <1>3, ConcatProperties
    <2>2. CASE j < i
      BY <1>1, <2>1, <2>2
    <2>3. CASE ~(j < i)
      <3>1. j - (i - 1) \in 1 .. Len(s) - i /\ i + (j - (i - 1)) = j + 1
        BY <2>3
      <3>2. y[j - (i - 1)] = s[i + (j - (i - 1))]
        BY <1>2, <3>1
      <3> QED BY <2>1, <2>3, <3>1, <3>2
    <2> QED BY <2>2, <2>3
  <1>6. \A j, k \in 1 .. Len(s) - 1 : from(j) = from(k) => j = k
    OBVIOUS
  <1> HIDE DEF from
  <1>7. DOMAIN s = 1 .. Len(s) /\ DOMAIN r = 1 .. Len(s) - 1
    BY <1>4
  <1>8. IsInjective(r)
    <2> SUFFICES ASSUME NEW j \in 1 .. Len(s) - 1, NEW k \in 1 .. Len(s) - 1, r[j] = r[k]
                 PROVE  j = k
      BY <1>7 DEF IsInjective
    <2>1. from(j) = from(k)
      BY <1>5, <1>7 DEF IsInjective
    <2> QED BY <1>6, <2>1
  <1>9. \A j \in 1 .. Len(s) - 1 : r[j] # s[i]
    BY <1>5, <1>7 DEF IsInjective
  <1> QED BY <1>4, <1>8, <1>9 DEF r

\* The row of an address is written: each address has one row, and of those
\* that have aged none is forgotten.
LEMMA RowIsWritten ==
    ASSUME TableIs, NEW a \in Addr, Fetched(a)
    PROVE  TableIs'
  <1> DEFINE s == IF Place(a) = 0 THEN fetched ELSE RemoveAt(fetched, Place(a))
  <1>1. /\ fetched' = Append(s, a)
        /\ stale' = IF Place(a) \in 1 .. stale THEN stale - 1 ELSE stale
    BY DEF Fetched
  <1>2. /\ s \in Seq(Addr) /\ IsInjective(s) /\ \A j \in 1 .. Len(s) : s[j] # a
        /\ Len(s) = IF Place(a) = 0 THEN Len(fetched) ELSE Len(fetched) - 1
    <2>1. CASE Place(a) = 0
      BY <2>1, PlaceIs DEF TableIs
    <2>2. CASE Place(a) # 0
      <3>1. Place(a) \in 1 .. Len(fetched) /\ fetched[Place(a)] = a
        BY <2>2, PlaceIs
      <3> QED BY <2>2, <3>1, RowIsOut DEF TableIs
    <2> QED BY <2>1, <2>2
  <1>3. Place(a) \in Nat /\ Place(a) <= Len(fetched) /\ stale \in Nat /\ stale <= Len(fetched)
    BY PlaceIs DEF TableIs
  <1> HIDE DEF s
  <1>4. fetched' \in Seq(Addr) /\ Len(fetched') = Len(s) + 1
    BY <1>1, <1>2
  <1>5. stale' \in 0 .. Len(fetched')
    BY <1>1, <1>2, <1>3, <1>4
  <1>6. IsInjective(fetched')
    <2>1. \A j \in 1 .. Len(s) + 1 : fetched'[j] = IF j = Len(s) + 1 THEN a ELSE s[j]
      BY <1>1, <1>2
    <2>2. DOMAIN fetched' = 1 .. Len(s) + 1 /\ DOMAIN s = 1 .. Len(s) /\ Len(s) \in Nat
      BY <1>2, <1>4
    <2> QED BY <1>2, <2>1, <2>2 DEF IsInjective
  <1> QED BY <1>4, <1>5, <1>6 DEF TableIs

-----------------------------------------------------------------------------
(* The workers and the throttle.                                            *)

Waiting == {w \in Worker : worker[w].at = "waiting"}

WorkerIs(here) ==
    \/ here = Idle
    \/ /\ here = [at |-> "waiting", ip |-> here.ip, asn |-> here.asn,
                  wait |-> here.wait, asks |-> here.asks]
       /\ here.ip \in Addr /\ here.asn \in ASN \cup {0} /\ here.wait \in Nat
    \/ /\ here = [at |-> "known", ip |-> here.ip, asn |-> here.asn]
       /\ here.ip \in Addr /\ here.asn \in ASN \cup {0}

\* Every turn that is taken is Interval before the next free one and Interval
\* from any other, and no turn comes before the last request is Interval ago.
TurnsAreApart ==
    /\ slot + quiet >= Interval
    /\ \A w \in Waiting :
         /\ slot >= worker[w].wait + Interval
         /\ quiet + worker[w].wait >= Interval
         /\ \A v \in Waiting \ {w} : \/ worker[v].wait >= worker[w].wait + Interval
                                     \/ worker[w].wait >= worker[v].wait + Interval

\* No more turns are taken than there are workers that wait for one, and what
\* is left of the last.
TurnsAreFew == slot <= (Interval - quiet) + Interval * Cardinality(Waiting)

ThrottleIs ==
    /\ DOMAIN worker = Worker /\ \A w \in Worker : WorkerIs(worker[w])
    /\ slot \in Nat /\ quiet \in 0 .. Interval
    /\ TurnsAreApart /\ TurnsAreFew

ReaderIs ==
    /\ recorded \subseteq Kept /\ gap \subseteq recorded
    /\ asn \in [Addr -> ASN \cup {0}]
    /\ believed \in [Tracker \X Addr -> ASN \cup {0}]
    /\ \A p \in recorded \ gap : believed[p] = asn[p[2]]

Strengthening ==
    /\ probed \subseteq Pool /\ pending \subseteq Addr
    /\ TableIs /\ ThrottleIs /\ ReaderIs

-----------------------------------------------------------------------------

LEMMA WaitingIsFinite == IsFiniteSet(Waiting) /\ Cardinality(Waiting) \in Nat
                         /\ Cardinality(Waiting) <= Cardinality(Worker)
                         /\ Cardinality(Worker) \in Nat
  BY EnrichmentAssumption, FS_Subset, FS_CardinalityType DEF Waiting

LEMMA Starts == Init => Strengthening
  <1> SUFFICES ASSUME Init PROVE Strengthening
    OBVIOUS
  <1>1. TableIs
    BY DEF Init, TableIs, IsInjective
  <1>2. Waiting = {} /\ Interval \in Nat
    BY EnrichmentAssumption DEF Init, Waiting, Idle
  <1>3. ThrottleIs
    <2>1. Interval * 0 = 0
      BY <1>2
    <2> QED BY <1>2, <2>1, FS_EmptySet DEF Init, ThrottleIs, WorkerIs, TurnsAreApart, TurnsAreFew
  <1>4. ReaderIs
    BY DEF Init, ReaderIs
  <1> QED BY <1>1, <1>3, <1>4 DEF Init, Strengthening

-----------------------------------------------------------------------------
(* Steps.                                                                   *)

\* What the workers and the throttle are is left as it is.
LEMMA ThrottleStands ==
    ASSUME ThrottleIs, UNCHANGED <<worker, slot, quiet>>
    PROVE  ThrottleIs'
  BY DEF ThrottleIs, WorkerIs, TurnsAreApart, TurnsAreFew, Waiting

LEMMA PassStep ==
    ASSUME Strengthening, Observe \/ Expire \/ RunOnce \/ Finish
    PROVE  Strengthening'
  <1>1. UNCHANGED <<worker, slot, quiet, recorded, asn, believed, gap>>
    BY DEF Observe, Expire, RunOnce, Finish, seen, store, reader
  <1>2. ThrottleIs' /\ ReaderIs'
    BY <1>1, ThrottleStands DEF Strengthening, ReaderIs
  <1>3. TableIs'
    BY DEF Strengthening, TableIs, Observe, Expire, RunOnce, Finish, store
  <1>4. Batch \subseteq Addr
    <2>1. observed \subseteq Addr
      <3>1. \A p \in recorded : p \in Tracker \X Addr
        BY EnrichmentAssumption DEF Strengthening, ReaderIs
      <3>2. \A p \in recorded : p[2] \in Addr
        BY <3>1
      <3> QED BY <3>2, EnrichmentAssumption DEF Strengthening, observed
    <2> QED BY <2>1 DEF Batch, Due
  <1>5. probed' \subseteq Pool /\ pending' \subseteq Addr
    BY <1>4 DEF Strengthening, Observe, Expire, RunOnce, Finish, seen
  <1> QED BY <1>2, <1>3, <1>5 DEF Strengthening

\* A record that opens starts with the AS on the page.
LEMMA RecordStep == ASSUME Strengthening, Record PROVE Strengthening'
  <1>1. UNCHANGED <<probed, fetched, stale, asn, pending, worker, slot, quiet>>
    BY DEF Record, store
  <1>2. ThrottleIs' /\ TableIs' /\ probed' \subseteq Pool /\ pending' \subseteq Addr
    BY <1>1, ThrottleStands DEF Strengthening, TableIs
  <1>3. /\ recorded \subseteq Kept /\ gap \subseteq recorded
        /\ asn \in [Addr -> ASN \cup {0}]
        /\ believed \in [Tracker \X Addr -> ASN \cup {0}]
        /\ \A p \in recorded \ gap : believed[p] = asn[p[2]]
    BY DEF Strengthening, ReaderIs
  <1>4. \A p \in Kept : p \in Tracker \X Addr /\ p[2] \in Addr
    BY EnrichmentAssumption
  <1>5. CASE \E p \in Kept \ recorded :
               /\ recorded' = recorded \cup {p}
               /\ believed' = [believed EXCEPT ![p] = asn[p[2]]]
               /\ UNCHANGED gap
    <2>1. PICK p \in Kept \ recorded :
               /\ recorded' = recorded \cup {p}
               /\ believed' = [believed EXCEPT ![p] = asn[p[2]]]
               /\ gap' = gap
      BY <1>5
    <2>2. asn[p[2]] \in ASN \cup {0} /\ p \in Tracker \X Addr
      BY <1>3, <1>4, <2>1
    <2>3. /\ believed' \in [Tracker \X Addr -> ASN \cup {0}]
          /\ believed'[p] = asn[p[2]]
          /\ \A q \in Tracker \X Addr : q # p => believed'[q] = believed[q]
      BY <1>3, <2>1, <2>2
    <2>4. \A q \in recorded' \ gap' : believed'[q] = asn'[q[2]]
      BY <1>1, <1>3, <1>4, <2>1, <2>3
    <2> QED BY <1>1, <1>2, <1>3, <2>1, <2>3, <2>4 DEF Strengthening, ReaderIs
  <1>6. CASE \E p \in recorded :
               /\ recorded' = recorded \ {p}
               /\ believed' = [believed EXCEPT ![p] = 0]
               /\ gap' = gap \ {p}
    <2>1. PICK p \in recorded :
               /\ recorded' = recorded \ {p}
               /\ believed' = [believed EXCEPT ![p] = 0]
               /\ gap' = gap \ {p}
      BY <1>6
    <2>2. /\ believed' \in [Tracker \X Addr -> ASN \cup {0}]
          /\ \A q \in Tracker \X Addr : q # p => believed'[q] = believed[q]
      BY <1>3, <2>1
    <2>3. \A q \in recorded' \ gap' : believed'[q] = asn'[q[2]]
      BY <1>1, <1>3, <1>4, <2>1, <2>2
    <2> QED BY <1>1, <1>2, <1>3, <2>1, <2>2, <2>3 DEF Strengthening, ReaderIs
  <1> QED BY <1>5, <1>6 DEF Record

\* The rest of the state when only the workers and the throttle move.
LEMMA OnlyThrottle ==
    ASSUME Strengthening, Unchanged, pending' \subseteq pending, ThrottleIs'
    PROVE  Strengthening'
  BY DEF Strengthening, Unchanged, seen, store, reader, TableIs, ReaderIs

LEMMA TickStep == ASSUME Strengthening, Tick PROVE Strengthening'
  <1>1. /\ worker' = [w \in Worker |-> IF worker[w].at = "waiting"
                            THEN [worker[w] EXCEPT !.wait = @ - 1] ELSE worker[w]]
        /\ slot' = IF slot = 0 THEN 0 ELSE slot - 1
        /\ quiet' = IF quiet = Interval THEN Interval ELSE quiet + 1
    BY DEF Tick
  <1>2. Interval \in Nat \ {0} /\ slot \in Nat /\ quiet \in 0 .. Interval
    BY EnrichmentAssumption DEF Strengthening, ThrottleIs
  <1>3. ASSUME NEW w \in Waiting
        PROVE  /\ worker'[w].at = "waiting" /\ WorkerIs(worker'[w])
               /\ worker'[w].wait = worker[w].wait - 1
               /\ worker[w].wait \in Nat \ {0}
    <2>1. /\ worker[w].at = "waiting" /\ WorkerIs(worker[w]) /\ ~Ready(w) /\ w \in Worker
      BY DEF Waiting, Strengthening, ThrottleIs, Tick
    <2>2. PICK here : here = worker[w]
      OBVIOUS
    <2>3. /\ here = [at |-> "waiting", ip |-> here.ip, asn |-> here.asn,
                     wait |-> here.wait, asks |-> here.asks]
          /\ here.ip \in Addr /\ here.asn \in ASN \cup {0} /\ here.wait \in Nat \ {0}
      BY <2>1, <2>2 DEF WorkerIs, Idle, Ready
    <2>4. worker'[w] = [here EXCEPT !.wait = here.wait - 1]
      BY <1>1, <2>1, <2>2
    <2>5. worker'[w] = [at |-> "waiting", ip |-> here.ip, asn |-> here.asn,
                        wait |-> here.wait - 1, asks |-> here.asks]
      BY <2>3, <2>4
    <2> QED BY <2>2, <2>3, <2>5 DEF WorkerIs
  <1>4. ASSUME NEW w \in Worker, w \notin Waiting PROVE worker'[w] = worker[w]
    BY <1>1, <1>4 DEF Waiting
  <1>5. Waiting' = Waiting
    BY <1>3, <1>4 DEF Waiting
  <1>6. DOMAIN worker' = Worker /\ \A w \in Worker : WorkerIs(worker'[w])
    BY <1>1, <1>3, <1>4 DEF Strengthening, ThrottleIs
  <1>7. TurnsAreApart'
    <2>1. TurnsAreApart
      BY DEF Strengthening, ThrottleIs
    <2>2. slot' + quiet' >= Interval
      BY <1>1, <1>2, <2>1 DEF TurnsAreApart
    <2>3. ASSUME NEW w \in Waiting
          PROVE  slot' >= worker'[w].wait + Interval /\ quiet' + worker'[w].wait >= Interval
      <3>1. worker'[w].wait = worker[w].wait - 1 /\ worker[w].wait \in Nat \ {0}
        BY <1>3
      <3>2. slot >= worker[w].wait + Interval /\ quiet + worker[w].wait >= Interval
        BY <2>1 DEF TurnsAreApart
      <3>3. slot' = slot - 1
        BY <1>1, <1>2, <3>1, <3>2
      <3> QED BY <1>1, <1>2, <3>1, <3>2, <3>3
    <2>4. ASSUME NEW w \in Waiting, NEW v \in Waiting \ {w}
          PROVE  \/ worker'[v].wait >= worker'[w].wait + Interval
                 \/ worker'[w].wait >= worker'[v].wait + Interval
      <3>1. /\ worker'[v].wait = worker[v].wait - 1 /\ worker[v].wait \in Nat
            /\ worker'[w].wait = worker[w].wait - 1 /\ worker[w].wait \in Nat
        BY <1>3
      <3>2. \/ worker[v].wait >= worker[w].wait + Interval
            \/ worker[w].wait >= worker[v].wait + Interval
        BY <2>1 DEF TurnsAreApart
      <3> QED BY <1>2, <3>1, <3>2
    <2> QED BY <1>5, <2>2, <2>3, <2>4 DEF TurnsAreApart
  <1>8. TurnsAreFew'
    <2>1. Interval * Cardinality(Waiting) \in Nat
      BY <1>2, WaitingIsFinite
    <2>2. PICK turns \in Nat : turns = Interval * Cardinality(Waiting)
      BY <2>1
    <2>3. slot <= (Interval - quiet) + turns
      BY <2>2 DEF Strengthening, ThrottleIs, TurnsAreFew
    <2>4. slot' <= (Interval - quiet') + turns
      BY <1>1, <1>2, <2>3
    <2> QED BY <1>5, <2>2, <2>4 DEF TurnsAreFew
  <1>9. slot' \in Nat /\ quiet' \in 0 .. Interval
    BY <1>1, <1>2
  <1>10. ThrottleIs'
    BY <1>6, <1>7, <1>8, <1>9 DEF ThrottleIs, WorkerIs
  <1> QED BY <1>10, OnlyThrottle DEF Tick, Unchanged

\* A turn is taken, by a worker that had none or whose turn it was.
LEMMA Reserved ==
    ASSUME ThrottleIs, NEW w \in Worker, NEW a \in Addr, NEW n \in ASN \cup {0},
           AskRegistry(w, a, n),
           \/ w \notin Waiting /\ quiet' = quiet
           \/ Ready(w) /\ quiet' = 0
    PROVE  ThrottleIs'
  <1>1. Interval \in Nat \ {0} /\ slot \in Nat /\ quiet \in 0 .. Interval
    BY EnrichmentAssumption DEF ThrottleIs
  <1>2. slot' = slot + Interval
    BY DEF AskRegistry, Reserve
  <1>3. PICK asks : worker' = [worker EXCEPT ![w] =
                [at |-> "waiting", ip |-> a, asn |-> n, wait |-> slot, asks |-> asks]]
    BY DEF AskRegistry
  <1>4. DOMAIN worker' = Worker
        /\ worker'[w] = [at |-> "waiting", ip |-> a, asn |-> n, wait |-> slot, asks |-> asks]
        /\ \A v \in Worker \ {w} : worker'[v] = worker[v]
    BY <1>3 DEF ThrottleIs
  <1>5. Waiting' = Waiting \cup {w} /\ WorkerIs(worker'[w])
    BY <1>1, <1>4 DEF Waiting, WorkerIs
  <1>6. ASSUME NEW v \in Waiting PROVE worker[v].wait \in Nat
    BY DEF ThrottleIs, WorkerIs, Waiting, Idle
  <1>7. Ready(w) => \A v \in Waiting \ {w} : worker[v].wait >= Interval
    BY <1>1, <1>6 DEF ThrottleIs, TurnsAreApart, Ready, Waiting
  <1>8. \/ w \notin Waiting /\ quiet' = quiet
        \/ /\ w \in Waiting /\ worker[w].wait = 0 /\ quiet' = 0
           /\ quiet >= Interval /\ slot >= Interval
    BY <1>1 DEF Ready, Waiting, ThrottleIs, TurnsAreApart
  <1>9. TurnsAreApart'
    <2>1. slot' + quiet' >= Interval
      BY <1>1, <1>2, <1>8
    <2>2. ASSUME NEW v \in Waiting, v # w
          PROVE  /\ worker'[v] = worker[v]
                 /\ slot' >= worker'[v].wait + Interval
                 /\ quiet' + worker'[v].wait >= Interval
                 /\ slot >= worker'[v].wait + Interval
      BY <1>1, <1>2, <1>4, <1>6, <1>7, <1>8, <2>2 DEF ThrottleIs, TurnsAreApart, Waiting, Ready
    <2>3. quiet' + slot >= Interval
      BY <1>1, <1>8 DEF ThrottleIs, TurnsAreApart
    <2> QED BY <1>1, <1>2, <1>4, <1>5, <1>6, <2>1, <2>2, <2>3 DEF ThrottleIs, TurnsAreApart
  <1>10. TurnsAreFew'
    <2>1. PICK n1 \in Nat : n1 = Cardinality(Waiting)
      BY WaitingIsFinite
    <2>2. Cardinality(Waiting') = IF w \in Waiting THEN n1 ELSE n1 + 1
      BY <1>5, <2>1, WaitingIsFinite, FS_AddElement
    <2>3. slot <= (Interval - quiet) + Interval * n1
      BY <2>1 DEF ThrottleIs, TurnsAreFew
    <2>4. Interval * (n1 + 1) = Interval * n1 + Interval /\ Interval * n1 \in Nat
      BY <1>1
    <2> QED BY <1>1, <1>2, <1>8, <2>2, <2>3, <2>4 DEF TurnsAreFew
  <1>11. slot' \in Nat /\ quiet' \in 0 .. Interval
    BY <1>1, <1>2, <1>8
  <1> QED BY <1>4, <1>5, <1>9, <1>10, <1>11 DEF ThrottleIs, WorkerIs

\* A worker no longer waits, after its request or because it never did.
LEMMA Leaves ==
    ASSUME ThrottleIs, NEW w \in Worker, NEW here, WorkerIs(here), here.at # "waiting",
           worker' = [worker EXCEPT ![w] = here], slot' = slot,
           \/ w \notin Waiting /\ quiet' = quiet
           \/ Ready(w) /\ quiet' = 0
    PROVE  ThrottleIs'
  <1>1. Interval \in Nat \ {0} /\ slot \in Nat /\ quiet \in 0 .. Interval
    BY EnrichmentAssumption DEF ThrottleIs
  <1>2. /\ DOMAIN worker' = Worker /\ worker'[w] = here
        /\ \A v \in Worker \ {w} : worker'[v] = worker[v]
    BY DEF ThrottleIs
  <1>3. Waiting' = Waiting \ {w}
    BY <1>2 DEF Waiting
  <1>4. ASSUME NEW v \in Waiting PROVE worker[v].wait \in Nat
    BY DEF ThrottleIs, WorkerIs, Waiting, Idle
  <1>5. \/ w \notin Waiting /\ quiet' = quiet
        \/ /\ w \in Waiting /\ worker[w].wait = 0 /\ quiet' = 0
           /\ quiet >= Interval /\ slot >= Interval
           /\ \A v \in Waiting \ {w} : worker[v].wait >= Interval
    BY <1>1, <1>4 DEF Ready, Waiting, ThrottleIs, TurnsAreApart
  <1>6. TurnsAreApart'
    BY <1>1, <1>2, <1>3, <1>4, <1>5 DEF ThrottleIs, TurnsAreApart, Waiting
  <1>7. TurnsAreFew'
    <2>1. PICK n1 \in Nat : n1 = Cardinality(Waiting)
      BY WaitingIsFinite
    <2>2. /\ Cardinality(Waiting') = IF w \in Waiting THEN n1 - 1 ELSE n1
          /\ Cardinality(Waiting') \in Nat
      BY <1>3, <2>1, WaitingIsFinite, FS_RemoveElement, FS_CardinalityType
    <2>3. slot <= (Interval - quiet) + Interval * n1
      BY <2>1 DEF ThrottleIs, TurnsAreFew
    <2>4. Interval * (n1 - 1) = Interval * n1 - Interval /\ Interval * n1 \in Nat
      BY <1>1
    <2> QED BY <1>1, <1>5, <2>2, <2>3, <2>4 DEF TurnsAreFew
  <1>8. \A v \in Worker : WorkerIs(worker'[v])
    BY <1>2 DEF ThrottleIs
  <1> QED BY <1>1, <1>2, <1>5, <1>6, <1>7, <1>8 DEF ThrottleIs, WorkerIs

LEMMA TakeStep == ASSUME Strengthening, NEW w \in Worker, Take(w) PROVE Strengthening'
  <1>1. PICK a \in pending : \E n \in {0} \cup {i \in ASN : a \in Announced} :
            pending' = pending \ {a} /\ AskRegistry(w, a, n)
    BY DEF Take
  <1>2. PICK n \in ASN \cup {0} : pending' = pending \ {a} /\ AskRegistry(w, a, n)
    BY <1>1
  <1>3. w \notin Waiting /\ quiet' = quiet /\ a \in Addr
    BY DEF Take, Waiting, Idle, Strengthening
  <1>4. ThrottleIs'
    BY <1>2, <1>3, Reserved DEF Strengthening
  <1> QED BY <1>2, <1>4, OnlyThrottle DEF Take

LEMMA RequestStep == ASSUME Strengthening, NEW w \in Worker, Request(w) PROVE Strengthening'
  <1>1. Ready(w) /\ quiet' = 0 /\ UNCHANGED pending /\ Unchanged
    BY DEF Request
  <1>2. worker[w].ip \in Addr /\ worker[w].asn \in ASN \cup {0}
    BY <1>1 DEF Ready, Strengthening, ThrottleIs, WorkerIs, Idle
  <1>3. CASE AskRegistry(w, worker[w].ip, worker[w].asn)
    BY <1>1, <1>2, <1>3, Reserved, OnlyThrottle DEF Strengthening
  <1>4. CASE /\ worker' = [worker EXCEPT ![w] =
                    [at |-> "known", ip |-> worker[w].ip, asn |-> worker[w].asn]]
             /\ slot' = slot
    <2>1. PICK here : here = [at |-> "known", ip |-> worker[w].ip, asn |-> worker[w].asn]
      OBVIOUS
    <2>2. WorkerIs(here) /\ here.at # "waiting"
      BY <1>2, <2>1 DEF WorkerIs
    <2> QED BY <1>1, <1>4, <2>1, <2>2, Leaves, OnlyThrottle DEF Strengthening
  <1> QED BY <1>3, <1>4 DEF Request

\* A worker that is done turns to the next address.
LEMMA Freed ==
    ASSUME ThrottleIs, NEW w \in Worker, worker[w].at = "known",
           worker' = [worker EXCEPT ![w] = Idle], UNCHANGED <<slot, quiet>>
    PROVE  ThrottleIs'
  <1>1. WorkerIs(Idle) /\ Idle.at # "waiting" /\ w \notin Waiting
    BY DEF WorkerIs, Idle, Waiting
  <1> QED BY <1>1, Leaves

LEMMA PutStep == ASSUME Strengthening, NEW w \in Worker, Put(w) PROVE Strengthening'
  <1> DEFINE a == worker[w].ip
             n == worker[w].asn
  <1>1. a \in Addr /\ n \in ASN \cup {0}
    BY DEF Put, Strengthening, ThrottleIs, WorkerIs, Idle
  <1>2. /\ Fetched(a) /\ asn' = [asn EXCEPT ![a] = n] /\ Read(a, n, Moved(asn[a], n))
        /\ UNCHANGED <<recorded, probed, pending>>
    BY DEF Put, seen
  <1>3. ThrottleIs'
    BY Freed DEF Put, Strengthening
  <1> HIDE DEF a, n
  <1>4. TableIs'
    BY <1>1, <1>2, RowIsWritten DEF Strengthening
  <1>5. ReaderIs'
    <2> DEFINE on == {<<t, a>> : t \in trackersOn(a)}
    <2>1. /\ recorded \subseteq Kept /\ gap \subseteq recorded
          /\ asn \in [Addr -> ASN \cup {0}]
          /\ believed \in [Tracker \X Addr -> ASN \cup {0}]
          /\ \A p \in recorded \ gap : believed[p] = asn[p[2]]
      BY DEF Strengthening, ReaderIs
    <2>2. \A p \in recorded : p \in Tracker \X Addr /\ p[2] \in Addr
      BY <2>1, EnrichmentAssumption
    <2>3. \A p : p \in on <=> p \in recorded /\ p[2] = a
      <3>1. ASSUME NEW p \in on PROVE p \in recorded /\ p[2] = a
        <4>1. PICK t \in trackersOn(a) : p = <<t, a>>
          OBVIOUS
        <4> QED BY <4>1 DEF trackersOn
      <3>2. ASSUME NEW p \in recorded, p[2] = a PROVE p \in on
        <4>1. PICK t \in Tracker, b \in Addr : p = <<t, b>>
          BY <2>2
        <4>2. b = a /\ t \in trackersOn(a)
          BY <3>2, <4>1 DEF trackersOn
        <4> QED BY <4>1, <4>2
      <3> QED BY <3>1, <3>2
    <2>4. \A p \in on : p[1] \in trackersOn(a)
      OBVIOUS
    <2>5. /\ believed' = [p \in Tracker \X Addr |->
                 IF p \in on /\ (p[1] \in (IF Moved(asn[a], n) THEN trackersOn(a) ELSE {})
                                 \/ believed[p] = 0)
                 THEN n ELSE believed[p]]
          /\ gap' = (gap \ {p \in on : believed'[p] = n})
                       \cup {p \in on : n = 0 /\ believed'[p] # 0}
      BY <1>2, <2>1 DEF Read
    <2> HIDE DEF on
    <2>6. asn' \in [Addr -> ASN \cup {0}] /\ asn'[a] = n
          /\ \A b \in Addr \ {a} : asn'[b] = asn[b]
      BY <1>1, <1>2, <2>1
    <2>7. believed' \in [Tracker \X Addr -> ASN \cup {0}]
      BY <1>1, <2>1, <2>5
    <2>8. gap' \subseteq recorded' /\ recorded' = recorded
      BY <1>2, <2>1, <2>3, <2>5
    <2>9. ASSUME NEW p \in recorded' \ gap' PROVE believed'[p] = asn'[p[2]]
      <3>1. p \in recorded /\ p \in Tracker \X Addr /\ p[2] \in Addr
        BY <2>2, <2>8
      <3>2. CASE p \notin on
        <4>1. p[2] # a /\ believed'[p] = believed[p] /\ p \notin gap
          BY <2>3, <2>5, <2>9, <3>1, <3>2
        <4> QED BY <2>1, <2>6, <3>1, <4>1
      <3>3. CASE p \in on
        <4>1. SUFFICES ASSUME believed'[p] # n PROVE FALSE
          BY <2>3, <2>6, <3>3
        <4>2. p \notin gap /\ believed'[p] = believed[p] /\ believed[p] # 0 /\ ~Moved(asn[a], n)
          BY <2>4, <2>5, <2>9, <3>1, <3>3, <4>1
        <4>3. believed[p] = asn[a]
          BY <2>1, <2>3, <3>3, <3>1, <4>2
        <4>4. n # 0
          BY <2>5, <2>9, <3>3, <4>2
        <4> QED BY <4>1, <4>2, <4>3, <4>4 DEF Moved
      <3> QED BY <3>2, <3>3
    <2> QED BY <2>1, <2>6, <2>7, <2>8, <2>9 DEF ReaderIs
  <1>6. probed' \subseteq Pool /\ pending' \subseteq Addr
    BY <1>2 DEF Strengthening
  <1> QED BY <1>3, <1>4, <1>5, <1>6 DEF Strengthening

LEMMA PutFailsStep == ASSUME Strengthening, NEW w \in Worker, PutFails(w) PROVE Strengthening'
  <1>1. ThrottleIs'
    BY Freed DEF PutFails, Strengthening
  <1> QED BY <1>1, OnlyThrottle DEF PutFails

LEMMA StopStep == ASSUME Strengthening, Stop PROVE Strengthening'
  <1>1. Waiting' = {} /\ Interval \in Nat
    BY EnrichmentAssumption DEF Stop, Waiting, Idle
  <1>2. ThrottleIs'
    <2>1. Interval * 0 = 0
      BY <1>1
    <2> QED BY <1>1, <2>1, FS_EmptySet DEF Stop, ThrottleIs, WorkerIs, TurnsAreApart, TurnsAreFew
  <1>3. TableIs' /\ ReaderIs'
    BY DEF Stop, seen, store, reader, Strengthening, TableIs, ReaderIs
  <1> QED BY <1>2, <1>3 DEF Strengthening, Stop, seen

LEMMA StrengtheningHolds == Spec => []Strengthening
  <1>1. ASSUME Strengthening, [Next]_vars PROVE Strengthening'
    <2>1. CASE UNCHANGED vars
      <3>1. ThrottleIs'
        BY <1>1, <2>1, ThrottleStands DEF vars, Strengthening
      <3> QED BY <1>1, <2>1, <3>1, OnlyThrottle DEF vars, Unchanged, seen, store, reader
    <2>2. CASE Next
      BY <1>1, <2>2, PassStep, RecordStep, TickStep, TakeStep, RequestStep, PutStep, PutFailsStep, StopStep
         DEF Next, Work, Lookup
    <2> QED BY <1>1, <2>1, <2>2
  <1> QED BY Starts, <1>1, PTL DEF Spec

\* Whatever the workers do at once, however many they are and however long
\* the interval, two requests to the registries are Interval apart: throttle
\* hands out turns under a lock and sleeps outside it.  No more turns are taken
\* than there are workers, and each address has one row.
THEOREM RequestsStaySpaced == Spec => []EnrichmentInv
  <1>1. ASSUME Strengthening PROVE EnrichmentInv
    <2>1. /\ ToSet(fetched) \subseteq Addr /\ IsInjective(fetched)
          /\ stale \in 0 .. Len(fetched)
      BY <1>1 DEF Strengthening, TableIs, ToSet
    <2>2. slot \in 0 .. Interval * (Cardinality(Worker) + 1)
      <3>1. PICK n1 \in Nat : n1 = Cardinality(Waiting)
        BY WaitingIsFinite
      <3>2. PICK n2 \in Nat : n2 = Cardinality(Worker)
        BY WaitingIsFinite
      <3>3. n1 <= n2 /\ Interval \in Nat /\ quiet \in 0 .. Interval /\ slot \in Nat
        BY <1>1, <3>1, <3>2, WaitingIsFinite, EnrichmentAssumption DEF Strengthening, ThrottleIs
      <3>4. slot <= (Interval - quiet) + Interval * n1
        BY <1>1, <3>1 DEF Strengthening, ThrottleIs, TurnsAreFew
      <3>5. Interval * n1 <= Interval * n2 /\ Interval * (n2 + 1) = Interval * n2 + Interval
            /\ Interval * n1 \in Nat /\ Interval * n2 \in Nat
        BY <3>3
      <3> QED BY <3>2, <3>3, <3>4, <3>5
    <2>3. \A w \in Worker : worker[w].at \in {"idle", "waiting", "known"}
      BY <1>1 DEF Strengthening, ThrottleIs, WorkerIs, Idle
    <2>4. TypeOK
      BY <1>1, <2>1, <2>2, <2>3 DEF TypeOK, Strengthening, ReaderIs
    <2>5. RequestsAreSpaced
      <3>1. quiet \in Nat
        BY <1>1, EnrichmentAssumption DEF Strengthening, ThrottleIs
      <3> QED BY <1>1, <3>1 DEF Strengthening, ThrottleIs, TurnsAreApart, RequestsAreSpaced,
                                Ready, Waiting
    <2> QED BY <2>4, <2>5 DEF EnrichmentInv
  <1> QED BY <1>1, StrengtheningHolds, PTL

\* Who reads about a tracker has the AS of every address on record for it, for
\* any trackers and addresses and however records open and close, but for one
\* whose last lookup, or one since the AS known, learned none: PutIPInfo compares
\* with the row it replaces, and that row may hold no AS.
THEOREM FeedKeepsUpAlways == Spec => []FeedKeepsUp
  <1>1. Strengthening => FeedKeepsUp
    BY DEF Strengthening, ReaderIs, FeedKeepsUp
  <1> QED BY <1>1, StrengtheningHolds, PTL

-----------------------------------------------------------------------------
(* One lookup: the chain of providers.                                      *)

IsInfo(i) == i = [f \in Fields |-> i[f]]
IsAnswer(a) == a = [failed |-> a.failed, info |-> a.info] /\ a.failed \in BOOLEAN /\ IsInfo(a.info)

\* The fields of the origin are known to Team Cymru alone.
Origin == {"asn", "asName", "prefix", "rir", "allocated"}

\* Who has been asked by the time the chain is at a provider.
MayHaveAsked(where) ==
    CASE where = "cymru"   -> {}
      [] where = "rdap"    -> {"cymru"}
      [] where = "maxmind" -> {"cymru", "rdap"}
      [] OTHER             -> Provider

ChainTypeInv ==
    /\ at \in Provider \cup {"end", "ok", "error", "cancelled", "crashed"}
    /\ IsInfo(info) /\ errs \in BOOLEAN
    /\ DOMAIN answers \subseteq MayHaveAsked(at)
    /\ \A p \in DOMAIN answers : IsAnswer(answers[p])

\* What the other providers answer has none of the fields of the origin; what
\* is useful in the answers is useful in what is known, and nothing else is; and
\* a failure is remembered.
ChainToldInv ==
    /\ \A p \in DOMAIN answers \ {"cymru"} : \A f \in Origin : answers[p].info[f] = Unknown
    /\ Empty(info) <=> \A p \in DOMAIN answers : answers[p].failed \/ Empty(answers[p].info)
    /\ errs <=> \E p \in DOMAIN answers : answers[p].failed
    /\ at = "error" => Empty(info) /\ errs
    /\ at = "ok" => ~Empty(info) \/ ~errs

PlacementInv == ChainTypeInv /\ ChainToldInv /\ FirstAnswerWins

-----------------------------------------------------------------------------

\* The order the providers are asked in.
LEMMA OrderOfProviders ==
    /\ \A p, q : Before(p, q) <=> \/ p = "cymru" /\ q = "rdap"
                                  \/ p = "cymru" /\ q = "maxmind"
                                  \/ p = "rdap" /\ q = "maxmind"
  <1>1. Order[1] = "cymru" /\ Order[2] = "rdap" /\ Order[3] = "maxmind"
    BY DEF Order
  <1>2. 1 .. 3 = {1, 2, 3}
    OBVIOUS
  <1> QED
    BY <1>1, <1>2 DEF Before

\* merge knows what either knew.
LEMMA MergeKnows ==
    ASSUME NEW i, NEW j
    PROVE  /\ IsInfo(merge(i, j))
           /\ Empty(merge(i, j)) <=> Empty(i) /\ Empty(j)
           /\ \A f \in Fields : i[f] # Unknown => merge(i, j)[f] = i[f]
           /\ \A f \in Fields : i[f] = Unknown => merge(i, j)[f] = j[f]
  <1>1. \A f \in Fields : merge(i, j)[f] = IF i[f] = Unknown THEN j[f] ELSE i[f]
    BY DEF merge
  <1>2. Useful \subseteq Fields
    BY DEF Useful, Fields
  <1>3. Empty(merge(i, j)) <=> Empty(i) /\ Empty(j)
    BY <1>1, <1>2 DEF Empty
  <1>4. IsInfo(merge(i, j))
    BY DEF IsInfo, merge
  <1> QED
    BY <1>1, <1>3, <1>4

\* A failure and an answer are answers.
LEMMA AnswersAreAnswers ==
    /\ IsAnswer(Failed) /\ IsAnswer(Answer(Nothing))
    /\ \A r : IsAnswer(Answer(Info(r)))
    /\ \A f \in Origin : Failed.info[f] = Unknown /\ Answer(Nothing).info[f] = Unknown
  <1>1. IsInfo(Nothing)
    BY DEF IsInfo, Nothing
  <1>2. \A r : IsInfo(Info(r))
    BY DEF IsInfo, Info
  <1>3. \A f \in Origin : Nothing[f] = Unknown
    BY DEF Nothing, Origin, Fields
  <1> QED
    BY <1>1, <1>2, <1>3 DEF IsAnswer, Failed, Answer

\* What each provider may answer.
LEMMA CymruAnswers ==
    ASSUME NEW txt, NEW a \in Cymru(txt)
    PROVE  IsAnswer(a)
  <1>1. CASE a = Failed \/ a = Answer(Nothing)
    BY <1>1, AnswersAreAnswers
  <1>2. CASE ~(a = Failed \/ a = Answer(Nothing))
    <2>1. PICK i \in Best(txt), name \in Names \cup {Unknown} : a = Answer(OriginInfo(txt[i], name))
      BY <1>2 DEF Cymru
    <2> QED
      BY <2>1, AnswersAreAnswers DEF OriginInfo
  <1> QED
    BY <1>1, <1>2

\* None of them the fields of the origin.
LEMMA RDAPAnswers ==
    ASSUME NEW table, NEW object, NEW a \in RDAP(table, object)
    PROVE  IsAnswer(a) /\ \A f \in Origin : a.info[f] = Unknown
  <1>1. CASE a = Failed
    BY <1>1, AnswersAreAnswers
  <1>2. CASE a # Failed
    <2> DEFINE r == [networkName |-> object.name, country |-> object.country,
                     org |-> pickOrg(object.entities)]
    <2>1. a = Answer(Info(r))
      BY <1>2 DEF RDAP
    <2>2. \A f \in Origin : f \in Fields /\ f \notin DOMAIN r
      BY DEF Origin, Fields
    <2>3. \A f \in Origin : Info(r)[f] = Unknown
      BY <2>2 DEF Info
    <2>4. IsInfo(Info(r))
      BY DEF IsInfo, Info
    <2> QED
      BY <2>1, <2>3, <2>4 DEF IsAnswer, Answer
  <1> QED
    BY <1>1, <1>2

\* Nor does the database.
LEMMA MaxMindAnswers ==
    ASSUME NEW place, NEW a \in MaxMind(place)
    PROVE  IsAnswer(a) /\ \A f \in Origin : a.info[f] = Unknown
  <1>1. CASE a = Failed \/ a = Answer(Nothing)
    BY <1>1, AnswersAreAnswers
  <1>2. CASE ~(a = Failed \/ a = Answer(Nothing))
    <2> DEFINE r == [country |-> IF place.country # Unknown THEN place.country ELSE place.registered,
                     city |-> place.city, location |-> place.location]
    <2>1. a = Answer(Info(r))
      BY <1>2 DEF MaxMind
    <2>2. \A f \in Origin : f \in Fields /\ f \notin DOMAIN r
      BY DEF Origin, Fields
    <2>3. \A f \in Origin : Info(r)[f] = Unknown
      BY <2>2 DEF Info
    <2>4. IsInfo(Info(r))
      BY DEF IsInfo, Info
    <2> QED
      BY <2>1, <2>3, <2>4 DEF IsAnswer, Answer
  <1> QED
    BY <1>1, <1>2

-----------------------------------------------------------------------------

\* An answer of the next provider in the order keeps what the lookup owes to
\* the answers.
LEMMA HeardKeepsTold ==
    ASSUME ChainTypeInv, ChainToldInv, FirstAnswerWins,
           at \in Provider,
           NEW a, IsAnswer(a), at # "cymru" => \A f \in Origin : a.info[f] = Unknown,
           NEW next, next = IF at = "cymru" THEN "rdap" ELSE IF at = "rdap" THEN "maxmind" ELSE "end",
           Heard(at, a, next)
    PROVE  (ChainTypeInv /\ ChainToldInv /\ FirstAnswerWins)'
  <1>1. /\ at \notin DOMAIN answers
        /\ \A q \in DOMAIN answers : Before(q, at) /\ ~Before(at, q)
    BY OrderOfProviders DEF ChainTypeInv, MayHaveAsked, Provider
  <1>2. /\ DOMAIN answers' = DOMAIN answers \cup {at}
        /\ answers'[at] = a
        /\ \A q \in DOMAIN answers : answers'[q] = answers[q]
    BY <1>1 DEF Heard
  <1>3. /\ info' = IF a.failed \/ Empty(a.info) THEN info ELSE merge(info, a.info)
        /\ errs' = (errs \/ a.failed)
        /\ at' = next
    BY DEF Heard
  <1>4. at' \notin {"ok", "error", "cymru"}
    BY <1>3 DEF Provider
  <1>5. ChainTypeInv'
    <2>1. at' \in Provider \cup {"end", "ok", "error", "cancelled", "crashed"}
      BY <1>3 DEF Provider
    <2>2. IsInfo(info')
      BY <1>3, MergeKnows DEF ChainTypeInv
    <2>3. errs' \in BOOLEAN
      BY <1>3 DEF ChainTypeInv, IsAnswer
    <2>4. DOMAIN answers' \subseteq MayHaveAsked(at')
      BY <1>2, <1>3 DEF ChainTypeInv, MayHaveAsked, Provider
    <2>5. \A p \in DOMAIN answers' : IsAnswer(answers'[p])
      BY <1>2 DEF ChainTypeInv
    <2> QED
      BY <2>1, <2>2, <2>3, <2>4, <2>5 DEF ChainTypeInv
  <1>6. ChainToldInv'
    <2>1. \A p \in DOMAIN answers' \ {"cymru"} : \A f \in Origin : answers'[p].info[f] = Unknown
      BY <1>2 DEF ChainToldInv
    <2>2. Empty(info') <=> Empty(info) /\ (a.failed \/ Empty(a.info))
      BY <1>3, MergeKnows
    <2>3. Empty(info') <=> \A p \in DOMAIN answers' : answers'[p].failed \/ Empty(answers'[p].info)
      BY <1>2, <2>2 DEF ChainToldInv
    <2>4. errs' <=> \E p \in DOMAIN answers' : answers'[p].failed
      BY <1>2, <1>3 DEF ChainToldInv
    <2> QED
      BY <1>4, <2>1, <2>3, <2>4 DEF ChainToldInv, Empty
  <1>7. FirstAnswerWins'
    <2> SUFFICES ASSUME NEW f \in Fields
                 PROVE  /\ Tellers(f)' = {} => info'[f] = Unknown
                        /\ \A p \in Tellers(f)' :
                             (\A q \in Tellers(f)' : ~Before(q, p)) => info'[f] = answers'[p].info[f]
      BY DEF FirstAnswerWins
    <2>1. /\ Tellers(f) = {} => info[f] = Unknown
          /\ \A p \in Tellers(f) : (\A q \in Tellers(f) : ~Before(q, p)) => info[f] = answers[p].info[f]
      BY DEF FirstAnswerWins
    <2>2. Tellers(f) \subseteq DOMAIN answers
      BY DEF Tellers
    <2>3. CASE ~a.failed /\ ~Empty(a.info) /\ a.info[f] # Unknown
      <3>1. Tellers(f)' = Tellers(f) \cup {at}
        BY <1>1, <1>2, <2>3 DEF Tellers
      <3>2. info' = merge(info, a.info)
        BY <1>3, <2>3
      <3>3. CASE Tellers(f) = {}
        <4>1. info'[f] = a.info[f]
          BY <2>1, <3>2, <3>3, MergeKnows
        <4> QED
          BY <1>2, <3>1, <3>3, <4>1
      <3>4. CASE Tellers(f) # {}
        <4>1. \A p \in Tellers(f)' : (\A q \in Tellers(f)' : ~Before(q, p)) => p \in Tellers(f)
          BY <1>1, <2>2, <3>1, <3>4
        <4>2. \A p \in Tellers(f) : answers'[p] = answers[p] /\ answers[p].info[f] # Unknown
          BY <1>2, <2>2 DEF Tellers
        <4>3. ASSUME NEW p \in Tellers(f)', \A q \in Tellers(f)' : ~Before(q, p)
              PROVE  info'[f] = answers'[p].info[f]
          <5>1. p \in Tellers(f) /\ \A q \in Tellers(f) : ~Before(q, p)
            BY <3>1, <4>1, <4>3
          <5>2. info[f] = answers[p].info[f] /\ info[f] # Unknown
            BY <2>1, <4>2, <5>1
          <5>3. info'[f] = info[f]
            BY <3>2, <5>2, MergeKnows
          <5> QED
            BY <4>2, <5>1, <5>2, <5>3
        <4> QED
          BY <3>1, <4>3
      <3> QED
        BY <3>3, <3>4
    <2>4. CASE ~(~a.failed /\ ~Empty(a.info) /\ a.info[f] # Unknown)
      <3>1. Tellers(f)' = Tellers(f)
        BY <1>1, <1>2, <2>4 DEF Tellers
      <3>2. info'[f] = info[f]
        <4>1. CASE a.failed \/ Empty(a.info)
          BY <1>3, <4>1
        <4>2. CASE ~(a.failed \/ Empty(a.info))
          BY <1>3, <2>4, <4>2, MergeKnows
        <4> QED
          BY <4>1, <4>2
      <3>3. \A p \in Tellers(f) : answers'[p] = answers[p]
        BY <1>2, <2>2
      <3> QED
        BY <2>1, <3>1, <3>2, <3>3
    <2> QED
      BY <2>3, <2>4
  <1> QED
    BY <1>5, <1>6, <1>7

\* Whatever leaves the answers alone leaves what is owed to them alone.
LEMMA StayKeeps ==
    ASSUME PlacementInv, UNCHANGED <<info, errs, answers>>,
           DOMAIN answers \subseteq MayHaveAsked(at'),
           at' \in Provider \cup {"end", "ok", "error", "cancelled", "crashed"},
           at' = "error" => Empty(info) /\ errs,
           at' = "ok" => ~Empty(info) \/ ~errs
    PROVE  PlacementInv'
  <1>1. ChainTypeInv'
    BY DEF PlacementInv, ChainTypeInv
  <1>2. ChainToldInv'
    BY DEF PlacementInv, ChainToldInv, Empty
  <1>3. FirstAnswerWins'
    BY DEF PlacementInv, FirstAnswerWins, Tellers, Empty
  <1> QED
    BY <1>1, <1>2, <1>3 DEF PlacementInv

\* The invariant holds at first, and every step keeps it.
LEMMA InitPlacement == ChainInit => PlacementInv
  <1> SUFFICES ASSUME ChainInit PROVE PlacementInv
    OBVIOUS
  <1>1. DOMAIN answers = {} /\ at = "cymru" /\ info = Nothing /\ errs = FALSE
    BY DEF ChainInit
  <1>2. ChainTypeInv
    BY <1>1 DEF ChainTypeInv, Provider, IsInfo, Nothing
  <1>3. ChainToldInv
    BY <1>1 DEF ChainToldInv, Empty, Nothing, Useful, Fields
  <1>4. FirstAnswerWins
    BY <1>1 DEF FirstAnswerWins, Tellers, Nothing
  <1> QED
    BY <1>2, <1>3, <1>4 DEF PlacementInv

\* One step for every action of ChainNext.
LEMMA StepPlacement == PlacementInv /\ [ChainNext]_chainVars => PlacementInv'
  <1> SUFFICES ASSUME PlacementInv, [ChainNext]_chainVars PROVE PlacementInv'
    OBVIOUS
  <1> USE DEF PlacementInv
  <1>1. ASSUME AskCymru PROVE PlacementInv'
    <2>1. PICK txt \in Origins :
            IF Panics(txt) THEN at' = "crashed" /\ UNCHANGED <<info, errs, answers>>
            ELSE \E a \in Cymru(txt) : Heard("cymru", a, "rdap")
      BY <1>1 DEF AskCymru
    <2>2. at = "cymru"
      BY <1>1 DEF AskCymru
    <2>3. CASE Panics(txt)
      <3>1. at' = "crashed" /\ UNCHANGED <<info, errs, answers>>
        BY <2>1, <2>3
      <3>2. DOMAIN answers \subseteq MayHaveAsked("crashed")
        BY <2>2 DEF ChainTypeInv, MayHaveAsked
      <3> QED
        BY <3>1, <3>2, StayKeeps
    <2>4. CASE ~Panics(txt)
      <3>1. PICK a \in Cymru(txt) : Heard("cymru", a, "rdap")
        BY <2>1, <2>4
      <3>2. IsAnswer(a)
        BY CymruAnswers
      <3> QED
        BY <2>2, <3>1, <3>2, HeardKeepsTold DEF Provider
    <2> QED
      BY <2>3, <2>4
  <1>2. ASSUME AskRDAP PROVE PlacementInv'
    <2>1. PICK table \in Bootstraps, object \in Objects :
            \E a \in RDAP(table, object) : Heard("rdap", a, "maxmind")
      BY <1>2 DEF AskRDAP
    <2>2. PICK a \in RDAP(table, object) : Heard("rdap", a, "maxmind")
      BY <2>1
    <2>3. at = "rdap"
      BY <1>2 DEF AskRDAP
    <2>4. IsAnswer(a) /\ \A f \in Origin : a.info[f] = Unknown
      BY RDAPAnswers
    <2> QED
      BY <2>2, <2>3, <2>4, HeardKeepsTold DEF Provider
  <1>3. ASSUME AskMaxMind PROVE PlacementInv'
    <2>1. PICK place \in Places : \E a \in MaxMind(place) : Heard("maxmind", a, "end")
      BY <1>3 DEF AskMaxMind
    <2>2. PICK a \in MaxMind(place) : Heard("maxmind", a, "end")
      BY <2>1
    <2>3. at = "maxmind"
      BY <1>3 DEF AskMaxMind
    <2>4. IsAnswer(a) /\ \A f \in Origin : a.info[f] = Unknown
      BY MaxMindAnswers
    <2> QED
      BY <2>2, <2>3, <2>4, HeardKeepsTold DEF Provider
  <1>4. ASSUME Skip("cymru", "rdap") \/ Skip("rdap", "maxmind") \/ Skip("maxmind", "end")
        PROVE  PlacementInv'
    <2>1. UNCHANGED <<info, errs, answers>>
      BY <1>4 DEF Skip
    <2>2. /\ DOMAIN answers \subseteq MayHaveAsked(at')
          /\ at' \in {"rdap", "maxmind", "end"}
      BY <1>4 DEF Skip, ChainTypeInv, MayHaveAsked, Provider
    <2> QED
      BY <2>1, <2>2, StayKeeps DEF Provider
  <1>5. ASSUME Cancel PROVE PlacementInv'
    <2>1. UNCHANGED <<info, errs, answers>> /\ at' = "cancelled"
      BY <1>5 DEF Cancel
    <2>2. DOMAIN answers \subseteq MayHaveAsked("cancelled")
      BY DEF ChainTypeInv, MayHaveAsked, Provider
    <2> QED
      BY <2>1, <2>2, StayKeeps
  <1>6. ASSUME Return PROVE PlacementInv'
    <2>1. /\ UNCHANGED <<info, errs, answers>>
          /\ at' = IF Empty(info) /\ errs THEN "error" ELSE "ok"
      BY <1>6 DEF Return
    <2>2. DOMAIN answers \subseteq MayHaveAsked(at')
      BY <2>1 DEF ChainTypeInv, MayHaveAsked, Provider
    <2> QED
      BY <2>1, <2>2, StayKeeps
  <1>7. ASSUME UNCHANGED chainVars PROVE PlacementInv'
    BY <1>7 DEF chainVars, ChainTypeInv, ChainToldInv, FirstAnswerWins, Tellers, Empty
  <1> QED
    BY <1>1, <1>2, <1>3, <1>4, <1>5, <1>6, <1>7 DEF ChainNext

\* Every field comes from the first provider that knew it.
THEOREM FirstAnswerAlwaysWins == ChainSpec => []FirstAnswerWins
  <1>1. PlacementInv => FirstAnswerWins
    BY DEF PlacementInv
  <1> QED
    BY <1>1, InitPlacement, StepPlacement, PTL DEF ChainSpec

\* What is known of the origin of an address is one origin.
THEOREM OriginIsOne == ChainSpec => []OneOrigin
  <1>1. PlacementInv => OneOrigin
    <2> SUFFICES ASSUME PlacementInv, info["asn"] # Unknown
                 PROVE  /\ "cymru" \in DOMAIN answers
                        /\ \A f \in Origin : info[f] = answers["cymru"].info[f]
      BY DEF OneOrigin, Origin
    <2>1. \A f \in Origin : f \in Fields /\ Tellers(f) \subseteq {"cymru"}
      BY DEF PlacementInv, ChainToldInv, Tellers, Origin, Fields
    <2>2. Tellers("asn") # {}
      BY <2>1 DEF PlacementInv, FirstAnswerWins, Origin
    <2>3. "cymru" \in DOMAIN answers /\ ~answers["cymru"].failed /\ ~Empty(answers["cymru"].info)
      BY <2>1, <2>2 DEF Tellers, Origin
    <2>4. ASSUME NEW f \in Origin
          PROVE  info[f] = answers["cymru"].info[f]
      <3>1. CASE answers["cymru"].info[f] = Unknown
        <4>1. Tellers(f) = {}
          BY <2>1, <3>1 DEF Tellers
        <4> QED
          BY <2>1, <3>1, <4>1 DEF PlacementInv, FirstAnswerWins
      <3>2. CASE answers["cymru"].info[f] # Unknown
        <4>1. "cymru" \in Tellers(f) /\ \A q \in Tellers(f) : ~Before(q, "cymru")
          BY <2>1, <2>3, <3>2, OrderOfProviders DEF Tellers
        <4> QED
          BY <2>1, <4>1 DEF PlacementInv, FirstAnswerWins
      <3> QED
        BY <3>1, <3>2
    <2> QED
      BY <2>3, <2>4
  <1> QED
    BY <1>1, InitPlacement, StepPlacement, PTL DEF ChainSpec

\* A lookup fails only as a whole.
THEOREM ErrorsAlwaysTotal == ChainSpec => []ErrorsAreTotal
  <1>1. PlacementInv => ErrorsAreTotal
    BY DEF PlacementInv, ChainToldInv, ErrorsAreTotal
  <1> QED
    BY <1>1, InitPlacement, StepPlacement, PTL DEF ChainSpec

=============================================================================
