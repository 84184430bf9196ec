------------------------------ MODULE Enrichment ------------------------------
(***************************************************************************)
(* Placing addresses in networks: a pass picks the observed addresses that *)
(* were never looked up or not for a while, oldest first and a batch at a  *)
(* time, and its workers look each one up at Team Cymru and at the         *)
(* registry, the requests of the latter throttled, before the row is       *)
(* replaced and a move to another AS is told to the trackers on record     *)
(* with the address.                                                       *)
(* Source: internal/collector/enricher.go, internal/store/ipinfo.go,       *)
(* internal/enrich/enrich.go, rdap.go, cymru.go.                           *)
(***************************************************************************)
EXTENDS Integers, Sequences, FiniteSets, SequencesExt

CONSTANTS
    Addr,        \* addresses, as numbers: the order the queries sort by
    Tracker,     \* names
    Kept,        \* pairs of them that may have an address record
    Pool,        \* addresses that may have probes, with a record or without
    Worker,      \* --enrich-workers
    ASN,         \* the origin ASes there are, none of them 0
    Announced,   \* addresses in BGP; of the others there is no AS to learn
    BatchLimit,  \* --enrich-batch
    Interval     \* --rdap-interval, in ticks

ASSUME EnrichmentAssumption ==
    /\ Addr \subseteq Nat
    /\ Kept \subseteq Tracker \X Addr
    /\ Pool \subseteq Addr
    /\ ASN \subseteq Nat \ {0}
    /\ Announced \subseteq Addr
    /\ BatchLimit \in Nat \ {0}
    /\ Interval \in Nat \ {0}
    /\ IsFiniteSet(Worker)

VARIABLES
    recorded,  \* ip_records: tracker and address of those active, not prefixes
    probed,    \* the addresses of probes
    fetched,   \* ip_info: its addresses, the one fetched longest ago first
    stale,     \* how many of them are older than --enrich-max-age
    asn,       \* ip_info.asn of each address, 0 when unknown or no row
    running,   \* a pass is under way
    pending,   \* what it has not handed to a worker yet
    worker,    \* what each worker is at
    services,  \* RDAP.services is loaded
    slot       \* ticks until RDAP.lastCall is Interval ago

\* Observers.
VARIABLES
    quiet,     \* ticks since the last request to a registry, up to Interval
    believed,  \* the AS that who reads about a tracker takes its address to be in
    gap        \* pairs known to have an AS, with a lookup since that learned none

seen == <<recorded, probed>>
store == <<fetched, stale, asn>>
reader == <<believed, gap>>
vars == <<seen, store, running, pending, worker, services, slot, quiet, reader>>

Unchanged == UNCHANGED <<seen, store, running, reader>>

Idle == [at |-> "idle"]
Ready(w) == worker[w].at = "waiting" /\ worker[w].wait = 0

-----------------------------------------------------------------------------
(* Around the pass.                                                         *)

\* A collecting pass opens a record, and whoever reads the page of the tracker
\* sees the AS on it and follows the feed from there; or it closes one.
Record ==
    /\ \/ \E p \in Kept \ recorded :
            /\ recorded' = recorded \cup {p}
            /\ believed' = [believed EXCEPT ![p] = asn[p[2]]]
            /\ UNCHANGED gap
       \/ \E p \in recorded :
            /\ recorded' = recorded \ {p}
            /\ believed' = [believed EXCEPT ![p] = 0]
            /\ gap' = gap \ {p}
    /\ UNCHANGED <<probed, store, running, pending, worker, services, slot, quiet>>

\* Probing passes have addresses no record has: those of rolling families.
Observe ==
    /\ \/ \E a \in Pool \ probed : probed' = probed \cup {a}
       \/ \E a \in probed : probed' = probed \ {a}
    /\ UNCHANGED <<recorded, store, running, pending, worker, services, slot, quiet, reader>>

\* The row fetched longest ago grows older than MaxAge.
Expire ==
    /\ stale < Len(fetched)
    /\ stale' = stale + 1
    /\ UNCHANGED <<seen, fetched, asn, running, pending, worker, services,
                   slot, quiet, reader>>

\* A tick of the throttle.  A request is made when its turn has come.
Tick ==
    /\ \A w \in Worker : ~Ready(w)
    /\ slot' = IF slot = 0 THEN 0 ELSE slot - 1
    /\ worker' = [w \in Worker |->
            IF worker[w].at = "waiting" THEN [worker[w] EXCEPT !.wait = @ - 1] ELSE worker[w]]
    /\ quiet' = IF quiet = Interval THEN Interval ELSE quiet + 1
    /\ UNCHANGED <<seen, store, running, pending, services, reader>>

-----------------------------------------------------------------------------
(* A pass.                                                                  *)

\* IPsNeedingEnrichment: what is on record or probed, and has no row or an aged one.
observed == {p[2] : p \in recorded} \cup probed
Due == observed \ ToSet(SubSeq(fetched, stale + 1, Len(fetched)))

\* Its order: what was never looked up, then what was looked up longest ago.
Place(a) == IF \E i \in DOMAIN fetched : fetched[i] = a
            THEN CHOOSE i \in DOMAIN fetched : fetched[i] = a ELSE 0
Precedes(a, b) == Place(a) < Place(b) \/ (Place(a) = Place(b) /\ a < b)

\* LIMIT: the first of them.
Batch ==
    LET due == Due IN {a \in due : Cardinality({b \in due : Precedes(b, a)}) < BatchLimit}

\* RunOnce: a pass with nothing to do is over at once.
RunOnce ==
    /\ ~running
    /\ Due # {}
    /\ running' = TRUE
    /\ pending' = Batch
    /\ UNCHANGED <<seen, store, worker, services, slot, quiet, reader>>

ReserveFromNow == Interval   \* Mutant: lastCall is now, not the turn.
\* throttle: lastCall once the next free turn, slot from now, is taken.
Reserve == slot + Interval

\* RDAP.endpointFor and get up to the request: whoever finds the bootstrap
\* table missing asks for it, and every request takes the next free turn.
AskRegistry(w, a, n) ==
    /\ slot' = Reserve
    /\ worker' = [worker EXCEPT ![w] =
            [at |-> "waiting", ip |-> a, asn |-> n, wait |-> slot,
             asks |-> IF services' THEN "address" ELSE "bootstrap"]]

\* pool, and Chain.Lookup: a free worker takes any address left, asks Team
\* Cymru, which gives an AS, knows none or fails, and turns to the registry.
Take(w) ==
    /\ worker[w] = Idle
    /\ UNCHANGED <<services, quiet>> /\ Unchanged
    /\ \E a \in pending : \E n \in {0} \cup {i \in ASN : a \in Announced} :
         /\ pending' = pending \ {a}
         /\ AskRegistry(w, a, n)

\* The request: a bootstrap table that came is kept and the address asked for
\* next; a failure, like an answer about the address, ends the lookup.
Request(w) ==
    LET here == worker[w] IN
    /\ Ready(w)
    /\ quiet' = 0
    /\ \/ /\ here.asks = "bootstrap"
          /\ services' = TRUE
          /\ AskRegistry(w, here.ip, here.asn)
       \/ /\ worker' = [worker EXCEPT ![w] =
                [at |-> "known", ip |-> here.ip, asn |-> here.asn]]
          /\ UNCHANGED <<services, slot>>
    /\ UNCHANGED pending /\ Unchanged

\* PutIPInfo's feed rule: both lookups learned an AS, and not the same one.
Moved(before, after) == before # 0 /\ after # 0 /\ before # after

\* The row of an address is replaced and is the youngest.
Fetched(a) ==
    LET at == Place(a) IN
    /\ fetched' = Append(IF at = 0 THEN fetched ELSE RemoveAt(fetched, at), a)
    /\ stale' = IF at \in 1 .. stale THEN stale - 1 ELSE stale

\* The trackers PutIPInfo tells, those with an active record of the address, and
\* what their readers make of it: the first AS learned, and every move told.
trackersOn(a) == {t \in Tracker : <<t, a>> \in recorded}

Read(a, n, moved) ==
    LET told == IF moved THEN trackersOn(a) ELSE {}
        on == {<<t, a>> : t \in trackersOn(a)}
    IN  /\ believed' = [p \in DOMAIN believed |->
                IF p \in on /\ (p[1] \in told \/ believed[p] = 0) THEN n ELSE believed[p]]
        /\ gap' = (gap \ {p \in on : believed'[p] = n})
                    \cup {p \in on : n = 0 /\ believed'[p] # 0}

PutReadingLate(w) ==   \* Mutant: the previous AS is read after the upsert.
    LET a == worker[w].ip
        n == worker[w].asn
    IN  /\ worker[w].at = "known"
        /\ Fetched(a)
        /\ asn' = [asn EXCEPT ![a] = n]
        /\ Read(a, n, Moved(asn'[a], n))
        /\ worker' = [worker EXCEPT ![w] = Idle]
        /\ UNCHANGED <<seen, running, pending, services, slot, quiet>>

PutKnown(w) ==   \* Mutant: a lookup that learned nothing is not stored.
    LET a == worker[w].ip
        n == worker[w].asn
    IN  /\ worker[w].at = "known"
        /\ IF n = 0 THEN UNCHANGED <<store, reader>>
           ELSE /\ Fetched(a)
                /\ asn' = [asn EXCEPT ![a] = n]
                /\ Read(a, n, Moved(asn[a], n))
        /\ worker' = [worker EXCEPT ![w] = Idle]
        /\ UNCHANGED <<seen, running, pending, services, slot, quiet>>

\* enrichOne stores what was learned, or that nothing was: PutIPInfo.
Put(w) ==
    LET a == worker[w].ip
        n == worker[w].asn
    IN  /\ worker[w].at = "known"
        /\ Fetched(a)
        /\ asn' = [asn EXCEPT ![a] = n]
        /\ Read(a, n, Moved(asn[a], n))
        /\ worker' = [worker EXCEPT ![w] = Idle]
        /\ UNCHANGED <<seen, running, pending, services, slot, quiet>>

\* The pass is over when its workers are.
Finish ==
    /\ running /\ pending = {} /\ \A w \in Worker : worker[w] = Idle
    /\ running' = FALSE
    /\ UNCHANGED <<seen, store, pending, worker, services, slot, quiet, reader>>

\* PutIPInfo fails: nothing of the lookup is kept.
PutFails(w) ==
    /\ worker[w].at = "known"
    /\ worker' = [worker EXCEPT ![w] = Idle]
    /\ UNCHANGED <<pending, services, slot, quiet>> /\ Unchanged

\* The process stops: its pass, its table and its throttle are gone.
Stop ==
    /\ running
    /\ running' = FALSE
    /\ pending' = {}
    /\ worker' = [w \in Worker |-> Idle]
    /\ services' = FALSE
    /\ slot' = 0
    /\ quiet' = Interval
    /\ UNCHANGED <<seen, store, reader>>

-----------------------------------------------------------------------------

Init ==
    /\ recorded = {} /\ probed = {}
    /\ fetched = <<>> /\ stale = 0
    /\ asn = [a \in Addr |-> 0]
    /\ running = FALSE /\ pending = {}
    /\ worker = [w \in Worker |-> Idle]
    /\ services = FALSE /\ slot = 0
    /\ quiet = Interval
    /\ believed = [p \in Tracker \X Addr |-> 0]
    /\ gap = {}

Lookup(w) == Take(w) \/ Request(w) \/ Put(w)

Work ==
    \/ Record \/ Observe \/ Expire \/ Tick \/ RunOnce \/ Finish
    \/ \E w \in Worker : Lookup(w)

Next == Work \/ Stop \/ \E w \in Worker : PutFails(w)

Spec == Init /\ [][Next]_vars

\* serve runs a pass after every collecting pass and waits for its end; some
\* worker goes on, rows age and the clock of the throttle runs.
FairSpec ==
    /\ Spec
    /\ WF_vars(RunOnce \/ Finish) /\ WF_vars(Expire) /\ WF_vars(Tick)
    /\ WF_vars(\E w \in Worker : Lookup(w))

-----------------------------------------------------------------------------
(* Properties.                                                              *)

TypeOK ==
    /\ recorded \subseteq Kept /\ probed \subseteq Pool /\ pending \subseteq Addr
    /\ ToSet(fetched) \subseteq Addr /\ IsInjective(fetched)
    /\ stale \in 0 .. Len(fetched)
    /\ asn \in [Addr -> ASN \cup {0}]
    /\ believed \in [Tracker \X Addr -> ASN \cup {0}] /\ gap \subseteq recorded
    /\ \A w \in Worker :
         worker[w].at \in {"idle", "waiting", "known"}
    /\ slot \in 0 .. Interval * (Cardinality(Worker) + 1)

\* throttle: whatever the workers do at once, two requests of one process to the
\* registries are Interval apart; the next process begins with no turn taken.
RequestsAreSpaced == \A w \in Worker : Ready(w) => quiet >= Interval

EnrichmentInv == TypeOK /\ RequestsAreSpaced

\* The history of a tracker tells every move of an address it has a record of:
\* from the AS its page showed when the record opened, or the first one learned,
\* a reader knows the present one for as long as every lookup learns one.  Of an
\* address only probed, as all of a rolling family are, no move is told.
FeedKeepsUp ==
    \A p \in recorded \ gap : asn[p[2]] # 0 => believed[p] = asn[p[2]]

\* A failed lookup is still written "so it ages out of the pending set", and
\* the oldest go first: an address that stays observed is looked up again and
\* again, however many others fail, once nothing stops the passes.
LookedUp(a) == \E w \in Worker : worker[w].at = "known" /\ worker[w].ip = a
LookedUpForEver ==
    \A a \in Addr :
        (<>[](a \in observed) /\ <>[][Work]_vars) => []<>LookedUp(a)

=============================================================================
