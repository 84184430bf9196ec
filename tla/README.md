# torrent-tracker in TLA+

torrent-tracker watches the hostnames of public BitTorrent trackers. It looks
them up in DNS and keeps a history of their addresses, probes the endpoints
they announce and keeps intervals of what answered, learns which network each
address is in, and serves all that as a website, an API and client lists. One
SQLite file holds the state; three loops (`serve`) and a handful of commands
(`import`, `add`, `rm`, `control`, `parked`, `probe`, `poll`) change it.

This directory models the parts of the program that decide what is recorded
and what is told about it. TLC checks the models on small instances; TLAPS
proves some of what they say for every value of the constants.

    tlc -workers 2 -config AddressHistory_passes.cfg MCAddressHistory
    tlapm AddressHistoryProofs.tla

`PROJECT.json` lists the runs, the theorems, the lines of Go each definition
stands for, and for every checked property a mutant of the model that breaks it.

## 1. The system

### Components, their state and their operations

| component | state | operations | what makes it correct |
|---|---|---|---|
| `internal/resolver` | none | `Lookup`: servers in order, attempts, truncation and TCP | an answer has addresses exactly when it is `ok`, and they come from one reply |
| `collector/diff.go` | none; reads and returns a `Trend` | `Diff`: counters, roll or settle, reconcile with the active records | patience, hysteresis, one mode at a time |
| address history (`store/records.go`, `collector.go`) | `ip_records`, `family_state`, `trackers.last_status`, `resolve_fails`, `failing_since` | `collectOne` → `ApplyPlan`, one transaction | the feed tells the history, failed lookups change nothing, an answer that settles is recorded |
| BEP 34 (`bep34`, `checkBEP34`, `stopProbing`) | `trackers.bep34` | `SetBEP34`, `AdoptEndpoint`, `ClearProbes`, `SetReach` | a denial holds and loses no measurement; what is advertised is adopted |
| parked names and controls (`collector.go`, `cli.go`) | `trackers.parked`, `control` | `resolveControls`, `markParked`, `parked --disable` | news once per spell; a well-informed verdict is true |
| registry (`store/trackers.go`) | `trackers.enabled`, … | `AddTracker`, `RemoveTracker`, `PurgeTracker`, `SetControl`, `due`, `RetireStale` | only what never worked is retired; what is listed is tried for ever |
| import (`cli.go`, `trackerlist`) | `trackers`, `endpoints` | `ParseEndpoint(s)`, `AddTracker`, `AddEndpoint` | one row each, complete when left alone, repeatable |
| prober pass (`collector/prober.go`, `store/probes.go`) | `probes`, `probe_history`, `trackers.reach`, `last_live_at` | `ProbeTargets`, `merge`, `PutProbes`, `SetReach`, `PruneProbeHistory` | intervals tile what was measured; failing everywhere is dead; the reach is the roll-up |
| advertised TCP ports (`prober.go`) | `endpoints.retired_at` | `preferences`, `adopt`, `RetireEndpoint` | the last endpoint stays; an advertised port that answers is met |
| protocol probe (`internal/prober`) | one conversation | UDP connect with a retry; HTTP scrape, announce, incomplete announce | a verdict is proven by what the other end said |
| uptime (`store/availability.go`) | none | `AvailabilityOver` | figures are what the intervals mean |
| client lists (`store/lists.go`, `api/list.go`) | none | `ListEndpoints`, filters, age floor, cap per AS | the cap holds and no place is wasted |
| enrichment (`enricher.go`, `ipinfo.go`, `enrich`) | `ip_info`; in memory the bootstrap table and the throttle | `PendingEnrichment`, `Chain.Lookup`, `PutIPInfo` | nothing starves, requests are spaced, moves are told once, first answer wins |
| rollups (`query.go`, `store.go`, `ipinfo.go`, `probes.go`) | none | `Stats`, `ReachSummary`, rollups by AS, registry, country, software clusters, shared addresses | totals add up, one address list behind every rollup |
| schedule (`run.go`, `cmdServe`) | none | `every`, `pool` | see fairness |
| change feed (`store/records.go`, `api.go`) | `changes` | `insertChange`, `RecentChanges`, `ChangesFor`, `collapseChanges` | a bound of time leaves nothing out; a page folds and loses nothing |
| HTTP handlers (`api.go`, `list.go`) | none; replies held for a while | tracker detail, lists, feed, rollups | replies put together from several reads still say one thing |
| pages, sitemap (`pages.go`, `sitemap.go`, `fallback.go`) | the sitemap, held for an hour | `spaHandler`, `docRoute`, the sections of a page | one page per path; counts on one page add up |
| front end (`web/src`) | none that outlives the page | `parseRoute`, `canonicalPath` | renders the page the server said is there |
| version, deployment, the legacy collector in Perl | | | not modelled |

### How they meet

The loops and the commands share nothing but the database (and, inside the
enricher, a mutex, the bootstrap table and the throttle). SQLite has a single
writer, so one transaction is one atomic step everywhere below. What is hard
is what lies *between* transactions:

- **Reads before a wait, used after it.** `probeOne` reads the stored verdicts,
  spends seconds on the network, and writes a table folded from what it read.
  The collector's controls are asked before the pool starts. `RetireStale` picks
  with two queries and disables by id later.
- **Several transactions for one fact.** A pass stores verdicts and their
  roll-up separately; a denial is `SetBEP34`, `ClearProbes`, `SetReach`; an
  endpoint is retired in two steps; an import is one transaction per row. A
  cancelled context or a crash may fall between any two.
- **Two counters that move for different reasons**: churn and steadiness in
  the diff, misses of a row and misses inherited by a fresh address in the
  prober, the failing streak and the time of the last check in the registry.
- **An unreliable world**: lookups that fail, answers that flap, datagrams
  lost, late, repeated or forged, registries that fail or throttle.

- **Texts compared in place of what they stand for**: times are stored, bounded
  and ordered as strings; a path is cut one way by the server and another way
  by the browser.

`PROJECT.json` lists 40 hazards, each at its line, with the properties that
would catch it going wrong, or a note saying why no property does.

## 2. The modules

| module | models | uses |
|---|---|---|
| `AddressDiff` | `diff.go` as operators: counters, the decision to roll or settle, misses, what is added and removed | |
| `AddressHistory` | `collectOne` and `ApplyPlan` for one name, enrichment coming and going | `AddressDiff`, refines `HistoryContract` |
| `HistoryContract` | what a history promises, without counters or records | |
| `Resolver` | `Lookup` over any schedule of server replies | its results are the inputs of `AddressHistory` (an ASSUME of `MCAddressHistory`, a theorem of `AnswersProofs`) |
| `Reach` | `RollUp`, `ReachChange` | used by `Probing`, `Registry` |
| `Probing` | probe passes over one name: targets, read, store, roll up, prune, stop | `Reach` |
| `BEP34` | `Parse` of the TXT records | |
| `Denial` | collector and probers over one name | **composes** `Probing` and `BEP34` |
| `TrackerPage` | the detail of a name, read with two queries while passes and denials close intervals | **composes** with `Denial` |
| `Preferences` | endpoints discovered, adopted and retired on advertised TCP ports | |
| `Registry` | one name: by hand, collecting pass, probing pass, retirement sweep | `Reach` |
| `Parking` | several names, controls, collecting passes, `parked --disable` | |
| `Contact` | one probe on the wire | |
| `Availability` | the folding of intervals into uptime, row by row | |
| `ClientLists` | the served list | **composes** with `Availability`, whose figures it ranks by |
| `Enrichment` | the pass, its workers, the throttle, `ip_info` | |
| `Placement` | the provider chain for one address, its answers and how they merge | |
| `TrackerList`, `Import` | announce URLs and importing them, beside `rm --purge` | `Import` extends `TrackerList` |
| `Site` | the sitemap, its links and the served lists, which are imported again | **composes** with `Import` |
| `Feed` | the feed: times as text, queries with a bound and a limit, folding for the pages | |
| `Pages` | paths and pages on the server and in the browser, the list of trackers, the sentences of `/networks` | **composes** with `Views` |
| `Views` | the read-only queries as operators over tables | |
| `MC*` | instances for TLC: address plans, request kinds, symmetry sets | |
| `*Proofs` | theorems of the module they extend | TLAPS |

State is modelled column by column: a variable has the name of its column or
of the Go field, or a comment saying which it is. An action is one transaction,
or one step in memory between two of them, with everything the code does in it;
where a pass reads first and writes later, the pass is a record
(`pass[p]`, `collector`, `job`) that holds *what was read*, so that stale
values are really stale. Stopping is an action of its own at every such point.

**Observers.** Properties compare what is stored with what happened. What
happened (answers in a row that left out an address, attempts on the network,
how long a name has stood, which datagrams came in) is kept in variables marked
*Observer*, that no guard and no update of a code variable reads.

**What is abstracted everywhere.** Addresses, names, endpoints and prefixes are
model values or small numbers; texts of the feed, logs, counts that are only
printed, and the wall clock are left out. A clock is the number of passes
(`Probing`), or an age that stops counting at the longest time anything compares
it with (`Registry`), so no behaviour is cut off by time except where a bound is
named.

### Notes on single modules

*AddressDiff / AddressHistory.* A key that is an address is an ordinary record;
a key that is a prefix is the collapsed record of a rolling family. Prefixes may
lie one inside another, and an address has every prefix it is in (`PrefixesOf`).
`known` is what enrichment has recorded, read once per pass; `Index` is what
`lookup` makes of it, the prefix on the address's own row and else the most
specific known one. `Waiting(f)` is the corner at
`diff.go:122`: churn calls for prefixes but none is known, and the mode is put
back by hand. `steady` and the misses saturate just above the number they are
compared with; `churn` is bounded by `MaxChurn` in the guard of the answers.

*Probing.* `Merge` is `merge` with the software signature left out.
`Streak` is `endpointStreaks`. A pass that is stopped has stored nothing, or its
verdicts, or verdicts and roll-up. Times are the number of the pass.

*Denial.* `clean` says whether the last denial was carried through while no pass
was under way, or the last other record was adopted to its end. It is what the
two guarantees can be stated for; section 6 has what happens otherwise.

*Preferences.* `serves` is the network; the addresses of a host answer alike
(`adopt` asks the first only). `Target` reads the endpoints of a name;
`Probe` tries them, `Explore` looks on the first advertised port nobody answers
on, `Close` and `Mark` are the two transactions of `RetireEndpoint`, `Put` stores
the rows of the endpoints read, less those just retired.

*Registry.* `rows` keeps a verdict and the age of its `since` per pair. The
sweep is three steps: the query for names that never resolved, the query for
names that never answered, and the update.

*Contact.* The transaction id of a request is known only to whoever received it.
A body is the set of keys that came and whether it decodes.

*ClientLists.* The queries of `ListEndpoints` follow each other without a
transaction: the set answering and the set listed are arbitrary with respect to
the figures already read. The two sorts (`ListEndpoints`, `SortedByStart`) put in
one element at a time, since what Go's sort does inside is of no consequence; the
loops of `merge`, `cover` and `capPerAS` are recursive functions over the places of
the list, one step per turn of the loop. The verdict of `capPerAS` on a tracker is
`"none"` until the first of its endpoints comes, where Go's map has no entry.

*Import.* SQLite reuses the id of a purged row when it was the largest
(`0001_init.sql`: no AUTOINCREMENT). The import keeps the id of a hostname over
its later transactions, so `EndpointsWereListed` has an exception for a name
purged meanwhile, which the model makes explicit (`purged`).

*TrackerPage.* Of the rows `handleTracker` reads, the page keeps what they leave
open: the attempts of its window that no interval read so far shows.

*Site.* A list the site serves is any set of endpoints of enabled names, since
filters and quota may leave out anything; as a text it is what `ListEndpoints`
writes. The sitemap is the one a crawler took, however long ago.

*Feed.* A digit is a number below `Base`, a text is a sequence of characters of
which only the order is kept: the point before the digits, `Z` after them. Two
digits of a fraction are enough for a fraction to lose none, one or both.

*Pages.* A path is a record of up to three segments and its slashes at the end;
what the server trims and cuts and what the browser slices and matches is done
to that record. A segment is what it decodes to and holds no slash.

*Views.* A table is a set of rows; an operator is one query and the folding done
in Go after it. There is no state: what the module can say is proved.

## 3. What the runs check

Twelve runs. Every property of the ten that pass has a mutant of the model that
breaks it under the same configuration.

| run | instance | bound and why it is enough |
|---|---|---|
| `history` | 2 addresses, one of them in a prefix inside that of the other, one family, MissThreshold 2, RollAfter 2, SteadyAfter 3 | A family can roll, settle, roll again and wait for a prefix, and an address is looked up by its own row or by the more specific of two prefixes. Churn stops counting at 3, one above RollAfter, so decay from above the threshold happens. The patience is MissThreshold here; thresholds above the settling window are left to the theorems. Families meet in the status and the failing streak of the name only; with one of them the rule that both must have failed is not exercised, and the theorems hold for any set of families. |
| `probing` | 1 endpoint, 2 interchangeable addresses, 4 passes, answers live, no tracker or silence, threshold 2, retention 1 | Four passes: live, two misses, dead or back, with an address leaving and returning in between, and a prune of the first interval. Symmetry over addresses; safety only. |
| `denial` | 1 endpoint, 1 address that answers or not, 4 texts (deny twice over, UDP/TCP with repeats and a surplus, somebody else's), a page with a window of 1 | A denial, an open record and a second denial, with a pass at any point of each, and a page whose two queries fall on either side of any of them. |
| `registry` | 1 address with every verdict and one that comes and goes, retirement after 1 tick, backoff after 2 failures, a day of 1 tick | Ages saturate at the longest one compared, so the run is not cut off in time. `ProbeRounds` has no verdicts, every verdict of one pair, and the second pair in the three roles it can have beside the first. |
| `preferences` | 1 prober, a port under both schemes, an endpoint on it with a path of its own, verdicts live, dead and unknown | Every case of `adopt` and of the retirement of the dead endpoints of a port: both schemes free, one held by an endpoint that can be found again, one held by an endpoint that cannot; the last endpoint under each; stops between the two transactions. Records of several ports are left to the theorems on `LastEndpointStays` and `PreferencesInv`; `PortIsMet` is checked for one. |
| `lists` | 3 trackers, 4 endpoints, times 0–4 around the window 1–3, up to 3 intervals, of which at most 2 when a list is served, 5 kinds of request | Two intervals of one endpoint overlap, touch, nest and cross either end of the window; three fold twice. One tracker has two endpoints and one sits in two ASes. |
| `enrichment` | 1 tracker, 3 addresses (one in BGP and on record now and then, two probed now and then), 2 workers, batch of 2 | A batch smaller than what is pending; two workers at the throttle at once; an AS that changes between lookups; a record that opens or closes between a lookup and its write. |
| `contact` | UDP with 2 requests and 2 datagrams under way; HTTP with every response to every request | Two datagrams are a late and a current answer, or an answer and a forgery. |
| `contact_throttled` | HTTP | finds the divergence of section 6 |
| `parking` | 2 names (either may be the control), an address of each family, one collector | Half-heard lookups, a control un-set during a pass. With two names a name never sits between two controls. |
| `site` | 2 names on 2 overlapping lists with comments, bare names and default ports, ids up to 3 | An id is freed by a purge and given to the other name while an import holds it, with an id to spare. |
| `feed` | 1 name, 2 changes, times of 2 binary digits of a fraction over 2 seconds | finds the divergence of section 6 |

What they show:

- **history** — `HistoryInv` (types, one mode of record per family, misses that the answers
  earned or a wait for a prefix holds back,
  the failing streak); `PatientRemoval`: a record goes only on the last of
  `Patience` trusted answers in a row without it, which is MissThreshold as long
  as that is at most SteadyAfter + 3;
  `Hysteresis`; `FeedTellsHistory`: exactly what appeared and vanished is told,
  in numbers that agree; `KeepsContract`: the history implements
  `HistoryContract`; `SettledIsRecorded`: an answer that stops changing is in
  the end what is recorded.
- **probing** — `ProbingInv` (intervals of a pair never overlap and are never
  empty), `MeasurementsAreKept` (every attempt inside the retention lies in an
  interval that fits it), `MissesAreAttempts`, `FailingEverywhereIsDead`,
  `ReachIsCurrent`.
- **denial** — `DenialHolds`, `AdvertisedIsAdopted`; `PageCoversAxis`: whatever
  closes intervals between the two queries of a tracker's page, every attempt
  of its window is in an interval it shows. An interval may be shown twice.
- **registry** — `RegistryInv`; `PickedHasNeverWorked`: the sweep picks what has
  never worked, for the length of its silence; `FreshMonth`: and no name that never resolved
  before it stood for so long; `TriedForever`;
  `NeverWorkingIsRetired`: neither a name that never resolves nor one that only
  ever says dead is listed for ever.
- **preferences** — `PreferencesInv` (what is retired has no open rows),
  `LastEndpointStays`; `PortIsMet`: an advertised port that goes on answering on
  the announce path is met again and again by an endpoint that answers, or again
  and again obstructed: its scheme is held by an endpoint with a path of its own
  that does not answer and is the last one in use, or was not found dead. Without
  either half of that exception TLC finds it violated (section 6).
- **lists** — `AvailabilityInv` compares the folding, of an endpoint and of a
  name, with the definition instant by instant; `QuotaHolds`,
  `DroppedForAReason`; `FloorKeepsTheOldest`: the floor of age never leaves out
  the name known longest.
- **enrichment** — `EnrichmentInv` (requests of one process to registries are
  spaced; the throttle is in memory, and a new process begins with no turn taken);
  `FeedKeepsUp`: the history of a tracker tells every move of an address on record
  for it, unless a failed lookup came in between; `LookedUpForEver`.
- **contact** — `ContactInv`; `VerdictIsProven`: over UDP live comes of a tracker's
  answer, and dead of a datagram from elsewhere or of a tracker's error too short
  to be read; `EvidenceStands`: proof of one
  request outlives the failure of another, and what was disclosed is kept;
  `ComesToAVerdict`.
- **parking** — `NewsInv`, `VerdictIsTrue`.
- **site** — `WhatIsRecordedWasListed`, `ImportIsComplete`;
  `SitemapIsFollowable`: a link taken from a sitemap leads to a page until the
  name is purged; `OwnListIsNoNews`: a list the site serves, imported again,
  changes no endpoint.

Deadlock is checked except where the system really ends: one probe (`contact`)
one request for a list (`lists`), and the clock and the feed at their bounds
(`feed`).

### Fairness

- `AddressHistory`: liveness needs only that each family is answered
  again and again (`WF` on a pass whose lookup of that family came back with an
  answer). `every` starts a pass at each tick for as long as the process runs; a
  resolver that never answers again is excluded, and nothing could be
  promised of it. *Which* answer comes is not constrained.
- `Registry`: `SF` on the tick (time passes whatever the loops do; the tick is
  only disabled between the two transactions of a pass), `WF` on each loop.
  `TriedForever` and `NeverWorkingIsRetired` are conditional on passes no longer
  being stopped (`Running`); the second also on the pairs of a round no longer
  changing, since the clock of retirement is the youngest verdict. No step by
  hand is owed.
- `Preferences`: `WF` on the pass of a prober. `PortIsMet` is conditional on
  passes no longer being stopped.
- `Enrichment`: `WF` on starting and finishing a pass, on some worker going on
  (not on each), on the throttle's clock and on rows growing old. `LookedUpForEver` is conditional on
  passes no longer being stopped and writes no longer failing.
- `Contact`: `WF` on the probe's own steps; each request has a timeout, which is
  a step of the probe and not of the network. Nothing is owed by the network.

Symmetry is used only in runs without liveness.

## 4. What is proved

Every invariant and every safety property of the passing runs is a theorem, for
any values of the constants; only liveness stays with TLC. Eight modules hold
theorems: `AddressHistoryProofs`, `ProbingProofs` (with `Denial` and `TrackerPage`),
`AnswersProofs` (`Resolver`, `Contact`, `Parking`), `RegistryProofs`, `ImportProofs`
(with `Site`), `EnrichmentProofs` (with `Placement`), `PagesProofs` (with `Views`) and
`EndpointProofs` (`Preferences`, `ClientLists`, `Availability`). All assumptions are
those of the modules they extend, and `OneProber` where a theorem names it.

**Address history** (for any addresses, nested or disjoint prefixes, families,
thresholds and answers; nothing is assumed of how the thresholds compare).
That a record goes only after so many answers without it is not inductive: an
answer may clear misses in one place and count absence in another, and a family
that waits for a prefix holds misses an answer should have cleared. The
strengthening is `HistoryInv`:

- `TypeOK`;
- `OneMode` — a rolling family holds prefix records only, any other address
  records only: without it a miss could be charged to a key the target of an
  answer cannot contain;
- `MissesAreEarned` — a record has fewer misses than the threshold, and no more
  than the answers it was absent from; or it has been absent for `steadyAfter + 3`
  answers; or it is `HeldBack`;
- `FailingStreak`.

`HeldBack` says what a wait does. A family waits while its churn calls for
prefixes and none is known; its records keep the misses they had, even those the
answer names. It stops waiting, short of rolling, only on an answer it has been giving for
more than `steadyAfter` runs, which takes churn below `RollAfter` (`WaitingEnds`). By
then a record that answer does not name has no more misses than absences, or has
been absent for `steadyAfter + 3` answers (`EarnedAbsence`). Hence `Patience`:
`missThreshold`, or `steadyAfter + 3` when that is less. The bound is met: with `MissThreshold` 5, `RollAfter` 2 and `SteadyAfter` 1 TLC
finds a record retired at 4 absences. The defaults are 2 and 6; the flags enforce
no relation between them.

The proof goes through one lemma on the effect of an answer on a family
(`AnsweredEffect`), which abstracts `Diff`, and one lemma per conjunct. From it
follow `HistoryInvariant`, `OneModeAlways`, `TypeAlways` and, for steps,
`RemovalIsPatient`.

`HistoryKeepsContract` is the refinement: every step of `AddressHistory` is a step
of `HistoryContract` or changes nothing the contract speaks of. By the same effect
lemma an answer is held back, tracked, or switches the mode of its family; a record
closed by a tracked one is closed in time because of `PatientStep`, the lemma under
`RemovalIsPatient`; an answer that is not trusted, and enrichment, are stutters.

`SettlingIsSlower` (`Hysteresis`) needs what `churn` and `steady` stand for:
`ChurnIsEarned` bounds the churn of a family that does not roll by the changed
answers since it last stopped, and ties `steady` to how often the same answer came.
`FeedTellsEverything` (`FeedTellsHistory`) needs no invariant: `PlanTells` says of one
family that its plan reports what it does to the records, and `FeedIsCounted` that
the feed of a pass over several families has as many entries as the run row says.

**Probing.** For one prober alone on the database (`OneProber`, the assumption of
each theorem), any endpoints, addresses and outcomes, any threshold and retention,
and passes cut short anywhere: `IntervalsAreSound`, `NothingMeasuredIsLost`,
`MissesAreCounted`, `ChurnHidesNoFailure`, `ReachIsRolledUp`. None of the properties is
inductive. `Strengthening` adds that a pass goes on with the rows as they are stored
(`PassIsCurrent`, which is where the one prober is needed: with two, a pass may fold
its attempts into rows that were replaced); that the closed intervals of a pair end
before the open one starts (`HistoryIsPast`); that attempts bear the instants of
stored rounds (`AttemptsAreDated`); and that an endpoint's rounds of failure are on
each of its rows, so that a fresh address inherits as many (`FailuresAddUp`; the count
`Streak` chooses exists because no row has more misses than the clock has instants).
`StoreEffect` says what the transaction of a round does to rows, intervals and
observers, and each property has a lemma from there.

In the composition with the collector (`DSpec`), which closes the rows of a denying
name while a pass may be under way, `PassIsCurrent` fails: a pass may hold rows that
are gone. What remains (`KeptInv`) is that they are the stored ones or none are stored,
and that the round of a pass is dated after all that was measured. From it
`NothingIsLostBesideTheCollector`: every attempt inside the retention still lies in an
interval that fits it. `PageShowsAll` (`PageCoversAxis`), for one prober too, adds the page half read
(`PageInv`): an attempt it still has to show is in a closed interval, since what leaves
the open rows between its two queries is archived by the step that takes it out.

`AdvertisedAlwaysAdopted` (`AdvertisedIsAdopted`) holds of `DSpec` with any number of
probers: while the collector adopts, each endpoint the record names is adopted or
among those left to do (`AdoptingGoesOn`).

`DenialStands` is about the same composition and needs no assumption on the
probers either: a denial that was carried through holds. `DenialCarried` says why: while
`clean` stands every pass is idle, no pass starts of a name that denies, and the
record changes only when the collector has nothing left to do.

**Resolver.** `LookupIsResult`: whatever the servers do in whatever order, a
lookup comes back as one of the results `AddressHistory` starts from.
`AnswersComeFromOneReply`: the addresses are never mixed from two replies.

**Contact.** For any numbers of requests and any datagrams and responses:
`ContactIsSound`, `VerdictsAreProven`, `EvidenceIsKept`. `VerdictIsProven` speaks of the
result only; the strengthening is what is known on the way. Over UDP (`AttemptsAre`) a
datagram under way is `Honest`: it was sent to an attempt that got through, only a
tracker knows its transaction id, and others guess none; but a tracker's error may be
short, and is then taken for no reply of a tracker. Over HTTP (`HeldIsProof`) the
answer held while a further request is made is all that the requests so far proved,
and is live if any of their bodies was bencoded.

**Parking.** `ParkingIsNewsOnce`: a name is in the feed as parked exactly while its
flag is up. `ParkingVerdictIsTrue`, an action property, says what a pass that heard
everything writes: it needs that what such a pass holds is what the names resolve to
(`WhatIsSoWasHeard`), which a step by hand or a change of the answers ends by taking
the pass out of `clean`.

**Registry.** `PickedHasNeverWorked` speaks of a list of names the sweep took while
probing went on in other transactions, and is not inductive. `Strengthening` adds
what carries it from one step to the next: a pass rolls up what it stored
(`CarriesReach`); a failing streak is no older than the name's standing
(`StandsLonger`); unless a pass was torn, whatever was heard is recorded or about to
be, and a dead reach comes of a dead verdict (`HeardIsRecorded`); and nothing is dead
for longer than the silence lasted (`SilentAsLong`). `RegistryInvariant`,
`PickedNeverWorked` and `FreshMonthIsGiven` follow.

**Import.** `ImportInvariant` for any set of lists, with `rm`, `rm --purge`, stops
and restarts in between. It needs two facts about an import in memory
(`IdsInv`): the ids it has read still belong to their hostnames unless something
was purged; and what it has finished with has an id. Dropping the exception for
purges from `EndpointsWereListed` makes the step lemma false.
`WrittenIsReadBack`: `ParseEndpoint(String(e)) = e`, so that a list the site serves
can be imported.

The same holds of `Site`, whose own lists are among those imported
(`RegistryIsWhatWasListed`). `OwnListsAddNothing` needs that what is left of such a
list is on record already (`OwnIsOnRecord`), so that attaching it finds the row; this
rests on `RegistryIsSound`, on the ids of `IdsInv`, and on no row being without a path
or a port (`PathsAreStated`, `EndpointsWereListed`). `LinksAreFollowable` needs that no
step but a purge takes a name away (`NamesAreKnown`).

**Preferences.** For one prober (`OneProber`): `RetiredStaysClosed`, `TheLastIsKept`.
`LastEndpointStays` is not inductive: the pass decides by a number it counts down
itself. `PassIs` says that what a pass counts as left is the number of endpoints it
has kept, that all of these are in use, and that the one it is about to mark is not
among them and leaves at least one. With two probers it is false (section 6).

**Uptime.** `UptimeIsWhatRowsSay` (`AvailabilityInv`): for any window and any rows in
any order, the figures of every endpoint and every name are what the rows say instant
by instant. `UptimeInv` ties the spans collected so far to the instants of the rows
read. The rest is about the functions: inserting keeps a list in order with one
interval more (`InsertedRises`); folding one interval more onto merged ones leaves
them apart and holding the same instants (`FoldOntoHolds`), given that the last begins
no later, which is what the sort is for; intervals apart cover as much time as they
hold instants (`CoverCounts`); so merged intervals tell the number of instants, the
last of them and where the last stretch began (`MergeTells`). The mutants of the run
are the two ways this argument breaks.

**Client lists.** For any figures, answers and requests: `QuotaIsKept`,
`NoneDroppedWithoutReason`, `OldestIsNeverLost`. The only fact about states is that a
reply was made by `Keep` and `capPerAS` from entries of endpoints (`AnswersOnly`). The
walk of `capPerAS` has an invariant of its own (`WalkInv`), entry by entry: a tracker has
a verdict once it came (`Judged`), an AS is charged with the number of trackers kept in
it, within the quota (`Charges`), what is kept is what is listed (`Lists`), and what was
dropped met an AS full of trackers that came before (`Reasons`).

**Recursive functions.** These two rest on `Recursion` (a function that begins somewhere
and goes on by a step exists, so that the `CHOOSE` behind its definition means it) and
`Steps` (what holds at the first place and passes from each place to the next holds at
all). Both are stated over sets and functions, with no operator for a parameter, and
follow from the least element of a set of naturals.

**Enrichment.** `RequestsStaySpaced` (`EnrichmentInv`) and `FeedKeepsUpAlways`. Two
requests to a registry are `Interval` apart although the workers that wait for their
turn are served in any order: every turn taken is `Interval` before the next free one
and `Interval` from any other (`TurnsAreApart`), and there are no more of them than
workers waiting (`TurnsAreFew`), which bounds how long any of them waits. The table
holds each address once (`TableIs`). What a reader of a tracker's history believes of an address is
settled record by record: where there is none, nothing is believed; where there is
one, it is the AS of the address unless a failed lookup left a gap (`ReaderIs`), since
`Put` tells exactly the trackers with a record when it writes.

**Placement.** `FirstAnswerAlwaysWins`, `OriginIsOne`, `ErrorsAlwaysTotal`, from
the invariant `PlacementInv`: the providers asked so far are those before the
present one, only Team Cymru knows the fields of the origin, and usefulness and
failure of the parts are that of the whole.

**Views.** For any tables: `ReachTotalsAddUp`, `StatusTotalsAddUp`,
`EnrichedWithinActive`, `RollUpsAgree`, `RollUpsAreListed`, `ClustersPartition`,
`SharedIsShared`. The counting theorems go through one lemma, that disjoint
finite sets add up.

**Pages and feed.** `RoutesAgree`: over all paths that reach a handler, the page
the server renders is the page the browser does. `RedirectsOnce`: a redirect
leads to a page, and only the page of a name may be missing. Both go through
one lemma, that the two ways to canonicalise differ only in paths the mux has
already sent away. `CountryPageIsItsRollup`, `AnswersAddUp` and
`NetworksSentences`: what two places of the site count with different queries is
the same, or within the other, for any tables; they rest on the theorems about
`Views`. `SecondsSort`: the stored texts compare as times do across seconds, for
any number of digits, so what the feed gets wrong (section 6) is within one
second. `FoldPartitions`: every change of a feed of any length has exactly one
row that stands for it; that the first of a run exists is by well-founded
induction's least element, which takes no operator.

Out of the prover's reach, and left to TLC: liveness under fairness
(`SettledIsRecorded`, `TriedForever`, `NeverWorkingIsRetired`, `PortIsMet`,
`LookedUpForEver`, `ComesToAVerdict`), which needs ENABLED. No theorem needs what
the fold of `BEP34.Prefs` computes: `Denial`, the one module reasoned about that
reads preferences, starts from their result. No module declares a RECURSIVE operator.

## 5. Bounds

`MaxChurn` (answers stop changing a family whose churn is that high), `MaxFails`
(the failing streak of the history counts up to there), `MaxTime` (passes in
`Probing` and `Denial`; instants in `Availability`), `MaxRows` and `MaxListRows`
(intervals read), `MaxPrefs` (ports of a record), `MaxWire` (datagrams under way),
`BackoffAfter` and `Longest` in `Registry`, where counters and ages stop, `MaxId`
in `Site` (no row is inserted beyond it), and `MaxTime`, `MaxChanges` in `Feed`.
Each is in a guard or a saturating update. In the `probing` run an attempt is
live, a reply that is no tracker, or silence; a failure of our own (`unknown`,
which keeps verdict and streak) is left to the theorems, which hold for every
outcome. `ProbeRounds` (what a round may store), `Window` (the days of a page),
`Base`, `Limit`, `FeedRead` and `Shown` (digits, limits asked for, entries read
and rows shown) are the program's own numbers, made small. In `Probing` and
`Denial` no pass reads its verdicts after `MaxTime`; it can still be stopped, so
no state is a deadlock.

## 6. Where the program and its words differ

Two runs end in a violation:

- `contact_throttled` / `TurnedAwayIsNotDead`. README:190 and `prober.go:293` say that
  being turned away is not evidence. When the scrape was answered by something
  that is no tracker reply and the announce is then answered with 429 or 503,
  the dead verdict of the scrape is returned.
- `feed` / `SinceIsWhole`. `store.go:252` says times are stored "so they sort
  lexicographically", and `records.go:433` that `RecentChanges` is "limited to
  those at or after since". RFC3339Nano drops the zeros a fraction ends in, and
  `Z` sorts after the point: asked for the changes since a whole second, the feed
  leaves out those recorded later in that second, and orders a second wrongly.
  `SecondsSort` proves that nothing worse happens.

Met while modelling, and in the models, without a run of their own:

- README:53 and `trackers.go:85` promise a re-added name a fresh month.
  `AddTracker` restarts the failing streak only: a name retired for silence keeps
  its dead verdicts with their `since`, and the next sweep retires it again.
  `FreshMonth` is stated for names that never resolved.
- `fallback.go:297` says that the names under "Not trackers" are left out of the
  rollups of `/networks`; those that publish a denial are counted there
  (`CountryPageIsItsRollup`, `AnswersAddUp` say what does hold).
- `pages.go:181` says that a redirect to a 404 helps nobody; the path of a name
  nobody has, with a slash at its end, is redirected to one (`RedirectsOnce` has
  the exception).
- The page of a name says that changes were folded when they were only cut to 50
  rows (`fallback.go:629`); the front page compares before it cuts.
- An encoded slash in the path of a name is part of the name in the browser and
  a 404 on the server; segments in `Pages` hold none.
- A pass under way when a name starts to deny stores its rows after the
  collector closed them, and nothing closes them again while it denies
  (`collector.go:370`, `:398`; README:300). `DenialHolds` leaves these out.
- `checkBEP34` carries out a denial only when the record is news: a stop after
  `SetBEP34` is never made up for (`collector.go:398`).
- Empty answers of a rolling family do not retire its prefixes until it settles
  (`diff.go:122`, README:45).
- A body that begins with `d` counts as bencoded (`prober.go:310`).
- The parked flag stays when no control answers (README:153), and a name one of
  whose lookups failed is judged by the other family alone (README:149).
- A stray UDP datagram with a wrong transaction ends a probe as dead, though a
  comment says it "is not our answer".
- `last_live_at` is dated by a verdict believed live through silence
  (`prober.go:452`).
- `tt probe` beside `tt serve` may fold into rows that were replaced meanwhile and
  leave overlapping intervals (`prober.go:151`), and each may retire the endpoint
  the other kept as the last (`prober.go:243`).
- An endpoint with a path of its own, retired while it was down, is never
  brought back (`prober.go:273`).
- README:310 says the probing pass tries both schemes of an advertised port. It
  skips a scheme any endpoint on the port has (`prober.go:267`), answering or not:
  one with a path of its own that is dead and the last in use is never retired
  (`prober.go:243`), and neither is one whose verdict stays unknown. A tracker
  answering on `/announce` there is then never adopted (`Obstructed`).
- A name picked by the sweep, removed and added again before the sweep's
  transaction is retired at once (`trackers.go:194`; README:53, "a fresh month").
- With `--miss-threshold` above the settling window, a family that waited for a
  prefix may lose a record after fewer absences than the threshold, though never
  fewer than `--steady-after` + 3 (`diff.go:122`, `diff.go:60`; README:49).
- `prober.go:107` says that either reply to a connect request, connect or error,
  proves that a tracker is listening. An error of a message under 8 bytes makes a
  datagram under 16, which is dead before its action is looked at (`prober.go:172`).
- README:424 speaks of the moves of an address. A move is told to the trackers with
  an active record of the address at the time of the write (`ipinfo.go:121`): moves
  of addresses only probed, those of rolling families, are told to nobody.
- A failed lookup erases the AS and the prefix an address had (`ipinfo.go:99`,
  README:424), and the next move is not told.
- The bootstrap table may be fetched by several workers at once (README:419).
- A truncated UDP reply whose retry over TCP fails is used as if it were whole
  (`resolver.go:165`).
- An id freed by `rm --purge` may be given to the next name, and an import or a
  pass under way writes to that (`0001_init.sql:3`).
- Published lists may bring ports above 65535 (`trackerlist.go:113`). Escaped
  paths are escaped again when probed (`trackerlist.go:107`, `prober.go:364`).
- An origin record with an empty AS field panics (`cymru.go:128`).
- Pages that make several queries do so without a transaction, so their totals
  agree at one moment each and not with one another (`api.go:276`).
- One prefix record may be counted under several ASes (`ipinfo.go`, rollups).
- The lists by scheme have no floor of ten days (README:560-566).

## 7. Not modelled

- **Metadata, JSON-LD, the rendering of a document as HTML or text, components
  and charts of the front end**: wording and layout. Checking of parameters,
  compression and caching headers of the API.
- **The `/lists` page**, which repeats what `/api/list` serves (`ClientLists`), and
  `ResolutionHistoryFor`, which hands out rows as they are.
- **Wire formats**: DNS messages, bencode, jCard, RDAP JSON, `.mmdb`, and the texts
  of announce URLs character by character. Models start from what a message says.
- **Migrations and the opening of the database**: SQLite's transactions are taken
  as atomic, durable steps.
- **Feed text, run tallies**: what is *owed* to the feed is a variable of
  each module (`feed`, `news`), how it is stored and read is `Feed`.
- **Local geolocation file, deployment, the legacy collector in Perl.**

## 8. Plan

Built in this order, the most important behaviour first: history (with contract
and proofs), probing, denial, registry, preferences, lists, enrichment, contact,
parking, import, placement, views, tracker page, site, feed, pages. Next:

1. *Model.* `serve` as a whole, with the three loops and shutdown; a second
   prober on the same database as a run; the provider chain under the
   enrichment pass; migrations as steps a crash may fall between.
2. *Prove.* What `Parse` returns for every text (a bounded list of distinct ports,
   the first mention of each), by the lemmas on recursive functions; what the two
   probers of one database still guarantee, without `OneProber`; that a page of
   `TrackerPage` shows an interval twice only when it was closed between its queries.
