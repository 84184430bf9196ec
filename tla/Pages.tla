--------------------------------- MODULE Pages ---------------------------------
(***************************************************************************)
(* The pages a client without scripts is served: which path is which page, *)
(* on the server and in the router of the frontend, and what stands on the *)
(* list of trackers and on the page of the networks.                       *)
(* Country codes are written in one case.                                  *)
(* Source: internal/api/pages.go, internal/api/fallback.go,                *)
(* web/src/lib/router.js, web/src/lib/api.js.                              *)
(***************************************************************************)
EXTENDS Views

-----------------------------------------------------------------------------
(* Paths: the first segment, the second, what follows these, each "" when   *)
(* there is none, and the slashes at the end, more than one of them as "//".*)
(* A segment stands for what it decodes to, in which there is no slash.     *)

Path(Segment) ==
    {p \in [first : Segment, second : Segment, rest : Segment, end : {"", "/", "//"}] :
        (p.first = "" => p.second = "") /\ (p.second = "" => p.rest = "")}
Ending(p, end) == [first |-> p.first, second |-> p.second, rest |-> p.rest, end |-> end]
At(first, end) == [first |-> first, second |-> "", rest |-> "", end |-> end]

pathDashboard == At("", "/")
pathTrackers == At("trackers", "")
pathNetworks == At("networks", "")
pathLists == At("lists", "")

\* ServeMux sends every other path to its clean form before any handler.
Clean(p) == IF p.first = "" THEN p.end = "/" ELSE p.end \in {"", "/"}

canonicalPath(p) == Ending(p, IF p.first = "" THEN "/" ELSE "")

\* Whether a path is a page, and the name when it is a name's: what follows /t/
\* is not empty and has no slash.
NoPage == [page |-> "none", name |-> ""]
docRoute(p) ==
    IF p \in {pathDashboard, pathTrackers, pathNetworks, pathLists} THEN [page |-> "one", name |-> ""]
    ELSE IF p.first # "t" \/ p.second = "" \/ p.rest # "" \/ p.end # "" THEN NoPage
    ELSE [page |-> "one", name |-> p.second]

\* Which of the pages a client without scripts gets, the name's being there.
Rendered(page, name) == [page |-> page, name |-> name]
fallbackDoc(path) ==
    LET route == docRoute(path) IN
    IF route.page = "none" THEN Rendered("notfound", "")
    ELSE IF route.name # "" THEN Rendered("detail", route.name)
    ELSE IF path = pathTrackers THEN Rendered("trackers", "")
    ELSE IF path = pathNetworks THEN Rendered("networks", "")
    ELSE IF path = pathLists THEN Rendered("lists", "")
    ELSE Rendered("dashboard", "")

\* The browser strips one slash, and matches the whole of what is left.
canonicalInBrowser(p) ==
    IF p.end = "" \/ p = pathDashboard THEN p
    ELSE Ending(p, IF p.end = "/" THEN "" ELSE "/")
parseRoute(p) ==
    LET path == canonicalInBrowser(p) IN
    IF path = pathDashboard THEN Rendered("dashboard", "")
    ELSE IF path = pathTrackers THEN Rendered("trackers", "")
    ELSE IF path = pathNetworks THEN Rendered("networks", "")
    ELSE IF path = pathLists THEN Rendered("lists", "")
    ELSE IF path.first = "t" /\ path.second # "" /\ path.rest = "" /\ path.end = ""
         THEN Rendered("detail", path.second)
    ELSE Rendered("notfound", "")

\* The status spaHandler answers with, of a path that is no static file, with
\* the names that have a row; it redirects to the canonical path.
Missing(route, names) == route.name # "" /\ route.name \notin names
spaHandler(p, names) ==
    LET route == docRoute(canonicalPath(p)) IN
    IF route.page # "none" /\ canonicalPath(p) # p THEN 301
    ELSE IF route.page = "none" \/ Missing(route, names) THEN 404
    ELSE 200

-----------------------------------------------------------------------------
(* /trackers, all of it or a country.  Trackers also have bep34Denies.      *)

trackerClass(t) ==
    CASE ~t.enabled -> "retired"
      [] t.enabled /\ t.bep34Denies -> "denies"
      [] t.enabled /\ ~t.bep34Denies /\ t.parked -> "parked"
      [] OTHER -> "tracker"

\* A name without a country on record is under "", which the page calls unknown.
servedFrom(view, country) == \E n \in view.Networks : n.Country = country
Everywhere == <<>>

answersLabel(t) ==
    CASE t.reach = "live" -> "live"
      [] t.reach = "partial" -> "partial"
      [] t.reach = "dead" /\ t.lastLive = 0 -> "never answered"
      [] t.reach = "dead" /\ t.lastLive # 0 -> "silent"
      [] OTHER -> "unprobed"

trackerListSections(views, country) ==
    LET scoped == {v \in views : country = Everywhere \/ servedFrom(v, country)}
    IN  [trackers |-> {v.tracker : v \in {x \in scoped : trackerClass(x.tracker) = "tracker"}},
         others   |-> {v.tracker : v \in {x \in scoped : trackerClass(x.tracker) # "tracker"}}]

-----------------------------------------------------------------------------
(* The sentences of /networks.                                              *)

networkSections(trackers, records, endpoints, probes) ==
    LET coverage == ProbeCoverage(trackers, records, endpoints, probes)
        reach    == ReachSummary(trackers)
    IN  [answering        |-> reach["live"] + reach["partial"],
         of               |-> coverage.Trackers,
         endpoints        |-> coverage.Endpoints,
         withEndpoints    |-> coverage.WithEndpoints,
         withoutEndpoints |-> coverage.Trackers - coverage.WithEndpoints,
         neverResolved    |-> coverage.NeverResolved,
         fingerprinted    |-> coverage.Fingerprinted,
         named            |-> coverage.Named]

=============================================================================
