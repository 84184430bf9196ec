--------------------------------- MODULE Site ---------------------------------
(***************************************************************************)
(* The registry as the site serves it while lists are imported and names   *)
(* are removed: the sitemap, the page behind each of its links, and the    *)
(* client lists, which are imported again like any other.                  *)
(* Source: internal/api/sitemap.go, internal/api/pages.go,                 *)
(* internal/api/list.go, internal/store/lists.go, internal/cli/cli.go.     *)
(***************************************************************************)
EXTENDS Import

CONSTANT
    MaxId   \* bound: the ids rows are given

ASSUME SiteAssumption == MaxId \in Nat

VARIABLES
    sitemap,  \* the names of the sitemap a crawler took last, less (observer)
              \* those purged since
    before    \* observer: the endpoints on record when the list under way was
              \* served, if it is one of the site's own

svars == <<vars, sitemap, before>>

Foreign == [own |-> FALSE]
Own(eps) == [own |-> TRUE, eps |-> eps]

NamesOf(ids) == {trackers[i].name : i \in ids}
Enabled == {i \in DOMAIN trackers : trackers[i].enabled}

-----------------------------------------------------------------------------
(* What is served.                                                          *)

\* handleSitemap, whose links come from ListTrackers without the disabled.
Sitemap ==
    /\ sitemap' = NamesOf(Enabled)
    /\ UNCHANGED <<vars, before>>

lookupEnabled(name) == Ids(name) \cap Enabled   \* Mutant: a retired name has no page.
\* lookupTracker: a retired name still has a page.
lookupTracker(name) == Ids(name)

\* spaHandler, of the page of a name.
StatusOfPage(name) == IF lookupTracker(name) = {} THEN 404 ELSE 200

ListedURLWithoutPort(e) ==   \* Mutant: the port is left to its default.
    [kind |-> "url", host |-> [kind |-> "name", name |-> trackers[e.tracker].name],
     scheme |-> e.scheme, port |-> 0, path |-> e.path]
\* How ListEndpoints writes the URL of a row.
ListedURL(e) ==
    [kind |-> "url", host |-> [kind |-> "name", name |-> trackers[e.tracker].name],
     scheme |-> e.scheme, port |-> e.port, path |-> e.path]

\* A client list: announce URLs of listed names, filtered one way or another.
ClientList(rows) == {ListedURL(e) : e \in rows}
MayBeListed == {e \in endpoints : e.tracker \in Enabled}

\* It is imported again, here or by a mirror that has the same registry.
StartOwn(rows, onlyEndpoints) ==
    /\ Start(ClientList(rows), onlyEndpoints)
    /\ before' = Own(endpoints)
    /\ UNCHANGED sitemap

-----------------------------------------------------------------------------

SInit == Init /\ sitemap = {} /\ before = Foreign

StartForeign ==
    /\ \E lines \in Lists, onlyEndpoints \in BOOLEAN : Start(lines, onlyEndpoints)
    /\ before' = Foreign
    /\ UNCHANGED sitemap

\* No row is inserted beyond the bound.
Importing ==
    /\ job.at = "reading"
    /\ Reading \/ Finish \/ Stop
    /\ DOMAIN trackers' \subseteq 1 .. MaxId
    /\ UNCHANGED <<sitemap, before>>

ByHand ==
    \E i \in DOMAIN trackers :
        \/ RemoveTracker(i) /\ UNCHANGED <<sitemap, before>>
        \/ /\ Purge(i)
           /\ sitemap' = sitemap \ {trackers[i].name}
           /\ UNCHANGED before

SNext ==
    \/ StartForeign
    \/ \E rows \in SUBSET MayBeListed, onlyEndpoints \in BOOLEAN :
         rows # {} /\ StartOwn(rows, onlyEndpoints)
    \/ Importing
    \/ ByHand
    \/ Sitemap

SSpec == SInit /\ [][SNext]_svars

-----------------------------------------------------------------------------
(* Properties.                                                              *)

\* Every endpoint on record belongs to a row there is, was listed for the name
\* of that row, and can be probed, whatever import was interrupted or worked
\* against; the exception for purges is EndpointsWereListed's.
WhatIsRecordedWasListed == RegistryIsSound /\ EndpointsWereListed

\* A link of the sitemap leads to a page for as long as the name is not purged,
\* also when it was retired since.
SitemapIsFollowable == \A name \in sitemap : StatusOfPage(name) = 200

\* A list the site serves, imported again into the same registry, adds no
\* endpoint and drops none, when nobody removes a name meanwhile.
OwnListIsNoNews ==
    job.at = "reading" /\ before.own /\ ~removed => endpoints = before.eps

=============================================================================
