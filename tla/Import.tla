-------------------------------- MODULE Import --------------------------------
(***************************************************************************)
(* Reading a list into the registry while names are removed and purged by  *)
(* hand: a transaction for each hostname and one for each endpoint, which  *)
(* is attached by the id its hostname had when it was met.  SQLite gives a *)
(* new row the id after the largest in use.                                *)
(* Source: internal/cli/cli.go, internal/store/trackers.go, probes.go.     *)
(***************************************************************************)
EXTENDS TrackerList

CONSTANTS
    Lists   \* the lists there are to read, each a set of lines

VARIABLES
    trackers,   \* id |-> name and enabled
    endpoints,  \* rows of endpoints, by the id of their tracker
    job         \* where the import is, with what it has read

\* Observers.
VARIABLES
    listed,     \* the endpoints of every list read so far
    purged,     \* a name was purged while an import was under way
    removed     \* a name was removed or purged since this import began

vars == <<trackers, endpoints, job, listed, purged, removed>>

Nobody == 0   \* the id of a hostname that is to be left alone
Idle == [at |-> "idle"]
Nothing == [x \in {} |-> 0]

Ids(name) == {i \in DOMAIN trackers : trackers[i].name = name}
Known(name) == Ids(name) # {}
Put(f, x, y) == [z \in DOMAIN f \cup {x} |-> IF z = x THEN y ELSE f[z]]

\* The id of the next row inserted.
NextIds ==
    {i \in {1} \cup {j + 1 : j \in DOMAIN trackers} : \A j \in DOMAIN trackers : j < i}

-----------------------------------------------------------------------------
(* import --file, import --url, with or without --endpoints-only; add reads *)
(* its arguments the same way.                                              *)

Start(lines, onlyEndpoints) ==
    /\ job.at = "idle"
    /\ job' = [at |-> "reading", left |-> ParseEndpoints(lines),
               eps |-> ParseEndpoints(lines), ids |-> Nothing, only |-> onlyEndpoints]
    /\ listed' = listed \cup ParseEndpoints(lines)
    /\ removed' = FALSE
    /\ UNCHANGED <<trackers, endpoints, purged>>

AddTrackerByLastId(name) ==   \* Mutant: the id of the row inserted last is taken.
    /\ job.at = "reading" /\ ~job.only
    /\ name \in Hosts(job.left) \ DOMAIN job.ids
    /\ \E i \in NextIds :
         /\ trackers' = IF Known(name)
                        THEN [j \in DOMAIN trackers |->
                                IF j \in Ids(name) THEN [trackers[j] EXCEPT !.enabled = TRUE]
                                ELSE trackers[j]]
                        ELSE Put(trackers, i, [name |-> name, enabled |-> TRUE])
         /\ job' = [job EXCEPT !.ids = Put(@, name, IF Known(name) THEN i - 1 ELSE i)]
    /\ UNCHANGED <<endpoints, listed, purged, removed>>

AddTrackerAsFound(name) ==   \* Mutant: a retired name is not enabled again.
    /\ job.at = "reading" /\ ~job.only
    /\ name \in Hosts(job.left) \ DOMAIN job.ids
    /\ \E i \in IF Known(name) THEN Ids(name) ELSE NextIds :
         /\ trackers' = IF Known(name) THEN trackers
                        ELSE Put(trackers, i, [name |-> name, enabled |-> TRUE])
         /\ job' = [job EXCEPT !.ids = Put(@, name, i)]
    /\ UNCHANGED <<endpoints, listed, purged, removed>>

\* A hostname met for the first time: AddTracker, which inserts it, or enables
\* it, or finds it.
AddTracker(name) ==
    /\ job.at = "reading" /\ ~job.only
    /\ name \in Hosts(job.left) \ DOMAIN job.ids
    /\ \E i \in IF Known(name) THEN Ids(name) ELSE NextIds :
         /\ trackers' = Put(trackers, i, [name |-> name, enabled |-> TRUE])
         /\ job' = [job EXCEPT !.ids = Put(@, name, i)]
    /\ UNCHANGED <<endpoints, listed, purged, removed>>

\* The same under --endpoints-only: TrackerByName.
Find(name) ==
    /\ job.at = "reading" /\ job.only
    /\ name \in Hosts(job.left) \ DOMAIN job.ids
    /\ \E i \in IF Known(name) THEN Ids(name) ELSE {Nobody} :
         job' = [job EXCEPT !.ids = Put(@, name, i)]
    /\ UNCHANGED <<trackers, endpoints, listed, purged, removed>>

\* AddEndpoint, where there is something to attach and something to attach it
\* to; a row that names no tracker violates the foreign key, which ends the
\* import.
Attach(ep) ==
    /\ job.at = "reading"
    /\ ep \in job.left /\ ep.host \in DOMAIN job.ids
    /\ LET i == job.ids[ep.host] IN
       IF i = Nobody \/ ~Probeable(ep)
       THEN job' = [job EXCEPT !.left = @ \ {ep}] /\ UNCHANGED endpoints
       ELSE IF i \in DOMAIN trackers
       THEN /\ endpoints' = endpoints \cup
                    {[tracker |-> i, scheme |-> ep.scheme, port |-> ep.port, path |-> ep.path]}
            /\ job' = [job EXCEPT !.left = @ \ {ep}]
       ELSE job' = Idle /\ UNCHANGED endpoints
    /\ UNCHANGED <<trackers, listed, purged, removed>>

Finish ==
    /\ job.at = "reading" /\ job.left = {}
    /\ job' = Idle
    /\ UNCHANGED <<trackers, endpoints, listed, purged, removed>>

\* The import is interrupted, or a transaction of it fails.
Stop ==
    /\ job.at = "reading"
    /\ job' = Idle
    /\ UNCHANGED <<trackers, endpoints, listed, purged, removed>>

-----------------------------------------------------------------------------
(* rm, in another process.                                                  *)

RemoveTracker(i) ==
    /\ trackers' = [trackers EXCEPT ![i].enabled = FALSE]
    /\ removed' = TRUE
    /\ UNCHANGED <<endpoints, job, listed, purged>>

PurgeKeepingEndpoints(i) ==   \* Mutant: foreign keys are not enforced.
    /\ trackers' = [j \in DOMAIN trackers \ {i} |-> trackers[j]]
    /\ purged' = (purged \/ job.at = "reading")
    /\ removed' = TRUE
    /\ UNCHANGED <<endpoints, job, listed>>

\* rm --purge: ON DELETE CASCADE takes the endpoints along.
Purge(i) ==
    /\ trackers' = [j \in DOMAIN trackers \ {i} |-> trackers[j]]
    /\ endpoints' = {e \in endpoints : e.tracker # i}
    /\ purged' = (purged \/ job.at = "reading")
    /\ removed' = TRUE
    /\ UNCHANGED <<job, listed>>

-----------------------------------------------------------------------------

Init ==
    /\ trackers = Nothing /\ endpoints = {}
    /\ job = Idle
    /\ listed = {} /\ purged = FALSE /\ removed = FALSE

Reading ==
    \/ \E name \in Hosts(job.left) : AddTracker(name) \/ Find(name)
    \/ \E ep \in job.left : Attach(ep)

Next ==
    \/ \E lines \in Lists, onlyEndpoints \in BOOLEAN : Start(lines, onlyEndpoints)
    \/ job.at = "reading" /\ Reading
    \/ Finish \/ Stop
    \/ \E i \in DOMAIN trackers : RemoveTracker(i) \/ Purge(i)

Spec == Init /\ [][Next]_vars

-----------------------------------------------------------------------------
(* Properties.                                                              *)

\* The endpoint of a row, as a list would name it.
EndpointOf(e) ==
    [host |-> trackers[e.tracker].name, scheme |-> e.scheme, port |-> e.port, path |-> e.path]

\* A name has one row, and an endpoint belongs to a tracker there is: a list
\* read twice, or beside rm, makes no second copy and no orphan.
RegistryIsSound ==
    /\ \A i, j \in DOMAIN trackers : trackers[i].name = trackers[j].name => i = j
    /\ \A e \in endpoints : e.tracker \in DOMAIN trackers

\* What is recorded can be probed, and some list named it for this very name,
\* unless a name was purged while an import was under way: the id the import
\* goes on with may by then be that of another name.
EndpointsWereListed ==
    /\ \A e \in endpoints : e.scheme \in {"udp", "http", "https"} /\ e.port > 0
    /\ ~purged => \A e \in endpoints : EndpointOf(e) \in listed

\* An import that was not interrupted and not worked against leaves every name
\* of its list enabled, with every endpoint there is a way to probe;
\* under --endpoints-only the endpoints of the names it knew.
ImportIsComplete ==
    job.at = "reading" /\ ~removed =>
        \A ep \in job.eps \ job.left :
            /\ ~job.only => \E i \in Ids(ep.host) : trackers[i].enabled
            /\ job.ids[ep.host] \in Ids(ep.host) /\ Probeable(ep) =>
                 \E e \in endpoints : EndpointOf(e) = ep

=============================================================================
