------------------------------ MODULE Preferences ------------------------------
(***************************************************************************)
(* The TCP ports a name advertises in DNS, settled by the probing passes:  *)
(* an advertised port that no endpoint answers on is tried under both      *)
(* schemes, what answers is adopted, and the dead endpoints of the port    *)
(* are retired, closing their rows, except the last one the pass knows.    *)
(* Each change is a transaction of its own.                                *)
(* Source: internal/collector/prober.go, internal/store/probes.go.         *)
(***************************************************************************)
EXTENDS Integers, Sequences, FiniteSets, SequencesExt

CONSTANTS
    Prober,     \* processes that probe
    Verdict,    \* what probing an endpoint can come to
    Endpoints,  \* the endpoints there may be, in the order ProbeTargets lists
    MaxPrefs    \* bound: how many ports a record names

ASSUME PreferencesAssumption ==
    /\ Endpoints \in Seq([scheme : {"http", "https", "udp"}, port : Nat, path : STRING])
    /\ Verdict \subseteq {"live", "dead", "unknown"}
    /\ MaxPrefs \in Nat

VARIABLES
    status,      \* endpoints: no row, in use, or with a retired_at
    rows,        \* probes: the endpoints with an open interval
    advertised,  \* trackers.bep34: the TCP ports, most preferred first
    serves,      \* the network: the endpoints that answer
    pass         \* where each prober is, with what it has read

vars == <<status, rows, advertised, serves, pass>>

Id == DOMAIN Endpoints
Port == {Endpoints[e].port : e \in {i \in Id : Endpoints[i].scheme # "udp"}}
announcePath == "/announce"

Open == {e \in Id : status[e] = "open"}
Idle == [at |-> "idle"]

\* endpointsOn: what a TCP preference could be describing.
endpointsOn(eps, port) ==
    {e \in eps : Endpoints[e].port = port /\ Endpoints[e].scheme \in {"http", "https"}}

\* schemesFor: the two readings of a port, the conventional one first.
schemesFor(port) ==
    IF port \in {443, 8443} THEN <<"https", "http">> ELSE <<"http", "https">>

\* What adopt finds on a port: the first scheme that none of at has and that
\* answers on the announce path; {} when there is none.
Discovered(port, at) ==
    LET tried == SelectSeq(schemesFor(port),
                    LAMBDA s : \A e \in at : Endpoints[e].scheme # s)
        found(s) == {e \in serves : Endpoints[e] =
                        [scheme |-> s, port |-> port, path |-> announcePath]}
        answering == SelectSeq(tried, LAMBDA s : found(s) # {})
    IN  IF answering = <<>> THEN {} ELSE found(Head(answering))

-----------------------------------------------------------------------------
(* Around the probers.                                                      *)

\* AddEndpoint: import, add.  A retired endpoint stays retired.
AddEndpoint(e) ==
    /\ status[e] = "absent"
    /\ status' = [status EXCEPT ![e] = "open"]
    /\ UNCHANGED <<rows, advertised, serves, pass>>

\* SetBEP34, on a collecting pass: Parse names each port once.
SetBEP34(ports) ==
    /\ advertised' = ports
    /\ UNCHANGED <<status, rows, serves, pass>>

\* What answers on the network changes.
Change ==
    /\ serves' \in SUBSET Id
    /\ UNCHANGED <<status, rows, advertised, pass>>

-----------------------------------------------------------------------------
(* A pass.                                                                  *)

\* ProbeTargets: a name without an endpoint in use is not probed.
Target(p) ==
    /\ pass[p].at = "idle"
    /\ Open # {}
    /\ pass' = [pass EXCEPT ![p] = [at |-> "probing", eps |-> Open, ports |-> advertised]]
    /\ UNCHANGED <<status, rows, advertised, serves>>

\* runJobs, with the verdicts merge comes to.
Probe(p) ==
    LET here == pass[p] IN
    /\ here.at = "probing"
    /\ \E said \in [here.eps -> Verdict] :
         /\ \A e \in here.eps : said[e] = "live" <=> e \in serves
         /\ pass' = [pass EXCEPT ![p] =
                [at |-> "exploring", eps |-> here.eps, ports |-> here.ports,
                 said |-> said, left |-> Cardinality(here.eps), retired |-> {}]]
    /\ UNCHANGED <<status, rows, advertised, serves>>

\* Mutant: a port with an endpoint on it is not tried under the other scheme.
ExploreBare(p) ==
    LET here == pass[p]
        port == Head(here.ports)
        at   == endpointsOn(here.eps, port)
        met  == \E e \in at : here.said[e] = "live"
    IN  /\ here.at = "exploring" /\ here.ports # <<>>
        /\ status' = IF at # {} THEN status
                     ELSE [e \in Id |-> IF e \in Discovered(port, at) THEN "open" ELSE status[e]]
        /\ pass' = [pass EXCEPT
               ![p].at    = IF met THEN "exploring" ELSE "retiring",
               ![p].ports = IF met THEN Tail(@) ELSE @]
        /\ UNCHANGED <<rows, advertised, serves>>

\* preferences, one port: a met preference is passed over, else adopt.
Explore(p) ==
    LET here == pass[p]
        port == Head(here.ports)
        at   == endpointsOn(here.eps, port)
        met  == \E e \in at : here.said[e] = "live"
    IN  /\ here.at = "exploring" /\ here.ports # <<>>
        /\ status' = IF met THEN status
                     ELSE [e \in Id |-> IF e \in Discovered(port, at) THEN "open" ELSE status[e]]
        /\ pass' = [pass EXCEPT
               ![p].at    = IF met THEN "exploring" ELSE "retiring",
               ![p].ports = IF met THEN Tail(@) ELSE @]
        /\ UNCHANGED <<rows, advertised, serves>>

\* The dead endpoints of the port that are still to be retired.
Unserved(here) ==
    {e \in endpointsOn(here.eps, Head(here.ports)) \ here.retired : here.said[e] = "dead"}

First(ids) == CHOOSE e \in ids : \A i \in ids : e <= i

\* RetireEndpoint, its PutProbes: the next one, unless it is the last left.
Close(p) ==
    LET here == pass[p] IN
    /\ here.at = "retiring" /\ here.left > 1 /\ Unserved(here) # {}
    /\ rows' = rows \ {First(Unserved(here))}
    /\ pass' = [pass EXCEPT ![p].at = "marking"]
    /\ UNCHANGED <<status, advertised, serves>>

MarkUncounted(p) ==   \* Mutant: what is left is not counted down.
    LET here == pass[p]
        e    == First(Unserved(here))
    IN  /\ here.at = "marking"
        /\ status' = [status EXCEPT ![e] = "retired"]
        /\ pass' = [pass EXCEPT ![p].at = "retiring", ![p].retired = @ \cup {e}]
        /\ UNCHANGED <<rows, advertised, serves>>

\* RetireEndpoint, its UPDATE.
Mark(p) ==
    LET here == pass[p]
        e    == First(Unserved(here))
    IN  /\ here.at = "marking"
        /\ status' = [status EXCEPT ![e] = "retired"]
        /\ pass' = [pass EXCEPT ![p].at = "retiring", ![p].left = @ - 1,
                                ![p].retired = @ \cup {e}]
        /\ UNCHANGED <<rows, advertised, serves>>

\* On to the next port.
Onward(p) ==
    LET here == pass[p] IN
    /\ here.at = "retiring"
    /\ here.left <= 1 \/ Unserved(here) = {}
    /\ pass' = [pass EXCEPT ![p].at = "exploring", ![p].ports = Tail(@)]
    /\ UNCHANGED <<status, rows, advertised, serves>>

PutAll(p) ==   \* Mutant: what the pass retired is stored as well.
    LET here == pass[p] IN
    /\ here.at = "exploring" /\ here.ports = <<>>
    /\ rows' = rows \cup here.eps
    /\ pass' = [pass EXCEPT ![p] = Idle]
    /\ UNCHANGED <<status, advertised, serves>>

\* PutProbes for what the pass has not retired.
Put(p) ==
    LET here == pass[p] IN
    /\ here.at = "exploring" /\ here.ports = <<>>
    /\ rows' = rows \cup (here.eps \ here.retired)
    /\ pass' = [pass EXCEPT ![p] = Idle]
    /\ UNCHANGED <<status, advertised, serves>>

\* The pass is cancelled, the process stops, or a transaction fails.
Stop(p) ==
    /\ pass[p].at # "idle"
    /\ pass' = [pass EXCEPT ![p] = Idle]
    /\ UNCHANGED <<status, rows, advertised, serves>>

-----------------------------------------------------------------------------

Init ==
    /\ status = [e \in Id |-> "absent"]
    /\ rows = {}
    /\ advertised = <<>>
    /\ serves = {}
    /\ pass = [p \in Prober |-> Idle]

\* A record names each port once.
Record == {ports \in BoundedSeq(Port, MaxPrefs) : IsInjective(ports)}

Pass(p) ==
    Target(p) \/ Probe(p) \/ Explore(p) \/ Close(p) \/ Mark(p) \/ Onward(p) \/ Put(p)

Work ==
    \/ \E p \in Prober : Pass(p)
    \/ \E e \in Id : AddEndpoint(e)
    \/ \E ports \in Record : SetBEP34(ports)
    \/ Change

Next == Work \/ \E p \in Prober : Stop(p)

Spec == Init /\ [][Next]_vars

\* Passes begin and go on; nothing else is owed.
FairSpec == Spec /\ \A p \in Prober : WF_vars(Pass(p))

-----------------------------------------------------------------------------
(* Properties.                                                              *)

TypeOK ==
    /\ status \in [Id -> {"absent", "open", "retired"}]
    /\ rows \subseteq Id
    /\ advertised \in Record
    /\ serves \subseteq Id
    /\ \A p \in Prober :
         pass[p].at \in {"idle", "probing", "exploring", "retiring", "marking"}

\* The last endpoint of a name is never retired: a name with nothing to probe
\* reads unknown, which says less than dead.
LastEndpointStays == (\E e \in Id : status[e] # "absent") => Open # {}

\* Retiring an endpoint closes its rows, and nothing opens one again while it
\* stays retired.
RetiredIsClosed == \A e \in Id : status[e] = "retired" => e \notin rows

PreferencesInv == TypeOK /\ RetiredIsClosed

\* The endpoints adopt can find.
Discoverable ==
    {e \in Id : Endpoints[e].scheme \in {"http", "https"} /\ Endpoints[e].path = announcePath}

\* An endpoint with a path of its own keeps adopt from trying the scheme of e:
\* it does not answer, and it stays in use as the last one of the name, or for
\* a pass cannot tell that it is dead.
Obstructed(e) ==
    \E o \in Open \ serves :
        /\ Endpoints[o].port = Endpoints[e].port
        /\ Endpoints[o].scheme = Endpoints[e].scheme
        /\ Endpoints[o].path # announcePath
        /\ \/ Open = {o}
           \/ \E p \in Prober : /\ pass[p].at \in {"exploring", "retiring", "marking"}
                                /\ o \in pass[p].eps /\ pass[p].said[o] = "unknown"

\* An advertised port that answers on the announce path under one of the
\* schemes, and goes on doing so, is again and again met by an endpoint in use
\* that answers, whatever was retired on it before, once passes are no longer
\* stopped; or again and again its scheme is obstructed, which is the one way
\* preferences and adopt can leave it aside.
PortIsMet ==
    \A e \in Discoverable : LET port == Endpoints[e].port IN
        (/\ <>[](port \in ToSet(advertised) /\ e \in serves /\ Open # {})
         /\ <>[][Work]_vars)
            => []<>(\/ \E o \in Open : o \in serves /\ Endpoints[o].port = port
                    \/ Obstructed(e))

=============================================================================
