------------------------------ MODULE TrackerList ------------------------------
(***************************************************************************)
(* Announce URLs: the lines of a published list, and the endpoints they    *)
(* name.  Letter case, a trailing dot, user info and a query are gone by   *)
(* the time a line is a record of this module.                             *)
(* Source: internal/trackerlist/trackerlist.go.                            *)
(***************************************************************************)
EXTENDS Integers

\* What a line may be: nothing to read, not a URL, or a URL whose scheme is ""
\* when none was stated, whose port is 0 and whose path is "" when left out.
\* A host is a DNS name of N, or one of the kinds that are not.
Line(N, Schemes, Ports, Paths) ==
    [kind : {"blank", "comment", "malformed", "url"},
     host : [kind : {"none", "literal", "overlay", "invalid"}] \cup [kind : {"name"}, name : N],
     scheme : Schemes \cup {""}, port : Ports \cup {0}, path : Paths \cup {""}]

defaultPorts(scheme) ==
    CASE scheme = "http"  -> 80
      [] scheme = "https" -> 443
      [] scheme = "udp"   -> 6969
      [] OTHER            -> 0

announcePath == "/announce"

\* ParseEndpoint returns no error, and ParseEndpoints does not pass it over.
Usable(line) == line.kind = "url" /\ line.host.kind = "name"

\* ParseEndpoint of a usable line.
ParseEndpoint(line) ==
    [host   |-> line.host.name,
     scheme |-> line.scheme,
     port   |-> IF line.port = 0 THEN defaultPorts(line.scheme) ELSE line.port,
     path   |-> IF line.path = "" THEN announcePath ELSE line.path]

\* Each endpoint once, however many lines name it.
ParseEndpoints(lines) == {ParseEndpoint(line) : line \in {l \in lines : Usable(l)}}
Hosts(eps) == {ep.host : ep \in eps}

\* The transports the prober speaks.
Probeable(ep) == ep.scheme \in {"udp", "http", "https"} /\ ep.port > 0

\* String: how an endpoint is written, in a client list too.
Written(ep) ==
    [kind |-> "url", host |-> [kind |-> "name", name |-> ep.host], scheme |-> ep.scheme,
     port |-> IF ep.scheme = "" THEN 0 ELSE ep.port,
     path |-> IF ep.scheme = "" THEN "" ELSE ep.path]

=============================================================================
