-------------------------------- MODULE MCSite --------------------------------
(* An instance of Site for TLC: two names on lists that overlap, leave ports *)
(* and paths to their defaults, name one bare and hold lines to be passed    *)
(* over.                                                                     *)
EXTENDS Site

CONSTANTS n1, n2

URL(name, scheme, port, path) ==
    [kind |-> "url", host |-> [kind |-> "name", name |-> name],
     scheme |-> scheme, port |-> port, path |-> path]
Comment == [URL(n1, "udp", 0, "") EXCEPT !.kind = "comment"]
Overlay == [URL(n1, "http", 0, "") EXCEPT !.host = [kind |-> "overlay"]]

MCLists ==
    {{URL(n1, "udp", 0, ""), URL(n1, "udp", 6969, "/announce"), URL(n2, "http", 81, "/x"), Comment},
     {URL(n1, "", 0, ""), URL(n2, "wss", 0, ""), Overlay}}

=============================================================================
