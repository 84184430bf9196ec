------------------------------- MODULE Resolver -------------------------------
(***************************************************************************)
(* One lookup of one name for addresses of one family: the servers in      *)
(* turn, each tried several times, until one of them replies.  What the    *)
(* network does is a script, one entry per attempt.                        *)
(* Source: internal/resolver/resolver.go.                                  *)
(***************************************************************************)
EXTENDS Integers, Sequences

\* A reply carries its valid addresses of the family asked for; CNAMEs and
\* records of other types are passed over, as in fromReply.
Replies(A) ==
    [rcode : {"success", "nxdomain", "servfail", "refused", "other"},
     answer : SUBSET A]

\* One attempt: the context is over before it, the exchange over UDP fails,
\* or there is a reply; a truncated one is asked for again over TCP.
Attempts(A) ==
    [udp : {"expired", "timeout", "failed", "reply"}, reply : Replies(A),
     truncated : BOOLEAN, tcp : {"failed", "reply"}, tcpReply : Replies(A)]

\* The reply an attempt ends with: the UDP one is kept when TCP fails.
Final(attempt) ==
    IF attempt.truncated /\ attempt.tcp = "reply" THEN attempt.tcpReply ELSE attempt.reply

fromReply(reply) ==
    CASE reply.rcode = "success" ->
           [status |-> IF reply.answer = {} THEN "nodata" ELSE "ok", addrs |-> reply.answer]
      [] reply.rcode = "nxdomain" -> [status |-> "nxdomain", addrs |-> {}]
      [] reply.rcode \in {"servfail", "refused"} -> [status |-> "servfail", addrs |-> {}]
      [] OTHER -> [status |-> "error", addrs |-> {}]

classifyErr(udp) ==
    [status |-> IF udp = "timeout" THEN "timeout" ELSE "error", addrs |-> {}]

\* The attempts that end the lookup.
Deciding(script) == {i \in DOMAIN script : script[i].udp \in {"expired", "reply"}}
First(is) == CHOOSE i \in is : \A j \in is : i <= j

\* Lookup: the first attempt that ends it does; a lookup none of them ended
\* fails the way the last one did.
Lookup(script) ==
    IF Deciding(script) # {}
    THEN LET attempt == script[First(Deciding(script))]
         IN  IF attempt.udp = "expired" THEN classifyErr("timeout")
             ELSE fromReply(Final(attempt))
    ELSE IF script = <<>> THEN [status |-> "error", addrs |-> {}]
    ELSE classifyErr(script[Len(script)].udp)

=============================================================================
