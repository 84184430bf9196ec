-------------------------------- MODULE Contact --------------------------------
(***************************************************************************)
(* One probe of one endpoint on one address: over UDP a connect request,   *)
(* sent again when nothing answers, on a network that loses, delays and    *)
(* repeats datagrams; over HTTP a scrape, an announce when the scrape      *)
(* settled nothing, and a request made to be refused when the tracker has  *)
(* not named itself.                                                       *)
(* Source: internal/prober/prober.go, internal/prober/signature.go.        *)
(***************************************************************************)
EXTENDS Integers, FiniteSets

CONSTANTS
    Scheme,       \* the schemes probed
    udpAttempts,  \* how many connect requests one probe sends
    MaxWire       \* bound: datagrams under way

ASSUME ContactAssumption ==
    /\ Scheme \subseteq {"udp", "http", "https"}
    /\ udpAttempts \in Nat \ {0}
    /\ MaxWire \in Nat

VARIABLES
    scheme,   \* of the endpoint
    at,       \* where the probe is
    tries,    \* connect requests sent so far, and the socket of the last one
    reached,  \* those that got through to the other end
    wire,     \* datagrams on their way back
    held,     \* the answer held while another request is made
    result

\* Observers: what came in, and whether the network refused or failed at once.
VARIABLES heard, refused

vars == <<scheme, at, tries, reached, wire, held, result, heard, refused>>

None == [state |-> "none", sig |-> {}, kind |-> ""]
Plain(state) == [state |-> state, sig |-> {}, kind |-> ""]

-----------------------------------------------------------------------------
(* UDP.                                                                     *)

\* A datagram to the socket of an attempt.  The transaction id is random: only
\* who got the request knows it, and the one of the attempt stands for itself.
\* "other" is an action that is no reply to connect, short less than 16 bytes.
Datagram ==
    [to : 1 .. udpAttempts, txid : 0 .. udpAttempts,
     says : {"connect", "error", "other"}, short : BOOLEAN, from : {"tracker", "other"}]

\* The other end answers a request that got there, or something else on the
\* port sends what it likes.  A tracker says connect, in 16 bytes, or error,
\* in 8 and the message, which need not be 8 more.
Answer ==
    /\ Cardinality(wire) < MaxWire
    /\ \E d \in Datagram :
         /\ d.to \in reached
         /\ d.from = "tracker" =>
              /\ d.txid = d.to
              /\ d.says = "error" \/ (d.says = "connect" /\ ~d.short)
         /\ d.from = "other" => d.txid = 0 \/ (d.txid = d.to /\ (d.says = "other" \/ d.short))
         /\ wire' = wire \cup {d}
    /\ UNCHANGED <<scheme, at, tries, reached, held, result, heard, refused>>

\* udpConnect: a socket of its own and one request, which may be lost; or the
\* dial or the write fails, also because the probe was cancelled.
Connect ==
    /\ at = "connect"
    /\ \/ /\ at' = "waiting"
          /\ tries' = tries + 1
          /\ reached' \in {reached, reached \cup {tries + 1}}
          /\ UNCHANGED <<result, refused>>
       \/ /\ at' = "done"
          /\ result' = Plain("unreachable")
          /\ refused' = TRUE
          /\ UNCHANGED <<tries, reached>>
    /\ UNCHANGED <<scheme, wire, held, heard>>

\* Mutant: whatever comes in is read as an answer.
JudgeAnyone(d) ==
    IF d.says \in {"connect", "error"} THEN "live" ELSE "dead"
\* What udpConnect makes of the first datagram it reads.
Judge(d) ==
    IF ~d.short /\ d.txid = tries /\ d.says \in {"connect", "error"}
    THEN "live" ELSE "dead"

ReceiveOnOneSocket ==   \* Mutant: both attempts share a socket.
    /\ at = "waiting"
    /\ \E d \in wire :
         /\ result' = Plain(Judge(d))
         /\ heard' = heard \cup {d}
         /\ wire' \in {wire, wire \ {d}}
    /\ at' = "done"
    /\ UNCHANGED <<scheme, tries, reached, held, refused>>

\* A datagram reaches the socket of the attempt under way and ends the probe,
\* whatever it says; one for a socket closed since is dropped.
Receive ==
    /\ at = "waiting"
    /\ \E d \in wire :
         /\ d.to = tries
         /\ result' = Plain(Judge(d))
         /\ heard' = heard \cup {d}
         /\ wire' \in {wire, wire \ {d}}
    /\ at' = "done"
    /\ UNCHANGED <<scheme, tries, reached, held, refused>>

\* The port is closed: an answer of sorts.
Refuse ==
    /\ at = "waiting"
    /\ at' = "done"
    /\ result' = Plain("unreachable")
    /\ refused' = TRUE
    /\ UNCHANGED <<scheme, tries, reached, wire, held, heard>>

SilenceOnce ==   \* Mutant: the first silence is believed.
    /\ at = "waiting"
    /\ result' = Plain("unreachable")
    /\ at' = "done"
    /\ UNCHANGED <<scheme, tries, reached, wire, held, heard, refused>>

SilenceForever ==   \* Mutant: silence is asked again until it ends.
    /\ at = "waiting"
    /\ result' = Plain("unreachable")
    /\ at' = "connect"
    /\ tries' = tries - 1
    /\ UNCHANGED <<scheme, reached, wire, held, heard, refused>>

\* The attempt's share of the budget is over: probeUDP asks again, or gives up.
Silence ==
    /\ at = "waiting"
    /\ result' = Plain("unreachable")
    /\ at' = IF tries < udpAttempts THEN "connect" ELSE "done"
    /\ UNCHANGED <<scheme, tries, reached, wire, held, heard, refused>>

-----------------------------------------------------------------------------
(* HTTP.                                                                    *)

\* What a request can come to: none made, no response, turned away (429, 503),
\* a page, or a body that opens like a dictionary: the keys that arrived, also
\* when it was cut short, whether it can be decoded, and whether a text is
\* left of its failure reason.
Keys == {"failure reason", "files", "interval"}
Bare(what) == [at |-> what, keys |-> {}, sound |-> FALSE, worded |-> FALSE]
Response ==
    {Bare(what) : what \in {"unmade", "silent", "throttled", "page"}}
      \cup {r \in [at : {"dict"}, keys : SUBSET Keys, sound : BOOLEAN, worded : BOOLEAN] :
              r.worded => r.sound /\ "failure reason" \in r.keys}

\* bencoded: only the opening is looked at, and before the status.
bencoded(response) == response.at = "dict"

decode(response) == IF response.sound THEN response.keys ELSE {}

\* signature: the failure text, or the shape of the keys.
signature(response) ==
    CASE response.worded -> [sig |-> {"text"}, kind |-> "failure"]
      [] ~response.worded /\ decode(response) # {} ->
            [sig |-> decode(response), kind |-> "shape"]
      [] OTHER -> [sig |-> {}, kind |-> ""]

identifies(sig) == sig \notin {{}, {"files"}}

\* request, and whether the server replied in a way worth asking again after.
request(response) ==
    CASE bencoded(response) ->
            [state |-> "live", sig |-> signature(response).sig,
             kind |-> signature(response).kind]
      [] response.at = "page" -> Plain("dead")
      [] response.at = "silent" -> Plain("unreachable")
      [] OTHER -> Plain("unknown")
answered(response) == bencoded(response) \/ response.at = "page"

\* probeHTTP once answer returned: a live tracker that gave no failure text is
\* asked for one.
Settle(res) ==
    IF res.state = "live" /\ res.kind # "failure"
    THEN /\ at' = "incomplete" /\ held' = res /\ UNCHANGED result
    ELSE /\ at' = "done" /\ result' = res /\ UNCHANGED held

Hear(response) ==
    /\ heard' = heard \cup {[step |-> at, response |-> response]}
    /\ UNCHANGED <<scheme, tries, reached, wire, refused>>

\* answer: the scrape, which settles it when it names the software or when
\* there was no reply to ask again after.
Scrape(response) ==
    LET res == request(response) IN
    /\ at = "scrape"
    /\ IF (res.state = "live" /\ identifies(res.sig)) \/ ~answered(response)
       THEN Settle(res)
       ELSE /\ at' = "announce" /\ held' = res /\ UNCHANGED result
    /\ Hear(response)

AnnounceLast(response) ==   \* Mutant: the last word decides.
    /\ at = "announce"
    /\ Settle(request(response))
    /\ Hear(response)

AnnounceUnlessLive(response) ==   \* Mutant: a live scrape is kept as it is.
    /\ at = "announce"
    /\ Settle(IF held.state = "live" THEN held ELSE
              IF request(response).state = "live" THEN request(response) ELSE held)
    /\ Hear(response)

\* answer: the announce counts when it proves or discloses more.
Announce(response) ==
    LET fallback == request(response) IN
    /\ at = "announce"
    /\ Settle(IF fallback.state = "live" /\ (held.state # "live" \/ identifies(fallback.sig))
              THEN fallback ELSE held)
    /\ Hear(response)

\* probeHTTP: only the wording of a refusal is taken.
Incomplete(response) ==
    LET refusal == request(response) IN
    /\ at = "incomplete"
    /\ at' = "done"
    /\ result' = IF refusal.kind = "failure"
                 THEN [held EXCEPT !.sig = refusal.sig, !.kind = "failure"] ELSE held
    /\ UNCHANGED held
    /\ Hear(response)

-----------------------------------------------------------------------------

Init ==
    /\ scheme \in Scheme
    /\ at = IF scheme = "udp" THEN "connect" ELSE "scrape"
    /\ tries = 0 /\ reached = {} /\ wire = {}
    /\ held = None /\ result = None
    /\ heard = {} /\ refused = FALSE

UDP == Connect \/ Receive \/ Refuse \/ Silence
HTTP == \E response \in Response :
            Scrape(response) \/ Announce(response) \/ Incomplete(response)

Next == UDP \/ HTTP \/ Answer

\* Every request has a timeout.
Spec == Init /\ [][Next]_vars /\ WF_vars(UDP) /\ WF_vars(HTTP)

-----------------------------------------------------------------------------
(* Properties.                                                              *)

TypeOK ==
    /\ at \in {"connect", "waiting", "scrape", "announce", "incomplete", "done"}
    /\ tries \in 0 .. udpAttempts /\ reached \subseteq 1 .. tries
    /\ wire \subseteq Datagram
    /\ {held, result} \subseteq
         [state : {"none", "live", "dead", "unreachable", "unknown"},
          sig : SUBSET (Keys \cup {"text"}), kind : {"", "failure", "shape"}]
    /\ at = "done" => result # None

Over == at = "done"
Responses == IF scheme = "udp" THEN {} ELSE {h.response : h \in heard}

\* A UDP verdict is what the other end of this probe proved: live is the
\* answer of a tracker, no datagram of anyone else; and however late, repeated
\* or lost its datagrams are, a tracker alone on its port is called dead only
\* for an error it reported in fewer than 8 bytes, which is thrown away unread.
VerdictIsProven ==
    Over /\ scheme = "udp" =>
        /\ result.state = "live" => \E d \in heard : d.from = "tracker"
        /\ result.state = "dead" =>
              \E d \in heard : d.from = "other" \/ (d.says = "error" /\ d.short)

\* One silence is not an answer: a UDP endpoint is unreachable after
\* udpAttempts requests, or a refusal.
AskedEnough ==
    Over /\ scheme = "udp" /\ result.state = "unreachable" => refused \/ tries = udpAttempts

ContactInv == TypeOK /\ AskedEnough

\* "A bencoded reply is the proof", whatever the requests after it came to.
ProofStands ==
    Over /\ (\E r \in Responses : bencoded(r)) => result.state = "live"

\* A tracker's own words, once heard in any of the requests, are what is kept.
WordsAreKept == Over /\ (\E r \in Responses : r.worded) => result.kind = "failure"

\* What one of the requests of a probe proved or disclosed, no failure of
\* another takes back.
EvidenceStands == ProofStands /\ WordsAreKept

\* Every probe comes to a verdict.
ComesToAVerdict == <>Over

\* README: "a CDN answering `429`, records `unknown`", and prober.go: "Being
\* turned away is not evidence the tracker is gone".
TurnedAwayIsNotDead == Over /\ Bare("throttled") \in Responses => result.state # "dead"

=============================================================================
