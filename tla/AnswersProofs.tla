---------------------------- MODULE AnswersProofs ----------------------------
(***************************************************************************)
(* What the tracker asks of the network and makes of the answers, whatever *)
(* the servers do: a lookup in DNS, a probe of an endpoint, and the        *)
(* verdict that a name is parked.                                          *)
(***************************************************************************)
EXTENDS Contact, Parking, Resolver, WellFoundedInduction, TLAPS

-----------------------------------------------------------------------------
(* One lookup in DNS.                                                       *)

\* Of the attempts that end a lookup there is a first one.
LEMMA FirstDecides ==
    ASSUME NEW A, NEW script \in Seq(Attempts(A)), Deciding(script) # {}
    PROVE  /\ First(Deciding(script)) \in Deciding(script)
           /\ \A j \in Deciding(script) : First(Deciding(script)) <= j
  <1> DEFINE Less == {ss \in Nat \X Nat : ss[1] < ss[2]}
  <1>1. Deciding(script) \subseteq Nat
    BY DEF Deciding
  <1>2. \E i \in Deciding(script) : \A j \in Deciding(script) : i <= j
    <2>1. IsWellFoundedOn(Less, Nat)
      BY NatLessThanWellFounded DEF OpToRel
    <2>2. PICK i \in Deciding(script) : \A j \in Deciding(script) : <<j, i>> \notin Less
      <3> HIDE DEF Less
      <3> QED BY <1>1, <2>1, WFMin
    <2>3. ASSUME NEW j \in Deciding(script) PROVE i <= j
      <3>1. ~(j < i)
        BY <1>1, <2>2
      <3> QED BY <1>1, <3>1
    <2> QED BY <2>3
  <1> QED
    BY <1>2 DEF First

\* A lookup nobody replied to fails.
LEMMA UnansweredFails ==
    ASSUME NEW A, NEW script \in Seq(Attempts(A)), Deciding(script) = {}
    PROVE  Lookup(script).status \in {"timeout", "error"} /\ Lookup(script).addrs = {}
  BY DEF Lookup, classifyErr

\* A reply is read as a result.
LEMMA ReplyIsResult ==
    ASSUME NEW A, NEW reply \in Replies(A)
    PROVE  /\ fromReply(reply).status \in {"ok", "nodata", "nxdomain", "servfail", "error"}
           /\ fromReply(reply).addrs \in SUBSET A
           /\ fromReply(reply).status = "ok" <=> fromReply(reply).addrs # {}
  <1>1. CASE reply.rcode = "success" /\ reply.answer = {}
    <2>1. fromReply(reply) = [status |-> "nodata", addrs |-> {}]
      BY <1>1 DEF fromReply
    <2> QED BY <2>1
  <1>2. CASE reply.rcode = "success" /\ reply.answer # {}
    <2>1. fromReply(reply) = [status |-> "ok", addrs |-> reply.answer]
      BY <1>2 DEF fromReply
    <2> QED BY <1>2, <2>1 DEF Replies
  <1>3. CASE reply.rcode # "success"
    <2>1. \E status \in {"nxdomain", "servfail", "error"} :
            fromReply(reply) = [status |-> status, addrs |-> {}]
      BY <1>3 DEF fromReply
    <2> QED BY <2>1
  <1> QED BY <1>1, <1>2, <1>3

\* What a lookup comes back with is what module AddressHistory starts from
\* (its Result): one of six statuses, and addresses exactly when it is ok.
THEOREM LookupIsResult ==
    ASSUME NEW A, NEW script \in Seq(Attempts(A))
    PROVE  /\ Lookup(script).status \in
                {"ok", "nodata", "nxdomain", "servfail", "timeout", "error"}
           /\ Lookup(script).addrs \in SUBSET A
           /\ Lookup(script).status = "ok" <=> Lookup(script).addrs # {}
  <1>1. CASE Deciding(script) = {}
    BY <1>1, UnansweredFails
  <1>2. CASE Deciding(script) # {}
    <2> DEFINE attempt == script[First(Deciding(script))]
    <2>1. First(Deciding(script)) \in DOMAIN script
      BY <1>2, FirstDecides DEF Deciding
    <2>2. attempt \in Attempts(A)
      BY <2>1
    <2> HIDE DEF attempt
    <2>3. Final(attempt) \in Replies(A)
      BY <2>2 DEF Final, Attempts
    <2>4. /\ fromReply(Final(attempt)).status \in
                {"ok", "nodata", "nxdomain", "servfail", "timeout", "error"}
          /\ fromReply(Final(attempt)).addrs \in SUBSET A
          /\ fromReply(Final(attempt)).status = "ok"
                <=> fromReply(Final(attempt)).addrs # {}
      BY <2>3, ReplyIsResult
    <2>5. Lookup(script) = IF attempt.udp = "expired" THEN classifyErr("timeout")
                           ELSE fromReply(Final(attempt))
      BY <1>2 DEF Lookup, attempt
    <2>6. CASE attempt.udp = "expired"
      BY <2>5, <2>6 DEF classifyErr
    <2>7. CASE attempt.udp # "expired"
      BY <2>4, <2>5, <2>7
    <2> QED BY <2>6, <2>7
  <1> QED BY <1>1, <1>2

\* A lookup that comes back with addresses comes back with all the addresses
\* of one reply to one attempt, over UDP or over TCP, and no attempt before
\* that one was replied to: Lookup never puts an answer together out of what
\* several servers said, which would make absences out of disagreements.
THEOREM AnswersComeFromOneReply ==
    ASSUME NEW A, NEW script \in Seq(Attempts(A)), Lookup(script).addrs # {}
    PROVE  \E i \in DOMAIN script :
             /\ script[i].udp = "reply"
             /\ \A j \in DOMAIN script : j < i => script[j].udp \in {"timeout", "failed"}
             /\ \E reply \in {script[i].reply, script[i].tcpReply} :
                  reply.rcode = "success" /\ Lookup(script).addrs = reply.answer
  <1> DEFINE i == First(Deciding(script))
  <1>1. Deciding(script) # {}
    BY UnansweredFails
  <1>2. i \in Deciding(script) /\ \A j \in Deciding(script) : i <= j
    BY <1>1, FirstDecides
  <1>3. DOMAIN script \subseteq Nat /\ \A j \in DOMAIN script : script[j] \in Attempts(A)
    OBVIOUS
  <1>4. i \in DOMAIN script /\ script[i] \in Attempts(A)
    BY <1>2, <1>3 DEF Deciding
  <1> HIDE DEF i
  <1>5. script[i].udp = "reply" /\ Lookup(script) = fromReply(Final(script[i]))
    BY <1>1, <1>2 DEF Lookup, classifyErr, Deciding, i
  <1>6. Final(script[i]) \in {script[i].reply, script[i].tcpReply} \cap Replies(A)
    BY <1>4 DEF Final, Attempts
  <1>7. /\ Final(script[i]).rcode = "success"
        /\ Lookup(script).addrs = Final(script[i]).answer
    BY <1>5, <1>6 DEF fromReply, Replies
  <1>8. \A j \in DOMAIN script : j < i => script[j].udp \in {"timeout", "failed"}
    <2>1. SUFFICES ASSUME NEW j \in DOMAIN script, j < i
                   PROVE  script[j].udp \in {"timeout", "failed"}
      OBVIOUS
    <2>2. j \notin Deciding(script)
      BY <1>2, <1>3, <1>4, <2>1
    <2> QED
      BY <1>3, <2>1, <2>2 DEF Deciding, Attempts
  <1> QED
    BY <1>4, <1>5, <1>6, <1>7, <1>8

-----------------------------------------------------------------------------
(* One probe of one endpoint.                                               *)

Verdicts == {"live", "dead", "unreachable", "unknown"}
AnswerShape ==
    [state : Verdicts \cup {"none"}, sig : SUBSET (Keys \cup {"text"}),
     kind : {"", "failure", "shape"}]

\* A datagram on the way was sent to an attempt that got through, and only a
\* tracker knows its transaction and replies as one.
Honest(d) ==
    /\ d \in Datagram
    /\ d.from = "tracker" => d.txid = d.to /\ (d.says = "error" \/ (d.says = "connect" /\ ~d.short))
    /\ d.from = "other" => d.txid = 0 \/ d.says = "other" \/ d.short

\* The strengthening over UDP: how far the attempts have come.
AttemptsAre ==
    /\ tries \in 0 .. udpAttempts /\ reached \subseteq 1 .. tries
    /\ \A d \in wire : Honest(d)
    /\ at \in {"connect", "waiting"} => scheme = "udp"
    /\ at = "connect" => tries < udpAttempts
    /\ at = "waiting" => tries > 0

\* The strengthening over HTTP: what is held while another request is made is
\* all that the requests so far proved.
HeldIsProof ==
    /\ at \in {"scrape", "announce", "incomplete"} => scheme # "udp"
    /\ at = "scrape" => heard = {}
    /\ at \in {"announce", "incomplete"} =>
         /\ held.state # "none"
         /\ \A r \in Responses : ~r.worded
         /\ (\E r \in Responses : bencoded(r)) => held.state = "live"
    /\ at = "incomplete" => held.state = "live"

ContactStrengthening ==
    /\ at \in {"connect", "waiting", "scrape", "announce", "incomplete", "done"}
    /\ held \in AnswerShape /\ result \in AnswerShape
    /\ Over => result.state # "none"
    /\ AttemptsAre /\ HeldIsProof
    /\ AskedEnough /\ VerdictIsProven /\ EvidenceStands

-----------------------------------------------------------------------------

\* An answer without a signature.
LEMMA PlainIs ==
    ASSUME NEW state \in Verdicts
    PROVE  /\ Plain(state) \in AnswerShape
           /\ Plain(state).state = state /\ Plain(state).kind = ""
  BY DEF Plain, AnswerShape

\* The answer of a tracker.
LEMMA LiveIs ==
    ASSUME NEW sig \in SUBSET (Keys \cup {"text"}), NEW kind \in {"", "failure", "shape"}
    PROVE  [state |-> "live", sig |-> sig, kind |-> kind] \in AnswerShape
  BY DEF AnswerShape, Verdicts

\* What is made of one response: only a body that opens like a dictionary is
\* live, and only one with a failure text has the wording of one.
LEMMA RequestIs ==
    ASSUME NEW r \in Response
    PROVE  /\ request(r) \in AnswerShape /\ request(r).state # "none"
           /\ request(r).state = "live" <=> bencoded(r)
           /\ request(r).kind = "failure" <=> r.worded
           /\ r.worded => bencoded(r) /\ identifies(request(r).sig)
  <1>1. CASE r \in {Bare(what) : what \in {"unmade", "silent", "throttled", "page"}}
    <2>1. /\ r.at \in {"unmade", "silent", "throttled", "page"} /\ ~r.worded
      BY <1>1 DEF Bare
    <2>2. PICK state \in Verdicts \ {"live"} : request(r) = Plain(state)
      BY <2>1 DEF request, bencoded, Verdicts
    <2>3. /\ request(r) \in AnswerShape /\ request(r).state = state
          /\ request(r).kind = ""
      BY <2>2, PlainIs
    <2>4. state # "none" /\ state # "live"
      BY DEF Verdicts
    <2>5. ~bencoded(r) /\ ~r.worded
      BY <2>1 DEF bencoded
    <2> QED BY <2>3, <2>4, <2>5
  <1>2. CASE r \notin {Bare(what) : what \in {"unmade", "silent", "throttled", "page"}}
    <2>1. /\ r.at = "dict" /\ r.keys \in SUBSET Keys
          /\ r.sound \in BOOLEAN /\ r.worded \in BOOLEAN
      BY <1>2 DEF Response
    <2>2. /\ signature(r).sig \in SUBSET (Keys \cup {"text"})
          /\ signature(r).kind \in {"", "failure", "shape"}
          /\ signature(r).kind = "failure" <=> r.worded
          /\ r.worded => signature(r).sig = {"text"}
      BY <2>1 DEF signature, decode
    <2>3. request(r) = [state |-> "live", sig |-> signature(r).sig,
                        kind |-> signature(r).kind]
      BY <2>1 DEF request, bencoded
    <2>4. request(r) \in AnswerShape
      BY <2>2, <2>3, LiveIs
    <2>5. identifies({"text"})
      BY DEF identifies
    <2>6. /\ request(r).state = "live" /\ bencoded(r)
          /\ request(r).kind = signature(r).kind /\ request(r).sig = signature(r).sig
      BY <2>1, <2>3 DEF bencoded
    <2> QED BY <2>2, <2>4, <2>5, <2>6
  <1> QED BY <1>1, <1>2

LEMMA ContactStarts == Init => ContactStrengthening
  <1> SUFFICES ASSUME Init PROVE ContactStrengthening
    OBVIOUS
  <1>1. scheme \in {"udp", "http", "https"} /\ udpAttempts \in Nat \ {0}
    BY ContactAssumption DEF Init
  <1>2. at = IF scheme = "udp" THEN "connect" ELSE "scrape"
    BY DEF Init
  <1>3. /\ held \in AnswerShape /\ result \in AnswerShape
    BY DEF Init, None, AnswerShape
  <1> QED BY <1>1, <1>2, <1>3 DEF Init, ContactStrengthening, AttemptsAre, HeldIsProof, Over,
        AskedEnough, VerdictIsProven, EvidenceStands, ProofStands, WordsAreKept

\* The other end, and everything else on the port.
LEMMA AnswerStep == ASSUME ContactStrengthening, Answer PROVE ContactStrengthening'
  <1>1. PICK d \in Datagram :
          /\ d.to \in reached
          /\ d.from = "tracker" =>
               d.txid = d.to /\ (d.says = "error" \/ (d.says = "connect" /\ ~d.short))
          /\ d.from = "other" => d.txid = 0 \/ (d.txid = d.to /\ (d.says = "other" \/ d.short))
          /\ wire' = wire \cup {d}
    BY DEF Answer
  <1>2. UNCHANGED <<scheme, at, tries, reached, held, result, heard, refused>>
    BY DEF Answer
  <1>3. Honest(d)
    BY <1>1 DEF Honest
  <1>4. AttemptsAre'
    BY <1>1, <1>2, <1>3 DEF ContactStrengthening, AttemptsAre
  <1> QED BY <1>2, <1>4 DEF ContactStrengthening, HeldIsProof, Over, Responses,
        AskedEnough, VerdictIsProven, EvidenceStands, ProofStands, WordsAreKept

\* A UDP probe ends with what the first datagram proved, with a refusal, or
\* with the silence of its last attempt.
LEMMA UDPStep == ASSUME ContactStrengthening, UDP PROVE ContactStrengthening'
  <1>1. /\ at \in {"connect", "waiting"} /\ at' \in {"connect", "waiting", "done"}
        /\ UNCHANGED <<scheme, held>> /\ scheme = "udp" /\ udpAttempts \in Nat
    BY ContactAssumption
       DEF UDP, Connect, Receive, Refuse, Silence, ContactStrengthening, AttemptsAre
  <1>2. HeldIsProof' /\ Responses' = {} /\ ProofStands' /\ WordsAreKept'
    BY <1>1 DEF HeldIsProof, Responses, ProofStands, WordsAreKept
  <1>3. /\ result' \in AnswerShape /\ (at' = "done" => result'.state # "none")
        /\ AttemptsAre' /\ AskedEnough' /\ VerdictIsProven'
    <2>1. CASE Connect
      <3>1. heard' = heard /\ (result' = result \/ result' = Plain("unreachable"))
        BY <1>1, <2>1 DEF Connect
      <3>2. AttemptsAre'
        <4>1. \/ at' = "waiting" /\ tries' = tries + 1
                 /\ reached' \in {reached, reached \cup {tries + 1}}
              \/ at' = "done" /\ UNCHANGED <<tries, reached>>
          BY <2>1 DEF Connect
        <4>2. /\ tries \in 0 .. udpAttempts /\ tries < udpAttempts
              /\ reached \subseteq 1 .. tries
          BY <2>1 DEF Connect, ContactStrengthening, AttemptsAre
        <4>3. tries' \in 0 .. udpAttempts /\ reached' \subseteq 1 .. tries'
          <5>1. tries' \in {tries, tries + 1} /\ tries' \in 0 .. udpAttempts
            BY <1>1, <4>1, <4>2
          <5>2. \A n \in reached' : n \in reached \/ n = tries'
            BY <4>1
          <5>3. \A n \in reached : n \in 1 .. tries'
            BY <1>1, <4>2, <5>1
          <5>4. CASE at' = "waiting"
            <6>1. tries' \in 1 .. tries'
              BY <4>1, <4>2, <5>4
            <6> QED BY <5>1, <5>2, <5>3, <6>1
          <5>5. CASE at' = "done"
            BY <1>1, <4>1, <4>2, <5>1, <5>3, <5>5
          <5> QED BY <4>1, <5>4, <5>5
        <4>4. at' = "waiting" => tries' > 0
          BY <4>1, <4>2
        <4>5. wire' = wire /\ at' # "connect"
          BY <2>1, <4>1 DEF Connect
        <4> QED BY <1>1, <4>3, <4>4, <4>5 DEF ContactStrengthening, AttemptsAre
      <3> QED BY <1>1, <2>1, <3>1, <3>2, PlainIs DEF Connect, ContactStrengthening, AttemptsAre, Verdicts,
            Over, AskedEnough, VerdictIsProven
    <2>2. CASE Receive
      <3>1. PICK d \in wire :
              /\ d.to = tries /\ result' = Plain(Judge(d)) /\ heard' = heard \cup {d}
              /\ wire' \in {wire, wire \ {d}}
        BY <2>2 DEF Receive
      <3>2. /\ at = "waiting" /\ at' = "done" /\ UNCHANGED <<tries, reached, refused>>
        BY <2>2 DEF Receive
      <3>3. Honest(d) /\ d.from \in {"tracker", "other"} /\ tries > 0 /\ tries \in Nat
        BY <1>1, <3>2 DEF ContactStrengthening, AttemptsAre, Honest, Datagram
      <3>4. Judge(d) \in {"live", "dead"}
        BY DEF Judge
      <3>5. Judge(d) = "live" => d.from = "tracker"
        BY <3>3 DEF Judge, Honest
      <3>6. Judge(d) = "dead" => d.from = "other" \/ (d.says = "error" /\ d.short)
        BY <3>1, <3>3 DEF Judge, Honest
      <3>7. AttemptsAre'
        BY <1>1, <3>1, <3>2 DEF ContactStrengthening, AttemptsAre
      <3>8. result' \in AnswerShape /\ result'.state = Judge(d)
        BY <3>1, <3>4, PlainIs DEF Verdicts
      <3> QED BY <1>1, <3>1, <3>2, <3>4, <3>5, <3>6, <3>7, <3>8
            DEF Over, AskedEnough, VerdictIsProven
    <2>3. CASE Refuse
      <3>1. heard' = heard /\ result' = Plain("unreachable")
        BY <1>1, <2>3 DEF Refuse
      <3>2. AttemptsAre'
        BY <1>1, <2>3, <3>1 DEF Refuse, ContactStrengthening, AttemptsAre
      <3> QED BY <1>1, <2>3, <3>1, <3>2, PlainIs DEF Refuse, ContactStrengthening, AttemptsAre, Verdicts,
            Over, AskedEnough, VerdictIsProven
    <2>4. CASE Silence
      <3>1. heard' = heard /\ result' = Plain("unreachable")
        BY <1>1, <2>4 DEF Silence
      <3>2. AttemptsAre'
        BY <1>1, <2>4, <3>1 DEF Silence, ContactStrengthening, AttemptsAre
      <3>3. result' \in AnswerShape /\ result'.state = "unreachable"
        BY <3>1, PlainIs DEF Verdicts
      <3>4. at' = "done" => tries' = udpAttempts
        BY <1>1, <2>4 DEF Silence, ContactStrengthening, AttemptsAre
      <3> QED BY <1>1, <3>2, <3>3, <3>4 DEF Over, AskedEnough, VerdictIsProven
    <2> QED BY <2>1, <2>2, <2>3, <2>4 DEF UDP
  <1> QED BY <1>1, <1>2, <1>3 DEF ContactStrengthening, EvidenceStands, Over

\* The answer a request settles on is kept or returned.
LEMMA SettleIs ==
    ASSUME NEW res \in AnswerShape, Settle(res)
    PROVE  \/ /\ at' = "incomplete" /\ held' = res /\ result' = result
              /\ res.state = "live" /\ res.kind # "failure"
           \/ /\ at' = "done" /\ result' = res /\ held' = held
              /\ res.state = "live" => res.kind = "failure"
  BY DEF Settle

\* An HTTP probe keeps what one request proved through the next.
LEMMA HTTPStep == ASSUME ContactStrengthening, HTTP PROVE ContactStrengthening'
  <1>1. PICK r \in Response : Scrape(r) \/ Announce(r) \/ Incomplete(r)
    BY DEF HTTP
  <1>2. /\ at \in {"scrape", "announce", "incomplete"} /\ scheme # "udp"
        /\ heard' = heard \cup {[step |-> at, response |-> r]}
        /\ UNCHANGED <<scheme, tries, reached, wire, refused>>
    BY <1>1 DEF Scrape, Announce, Incomplete, Hear, ContactStrengthening, HeldIsProof
  <1>3. Responses' = Responses \cup {r} /\ (at = "scrape" => Responses = {})
    <2>1. Responses = {h.response : h \in heard}
          /\ Responses' = {h.response : h \in heard'}
      BY <1>2 DEF Responses
    <2>2. [step |-> at, response |-> r].response = r
      OBVIOUS
    <2> QED BY <1>2, <2>1, <2>2 DEF ContactStrengthening, HeldIsProof
  <1>4. held \in AnswerShape /\ result \in AnswerShape
    BY DEF ContactStrengthening
  <1> DEFINE res == request(r)
  <1>5. /\ res \in AnswerShape /\ res.state # "none"
        /\ res.state = "live" <=> bencoded(r)
        /\ res.kind = "failure" <=> r.worded
        /\ r.worded => bencoded(r) /\ identifies(res.sig)
    BY RequestIs
  <1> HIDE DEF res
  <1>6. /\ at' \in {"announce", "incomplete", "done"}
        /\ held' \in AnswerShape /\ result' \in AnswerShape
        /\ at' \in {"announce", "incomplete"} =>
             /\ held'.state # "none"
             /\ \A x \in Responses' : ~x.worded
             /\ (\E x \in Responses' : bencoded(x)) => held'.state = "live"
        /\ at' = "incomplete" => held'.state = "live"
        /\ at' = "done" =>
             /\ result'.state # "none"
             /\ (\E x \in Responses' : bencoded(x)) => result'.state = "live"
             /\ (\E x \in Responses' : x.worded) => result'.kind = "failure"
    <2>1. CASE Scrape(r)
      <3>1. at = "scrape" /\ Responses' = {r}
        BY <1>3, <2>1 DEF Scrape
      <3>2. CASE (res.state = "live" /\ identifies(res.sig)) \/ ~answered(r)
        <4>1. Settle(res)
          BY <2>1, <3>2 DEF Scrape, res
        <4> QED BY <1>4, <1>5, <3>1, <4>1, SettleIs
      <3>3. CASE ~((res.state = "live" /\ identifies(res.sig)) \/ ~answered(r))
        <4>1. at' = "announce" /\ held' = res /\ result' = result
          BY <2>1, <3>3 DEF Scrape, res
        <4> QED BY <1>4, <1>5, <3>1, <3>3, <4>1
      <3> QED BY <3>2, <3>3
    <2>2. CASE Announce(r)
      <3>1. /\ at = "announce" /\ held.state # "none"
            /\ \A x \in Responses : ~x.worded
            /\ (\E x \in Responses : bencoded(x)) => held.state = "live"
        BY <2>2 DEF Announce, ContactStrengthening, HeldIsProof
      <3>2. CASE res.state = "live" /\ (held.state # "live" \/ identifies(res.sig))
        <4>1. Settle(res)
          BY <2>2, <3>2 DEF Announce, res
        <4> QED BY <1>3, <1>4, <1>5, <3>1, <3>2, <4>1, SettleIs
      <3>3. CASE ~(res.state = "live" /\ (held.state # "live" \/ identifies(res.sig)))
        <4>1. Settle(held)
          BY <2>2, <3>3 DEF Announce, res
        <4>2. ~r.worded
          BY <1>5, <3>3
        <4> QED BY <1>3, <1>4, <1>5, <3>1, <3>3, <4>1, <4>2, SettleIs
      <3> QED BY <3>2, <3>3
    <2>3. CASE Incomplete(r)
      <3>1. /\ at = "incomplete" /\ held.state = "live"
            /\ \A x \in Responses : ~x.worded
        BY <2>3 DEF Incomplete, ContactStrengthening, HeldIsProof
      <3>2. /\ at' = "done" /\ held' = held
            /\ result' = IF res.kind = "failure"
                         THEN [held EXCEPT !.sig = res.sig, !.kind = "failure"] ELSE held
        BY <2>3 DEF Incomplete, res
      <3>3. result' \in AnswerShape /\ result'.state = "live"
            /\ (r.worded => result'.kind = "failure")
        BY <1>4, <1>5, <3>1, <3>2 DEF AnswerShape
      <3> QED BY <1>3, <1>4, <3>1, <3>2, <3>3
    <2> QED BY <1>1, <2>1, <2>2, <2>3
  <1>7. HeldIsProof'
    BY <1>2, <1>6 DEF HeldIsProof
  <1>8. AttemptsAre'
    BY <1>2, <1>6 DEF ContactStrengthening, AttemptsAre
  <1>9. AskedEnough' /\ VerdictIsProven' /\ EvidenceStands'
    BY <1>2, <1>6 DEF AskedEnough, VerdictIsProven, EvidenceStands, ProofStands,
        WordsAreKept, Over
  <1> QED BY <1>6, <1>7, <1>8, <1>9 DEF ContactStrengthening, Over

LEMMA ContactStrengtheningHolds == Spec => []ContactStrengthening
  <1>1. ASSUME ContactStrengthening, [Next]_vars PROVE ContactStrengthening'
    <2>1. CASE UNCHANGED vars
      BY <1>1, <2>1 DEF vars, ContactStrengthening, AttemptsAre, HeldIsProof, Over, Responses,
            AskedEnough, VerdictIsProven, EvidenceStands, ProofStands, WordsAreKept
    <2>2. CASE Next
      BY <1>1, <2>2, AnswerStep, UDPStep, HTTPStep DEF Next
    <2> QED BY <1>1, <2>1, <2>2
  <1> QED BY <1>1, ContactStarts, PTL DEF Spec

\* However many requests a probe may send and whatever the network does, an
\* endpoint is called unreachable over UDP only after the last of them, or when
\* a dial, a write or the other end refused: udpConnect and probeUDP.
THEOREM ContactIsSound == Spec => []ContactInv
  <1>1. ContactStrengthening => ContactInv
    <2> SUFFICES ASSUME ContactStrengthening PROVE ContactInv
      OBVIOUS
    <2>1. wire \subseteq Datagram
      BY DEF ContactStrengthening, AttemptsAre, Honest
    <2>2. at = "done" => result # None
      <3>1. None.state = "none"
        BY DEF None
      <3> QED BY <3>1 DEF ContactStrengthening, Over
    <2> QED BY <2>1, <2>2 DEF ContactStrengthening, AttemptsAre, ContactInv, TypeOK, AnswerShape, Verdicts
  <1> QED BY <1>1, ContactStrengtheningHolds, PTL

\* Live over UDP is the answer of a tracker to one of the requests of this
\* probe, and dead what something else sent, or an error of the tracker too short
\* to be read: no datagram that is late or repeated makes a tracker dead, and
\* none of a stranger's makes anything live.
THEOREM VerdictsAreProven == Spec => []VerdictIsProven
  <1>1. ContactStrengthening => VerdictIsProven
    BY DEF ContactStrengthening
  <1> QED BY <1>1, ContactStrengtheningHolds, PTL

\* What one of the requests over HTTP proved or disclosed, scrape, announce or
\* the one made to be refused, no failure of another takes back.
THEOREM EvidenceIsKept == Spec => []EvidenceStands
  <1>1. ContactStrengthening => EvidenceStands
    BY DEF ContactStrengthening
  <1> QED BY <1>1, ContactStrengtheningHolds, PTL

-----------------------------------------------------------------------------
(* Parked names.                                                            *)

\* What a collector that works holds, all of it heard when its pass is clean.
Working(c) ==
    /\ pass[c] = [at |-> "working", left |-> pass[c].left, obs |-> pass[c].obs,
                  parking |-> pass[c].parking]
    /\ pass[c].left \subseteq Name /\ DOMAIN pass[c].obs \subseteq Name

WhatIsSoWasHeard(c) ==
    /\ pass[c].parking = UNION {answers[k] : k \in Controls}
    /\ \A n \in DOMAIN pass[c].obs : pass[c].obs[n] = answers[n]

PassesAre ==
    /\ DOMAIN pass = Collector
    /\ \A c \in Collector :
         /\ pass[c].at \in {"idle", "listed", "working"}
         /\ pass[c].at = "listed" => pass[c].due \subseteq Name
         /\ pass[c].at = "working" => Working(c)
         /\ pass[c].at = "working" /\ c \in clean => WhatIsSoWasHeard(c)

Flags ==
    /\ {enabled, control, parked, cli} \subseteq SUBSET Name
    /\ answers \in [Name -> SUBSET Ip]
    /\ news \in [Name -> 0 .. 1] /\ clean \subseteq Collector
    /\ \A n \in Name : news[n] = IF n \in parked THEN 1 ELSE 0

ParkingStrengthening == Flags /\ PassesAre

-----------------------------------------------------------------------------

LEMMA ParkingStarts == ParkingInit => ParkingStrengthening
  BY DEF ParkingInit, ParkingStrengthening, Flags, PassesAre, Idle

\* Names are added, removed and flagged, and the world moves: no pass is clean
\* after that, and none hears of it.
LEMMA OutsideStep == ASSUME ParkingStrengthening, Outside PROVE ParkingStrengthening'
  <1>1. UNCHANGED <<parked, pass, news>>
    BY DEF Outside, Add, SetControl, Remove, Move, ListParked, row
  <1>2. /\ {enabled', control', cli'} \subseteq SUBSET Name
        /\ answers' \in [Name -> SUBSET Ip]
    BY DEF Outside, Add, SetControl, Remove, Move, ListParked, Listed, row,
           ParkingStrengthening, Flags
  <1>3. clean' = {} \/ (clean' = clean /\ UNCHANGED <<enabled, control, answers>>)
    BY DEF Outside
  <1>4. Flags'
    BY <1>1, <1>2, <1>3 DEF ParkingStrengthening, Flags
  <1>5. PassesAre'
    BY <1>1, <1>3 DEF ParkingStrengthening, PassesAre, Working, WhatIsSoWasHeard, Controls
  <1> QED BY <1>4, <1>5 DEF ParkingStrengthening

\* A step of one collector leaves the others as they are.
LEMMA OneCollector ==
    ASSUME ParkingStrengthening, NEW c \in Collector, NEW here,
           pass' = [pass EXCEPT ![c] = here], clean' \subseteq clean \cup {c},
           UNCHANGED <<enabled, control, answers>>,
           here.at \in {"idle", "listed", "working"},
           here.at = "listed" => here.due \subseteq Name,
           here.at = "working" => Working(c)',
           here.at = "working" /\ c \in clean' => WhatIsSoWasHeard(c)'
    PROVE  PassesAre'
  <1>1. DOMAIN pass' = Collector /\ pass'[c] = here
    BY DEF ParkingStrengthening, PassesAre
  <1>2. ASSUME NEW d \in Collector, d # c
        PROVE  /\ pass'[d] = pass[d] /\ (d \in clean' => d \in clean)
               /\ Working(d)' <=> Working(d)
               /\ WhatIsSoWasHeard(d)' <=> WhatIsSoWasHeard(d)
    BY <1>2 DEF ParkingStrengthening, PassesAre, Working, WhatIsSoWasHeard, Controls
  <1> QED BY <1>1, <1>2 DEF ParkingStrengthening, PassesAre

\* What a step of a pass does to the flags and to the feed.
LEMMA FlagsStep ==
    ASSUME ParkingStrengthening, NEW c \in Collector, Collect(c) \/ Stop(c)
    PROVE  Flags' /\ UNCHANGED <<enabled, control, answers>> /\ clean' \subseteq clean \cup {c}
  <1>1. /\ UNCHANGED <<enabled, control, answers, cli>>
        /\ clean' \subseteq clean \cup {c}
    BY DEF Collect, Begin, ResolveControls, Resolve, MarkParked, Fail, Finish, Stop, row
  <1>2. CASE UNCHANGED <<parked, news>>
    BY <1>1, <1>2 DEF ParkingStrengthening, Flags
  <1>3. CASE ~UNCHANGED <<parked, news>>
    <2>1. PICK n \in Name : MarkParked(c, n)
      BY <1>3 DEF Collect, Begin, ResolveControls, Resolve, Fail, Finish, Stop, row
    <2> DEFINE is == Judged(pass[c].obs[n], pass[c].parking)
    <2>2. /\ parked' = IF is THEN parked \cup {n} ELSE parked \ {n}
          /\ news' = [news EXCEPT ![n] = IF ~is THEN 0 ELSE IF n \in parked THEN @ ELSE @ + 1]
      BY <1>3, <2>1 DEF MarkParked, SetParked
    <2> HIDE DEF is
    <2>3. /\ news \in [Name -> 0 .. 1] /\ parked \in SUBSET Name
          /\ \A m \in Name : news[m] = IF m \in parked THEN 1 ELSE 0
      BY DEF ParkingStrengthening, Flags
    <2>4. parked' \in SUBSET Name /\ news' \in [Name -> 0 .. 1]
      BY <2>2, <2>3
    <2>5. ASSUME NEW m \in Name PROVE news'[m] = IF m \in parked' THEN 1 ELSE 0
      BY <2>2, <2>3
    <2> QED BY <1>1, <2>4, <2>5 DEF ParkingStrengthening, Flags
  <1> QED BY <1>1, <1>2, <1>3

\* Replacing two fields of what a working collector holds.
LEMMA NextOfWork ==
    ASSUME NEW here, NEW left, NEW obs,
           here = [at |-> "working", left |-> here.left, obs |-> here.obs,
                   parking |-> here.parking]
    PROVE  [here EXCEPT !.left = left, !.obs = obs]
             = [at |-> "working", left |-> left, obs |-> obs, parking |-> here.parking]
  <1> DEFINE one == [here EXCEPT !.left = left]
  <1>1. one = [at |-> "working", left |-> left, obs |-> here.obs, parking |-> here.parking]
    OBVIOUS
  <1>2. [here EXCEPT !.left = left, !.obs = obs] = [one EXCEPT !.obs = obs]
    OBVIOUS
  <1> HIDE DEF one
  <1>3. [one EXCEPT !.obs = obs]
          = [at |-> "working", left |-> left, obs |-> obs, parking |-> here.parking]
    BY <1>1
  <1> QED BY <1>2, <1>3

\* A step of a pass, as its own collector has it from then on.
LEMMA PassesStep ==
    ASSUME ParkingStrengthening, NEW c \in Collector, Collect(c) \/ Stop(c)
    PROVE  PassesAre'
  <1>0. UNCHANGED <<enabled, control, answers>> /\ clean' \subseteq clean \cup {c}
    BY FlagsStep
  <1>1. c \in DOMAIN pass
    BY DEF ParkingStrengthening, PassesAre
  <1>2. CASE Begin(c)
    <2>1. PICK due \in SUBSET Listed :
            pass' = [pass EXCEPT ![c] = [at |-> "listed", due |-> due]]
      BY <1>2 DEF Begin
    <2>2. due \subseteq Name
      BY DEF Listed, ParkingStrengthening, Flags
    <2> QED BY <1>0, <2>1, <2>2, OneCollector
  <1>3. CASE ResolveControls(c)
    <2>1. PICK told \in [Controls -> SUBSET Ip] :
            /\ pass' = [pass EXCEPT ![c] =
                  [at |-> "working", left |-> pass[c].due, obs |-> [n \in {} |-> {}],
                   parking |-> UNION {told[k] : k \in Controls}]]
            /\ clean' = IF told = [k \in Controls |-> answers[k]] THEN clean ELSE clean \ {c}
      BY <1>3 DEF ResolveControls
    <2>2. pass[c].due \subseteq Name
      BY <1>3 DEF ResolveControls, ParkingStrengthening, PassesAre
    <2> DEFINE here == [at |-> "working", left |-> pass[c].due, obs |-> [n \in {} |-> {}],
                        parking |-> UNION {told[k] : k \in Controls}]
    <2>3. pass'[c] = here
      BY <1>1, <2>1
    <2>4. Working(c)'
      BY <2>2, <2>3 DEF Working
    <2>5. c \in clean' => WhatIsSoWasHeard(c)'
      BY <1>0, <2>1, <2>3 DEF WhatIsSoWasHeard, Controls
    <2> QED BY <1>0, <2>1, <2>4, <2>5, OneCollector
  <1>4. CASE \E n \in Name : Resolve(c, n)
    <2>1. PICK n \in Name : \E told \in Heard(n) :
            /\ pass[c].at = "working" /\ n \in pass[c].left
            /\ pass' = [pass EXCEPT
                  ![c].left = @ \ {n},
                  ![c].obs = [m \in DOMAIN @ \cup {n} |-> IF m = n THEN told ELSE @[m]]]
            /\ clean' = IF told = answers[n] THEN clean ELSE clean \ {c}
      BY <1>4 DEF Resolve
    <2>a. PICK told \in Heard(n) :
            /\ pass[c].at = "working" /\ n \in pass[c].left
            /\ pass' = [pass EXCEPT
                  ![c].left = @ \ {n},
                  ![c].obs = [m \in DOMAIN @ \cup {n} |-> IF m = n THEN told ELSE @[m]]]
            /\ clean' = IF told = answers[n] THEN clean ELSE clean \ {c}
      BY <2>1
    <2> DEFINE obs == [m \in DOMAIN pass[c].obs \cup {n} |-> IF m = n THEN told ELSE pass[c].obs[m]]
               here == [at |-> "working", left |-> pass[c].left \ {n}, obs |-> obs,
                        parking |-> pass[c].parking]
    <2>2. Working(c) /\ (c \in clean => WhatIsSoWasHeard(c))
      BY <2>a DEF ParkingStrengthening, PassesAre
    <2>3. pass' = [pass EXCEPT ![c] = here]
      <3> HIDE DEF obs
      <3>1. here = [pass[c] EXCEPT !.left = @ \ {n}, !.obs = obs]
        BY <2>2, NextOfWork DEF Working
      <3> USE DEF obs
      <3>2. pass' = [pass EXCEPT ![c] = [pass[c] EXCEPT !.left = @ \ {n}, !.obs = obs]]
        BY <2>a
      <3> QED BY <3>1, <3>2
    <2>4. pass'[c] = here
      BY <1>1, <2>3
    <2>5. Working(c)'
      BY <2>2, <2>4 DEF Working
    <2>6. c \in clean' => WhatIsSoWasHeard(c)'
      <3> SUFFICES ASSUME c \in clean' PROVE WhatIsSoWasHeard(c)'
        OBVIOUS
      <3>1. c \in clean /\ told = answers[n]
        BY <2>a
      <3>2. pass'[c].obs = obs /\ pass'[c].parking = pass[c].parking
        BY <2>4
      <3>3. \A m \in DOMAIN obs : obs[m] = answers[m]
        BY <2>2, <3>1 DEF WhatIsSoWasHeard
      <3> HIDE DEF obs
      <3> QED BY <1>0, <2>2, <3>1, <3>2, <3>3 DEF WhatIsSoWasHeard, Controls
    <2> QED BY <1>0, <2>3, <2>5, <2>6, OneCollector
  <1>5. CASE \E n \in Name : MarkParked(c, n) \/ Fail(c, n)
    <2>1. PICK n \in Name :
            /\ pass[c].at = "working"
            /\ pass' = [pass EXCEPT ![c].obs = [m \in DOMAIN @ \ {n} |-> @[m]]]
            /\ clean' = clean
      BY <1>5 DEF MarkParked, Fail
    <2> DEFINE obs == [m \in DOMAIN pass[c].obs \ {n} |-> pass[c].obs[m]]
               here == [at |-> "working", left |-> pass[c].left, obs |-> obs,
                        parking |-> pass[c].parking]
    <2>2. Working(c) /\ (c \in clean => WhatIsSoWasHeard(c))
      BY <2>1 DEF ParkingStrengthening, PassesAre
    <2>3. pass' = [pass EXCEPT ![c] = here]
      <3>1. here = [pass[c] EXCEPT !.obs = obs]
        BY <2>2 DEF Working
      <3>2. pass' = [pass EXCEPT ![c] = [pass[c] EXCEPT !.obs = obs]]
        BY <2>1
      <3> QED BY <3>1, <3>2
    <2>4. pass'[c] = here
      BY <1>1, <2>3
    <2>5. Working(c)'
      BY <2>2, <2>4 DEF Working
    <2>6. c \in clean' => WhatIsSoWasHeard(c)'
      BY <1>0, <2>1, <2>2, <2>4 DEF WhatIsSoWasHeard, Controls
    <2> QED BY <1>0, <2>3, <2>5, <2>6, OneCollector
  <1>6. CASE Finish(c) \/ Stop(c)
    <2>1. pass' = [pass EXCEPT ![c] = Idle] /\ Idle.at = "idle"
      BY <1>6 DEF Finish, Stop, Idle
    <2> QED BY <1>0, <2>1, OneCollector
  <1> QED BY <1>2, <1>3, <1>4, <1>5, <1>6 DEF Collect

LEMMA ParkingStrengtheningHolds == ParkingSpec => []ParkingStrengthening
  <1>1. ASSUME ParkingStrengthening, [ParkingNext]_parkingVars PROVE ParkingStrengthening'
    <2>1. CASE UNCHANGED parkingVars
      BY <1>1, <2>1 DEF parkingVars, row, ParkingStrengthening, Flags, PassesAre, Working,
         WhatIsSoWasHeard, Controls
    <2>2. CASE Outside
      BY <1>1, <2>2, OutsideStep
    <2>3. ASSUME NEW c \in Collector, Collect(c) \/ Stop(c) PROVE ParkingStrengthening'
      BY <1>1, <2>3, FlagsStep, PassesStep DEF ParkingStrengthening
    <2> QED BY <1>1, <2>1, <2>2, <2>3 DEF ParkingNext
  <1> QED BY <1>1, ParkingStarts, PTL DEF ParkingSpec

\* SetParked tells the feed of the transition only: for any names, addresses and
\* number of collectors, a name has one entry for each spell of parking.
THEOREM ParkingIsNewsOnce == ParkingSpec => []NewsInv
  <1>1. ParkingStrengthening => NewsInv
    BY DEF ParkingStrengthening, Flags, PassesAre, NewsInv, ParkingTypeOK
  <1> QED BY <1>1, ParkingStrengtheningHolds, PTL

\* markParked judges by what a pass heard at its own time; where it heard
\* everything and nothing changed since, the flag is the truth, for any number
\* of passes beside it.
THEOREM ParkingVerdictIsTrue == ParkingSpec => VerdictIsTrue
  <1>1. ASSUME ParkingStrengthening, NEW c \in clean, NEW n \in Name, MarkParked(c, n),
               answers[n] # {}, \E k \in Controls : answers[k] # {}
        PROVE  (n \in parked') = Parking(n)
    <2>1. /\ pass[c].at = "working" /\ n \in DOMAIN pass[c].obs
          /\ c \in Collector
      BY <1>1 DEF MarkParked, ParkingStrengthening, Flags
    <2>2. /\ pass[c].parking = UNION {answers[k] : k \in Controls}
          /\ pass[c].obs[n] = answers[n]
      BY <1>1, <2>1 DEF ParkingStrengthening, PassesAre, WhatIsSoWasHeard
    <2>3. pass[c].parking # {}
      BY <1>1, <2>2
    <2>4. parked' = IF Judged(answers[n], pass[c].parking) THEN parked \cup {n} ELSE parked \ {n}
      BY <1>1, <2>2, <2>3 DEF MarkParked, SetParked
    <2>5. Judged(answers[n], pass[c].parking) = Parking(n)
      BY <2>2 DEF Judged, Parking
    <2>6. CASE Judged(answers[n], pass[c].parking)
      BY <2>4, <2>5, <2>6 DEF Judged, Parking
    <2>7. CASE ~Judged(answers[n], pass[c].parking)
      BY <2>4, <2>5, <2>7 DEF Judged, Parking
    <2> QED BY <2>6, <2>7
  <1>2. ParkingStrengthening =>
          \A c \in clean : \A n \in Name :
            MarkParked(c, n) /\ answers[n] # {} /\ (\E k \in Controls : answers[k] # {})
                => (n \in parked') = Parking(n)
    BY <1>1
  <1> QED BY <1>2, ParkingStrengtheningHolds, PTL DEF VerdictIsTrue

=============================================================================
