------------------------------- MODULE Placement -------------------------------
(***************************************************************************)
(* One lookup of where an address is: the chain of Team Cymru, the         *)
(* registries over RDAP and a geolocation database, each of which knows    *)
(* some of it, fails or knows nothing.  Enrichment has what becomes of it. *)
(* Source: internal/enrich/*.go, internal/cli/enrich.go.                   *)
(***************************************************************************)
EXTENDS Integers, Sequences

CONSTANTS
    Enabled,    \* the providers the flags ask for
    Origins,    \* what the origin zone may hold: sequences of records
    Names,      \* the AS names there are
    Bootstraps, \* tables of the registries: sequences of prefixes with their urls
    Objects,    \* what a registry may say of a network
    Places      \* what the database may hold of an address

VARIABLES
    at,         \* the provider to ask next, or how the lookup ended
    info,       \* what is known so far
    errs        \* a provider failed

\* Observer.
VARIABLE
    answers     \* what the providers asked so far answered

chainVars == <<at, info, errs, answers>>

Unknown == ""
Order == <<"cymru", "rdap", "maxmind">>
Provider == {"cymru", "rdap", "maxmind"}
Before(p, q) == \E i, j \in 1 .. 3 : i < j /\ Order[i] = p /\ Order[j] = q

Fields == {"asn", "asName", "prefix", "rir", "country", "allocated",
           "networkName", "org", "city", "location"}
Nothing == [f \in Fields |-> Unknown]

\* An Info of the fields of a record, the others unknown.
Info(r) == [f \in Fields |-> IF f \in DOMAIN r THEN r[f] ELSE Unknown]

Useful == {"asn", "rir", "country", "networkName", "org", "city"}
Empty(i) == \A f \in Useful : i[f] = Unknown
merge(i, other) == [f \in Fields |-> IF i[f] = Unknown THEN other[f] ELSE i[f]]

Failed == [failed |-> TRUE, info |-> Nothing]
Answer(i) == [failed |-> FALSE, info |-> i]

-----------------------------------------------------------------------------
(* Team Cymru.  A record of the zone has the number of its fields, its AS   *)
(* field as "blank", "unread" or "number", the AS, the prefix and its bits  *)
(* (-1 for one that cannot be read), country, registry and date.            *)

Readable(rec) == rec.fields >= 5 /\ rec.as = "number" /\ rec.bits >= 0

\* The most specific prefix, and of several the first.
Best(txt) ==
    {i \in DOMAIN txt : Readable(txt[i]) /\ \A j \in DOMAIN txt : Readable(txt[j]) =>
        \/ txt[j].bits < txt[i].bits
        \/ txt[j].bits = txt[i].bits /\ i <= j}

\* parseOrigin takes the first word of the AS field, whether there is one or not.
Panics(txt) == \E i \in DOMAIN txt : txt[i].fields >= 5 /\ txt[i].as = "blank"

OriginInfo(rec, name) ==
    Info([asn |-> rec.asn, prefix |-> rec.prefix, country |-> rec.country, rir |-> rec.rir,
          allocated |-> rec.allocated, asName |-> IF rec.asn = Unknown THEN Unknown ELSE name])

\* No such name and no data are an answer; the second question, for the name of
\* the AS, may fail without consequence.
Cymru(txt) ==
    {Answer(Nothing), Failed} \cup
    {Answer(OriginInfo(txt[i], name)) : i \in Best(txt), name \in Names \cup {Unknown}}

-----------------------------------------------------------------------------
(* RDAP.                                                                    *)

\* The entry of the table that contains the address most specifically and has
\* a url.
endpointFor(table) ==
    {i \in DOMAIN table : table[i].contains /\ table[i].urls # <<>> /\ \A j \in DOMAIN table :
        table[j].contains /\ table[j].urls # <<>> =>
            \/ table[j].bits < table[i].bits
            \/ table[j].bits = table[i].bits /\ i <= j}

\* The name of the entity of the highest rank, its handle where it has none: 3
\* registrant, 2 administrative, 1 technical, 0 anything else.
entityName(e) == IF e.fn # Unknown THEN e.fn ELSE e.handle
pickOrg(entities) ==
    LET named == {i \in DOMAIN entities : entities[i].rank > 0 /\ entityName(entities[i]) # Unknown}
        best == {i \in named : \A j \in named :
            \/ entities[j].rank < entities[i].rank
            \/ entities[j].rank = entities[i].rank /\ i <= j}
    IN IF named = {} THEN Unknown ELSE entityName(entities[CHOOSE i \in best : TRUE])

RDAP(table, object) ==
    {Failed} \cup
    {Answer(Info([networkName |-> object.name, country |-> object.country,
                  org |-> pickOrg(object.entities)])) : i \in endpointFor(table)}

-----------------------------------------------------------------------------
(* The database.                                                            *)

MaxMind(place) ==
    {Answer(Nothing), Failed,
     Answer(Info([country |-> IF place.country # Unknown THEN place.country ELSE place.registered,
                  city |-> place.city, location |-> place.location]))}

-----------------------------------------------------------------------------
(* Chain.Lookup.                                                            *)

\* A provider answered a: failures are passed over, and so is an answer with
\* nothing useful in it.
Heard(p, a, next) ==
    /\ at' = next
    /\ info' = IF a.failed \/ Empty(a.info) THEN info ELSE merge(info, a.info)
    /\ errs' = (errs \/ a.failed)
    /\ answers' = [q \in DOMAIN answers \cup {p} |-> IF q = p THEN a ELSE answers[q]]

\* A provider the flags leave out is not in the chain.
Skip(p, next) ==
    /\ at = p /\ p \notin Enabled
    /\ at' = next
    /\ UNCHANGED <<info, errs, answers>>

AskCymru ==
    /\ at = "cymru" /\ "cymru" \in Enabled
    /\ \E txt \in Origins :
         IF Panics(txt)
         THEN at' = "crashed" /\ UNCHANGED <<info, errs, answers>>
         ELSE \E a \in Cymru(txt) : Heard("cymru", a, "rdap")

AskRDAP ==
    /\ at = "rdap" /\ "rdap" \in Enabled
    /\ \E table \in Bootstraps, object \in Objects :
         \E a \in RDAP(table, object) : Heard("rdap", a, "maxmind")

AskMaxMind ==
    /\ at = "maxmind" /\ "maxmind" \in Enabled
    /\ \E place \in Places : \E a \in MaxMind(place) : Heard("maxmind", a, "end")

\* The pass is interrupted before a provider is asked.
Cancel ==
    /\ at \in Enabled
    /\ at' = "cancelled"
    /\ UNCHANGED <<info, errs, answers>>

Return ==
    /\ at = "end"
    /\ at' = IF Empty(info) /\ errs THEN "error" ELSE "ok"
    /\ UNCHANGED <<info, errs, answers>>

ChainInit == at = "cymru" /\ info = Nothing /\ errs = FALSE /\ answers = [p \in {} |-> Failed]

ChainNext ==
    \/ AskCymru \/ Skip("cymru", "rdap")
    \/ AskRDAP \/ Skip("rdap", "maxmind")
    \/ AskMaxMind \/ Skip("maxmind", "end")
    \/ Cancel \/ Return

ChainSpec == ChainInit /\ [][ChainNext]_chainVars

-----------------------------------------------------------------------------
(* Properties.                                                              *)

\* Who told a field: answered, said something useful, and knew it.
Tellers(f) ==
    {p \in DOMAIN answers : ~answers[p].failed /\ ~Empty(answers[p].info) /\ answers[p].info[f] # Unknown}

\* Every field is from the first provider of the order that knew it, whatever
\* the ones before it failed at and whatever those after it say.
FirstAnswerWins ==
    \A f \in Fields :
        /\ Tellers(f) = {} => info[f] = Unknown
        /\ \A p \in Tellers(f) : (\A q \in Tellers(f) : ~Before(q, p)) => info[f] = answers[p].info[f]

\* The AS, its name, its prefix, its registry and its date are never put
\* together from two origins: where an AS is known they are those of the one
\* record that was the best.
OneOrigin ==
    info["asn"] # Unknown =>
        /\ "cymru" \in DOMAIN answers
        /\ \A f \in {"asn", "asName", "prefix", "rir", "allocated"} :
             info[f] = answers["cymru"].info[f]

\* A lookup is an error only when no provider had anything useful to say and
\* one failed; one that is not has something, or has nothing without a failure.
ErrorsAreTotal ==
    /\ at = "error" => /\ \A p \in DOMAIN answers : answers[p].failed \/ Empty(answers[p].info)
                       /\ \E p \in DOMAIN answers : answers[p].failed
    /\ at = "ok" => \/ \E p \in DOMAIN answers : ~answers[p].failed /\ ~Empty(answers[p].info)
                    \/ \A p \in DOMAIN answers : ~answers[p].failed

=============================================================================
