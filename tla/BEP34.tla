--------------------------------- MODULE BEP34 ---------------------------------
(***************************************************************************)
(* Reading the tracker preferences a name publishes in its TXT records.    *)
(* Source: internal/bep34/bep34.go.                                        *)
(***************************************************************************)
EXTENDS Integers, Sequences, SequencesExt

CONSTANTS
    Texts,     \* the TXT texts a name may publish, in the order of strings
    maxPrefs   \* how many preferences are read of one record

\* A text is its first word and the others, cut at the colon.
ASSUME BEP34Assumption ==
    /\ Texts \in Seq([first : STRING, words : Seq([proto : STRING, port : Int])])
    /\ maxPrefs \in Nat \ {0}

keyword == "BITTORRENT"

\* pref: the words that name an endpoint; any other is ignored.
pref(word) == word.proto \in {"UDP", "TCP"} /\ word.port \in 1 .. 65535

\* Parse, of one record: each endpoint once, in the order given, and no more
\* than maxPrefs of them.
Prefs(words) ==
    FoldLeft(LAMBDA prefs, word :
                IF pref(word) /\ word \notin ToSet(prefs) /\ Len(prefs) < maxPrefs
                THEN Append(prefs, word) ELSE prefs,
             <<>>, words)

\* Parse, of an answer: the place of the lowest of its records, 0 for none.
Raw(answer) ==
    LET found == {i \in answer : Texts[i].first = keyword}
    IN  IF found = {} THEN 0 ELSE CHOOSE i \in found : \A j \in found : i <= j

\* What an answered query may be read as.
Record == {Raw(answer) : answer \in SUBSET (1 .. Len(Texts))}

\* The preferences each record names.
Named == [n \in Record |-> IF n = 0 THEN <<>> ELSE Prefs(Texts[n].words)]

\* Record.Denies: a record that names no endpoint.
Denies(n) == n # 0 /\ Named[n] = <<>>

=============================================================================
