-------------------------- MODULE MCAddressHistory --------------------------
(* Instances of AddressHistory for TLC: the address plan is written out, and *)
(* the results passes start from are those a lookup comes back with.         *)
EXTENDS AddressHistory, TLC

CONSTANTS a1, a2, p1, p2

\* Two addresses, one of them in a network inside that of the other.
MCPrefixesOf == (a1 :> {p1} @@ a2 :> {p1, p2})

R == INSTANCE Resolver

\* A lookup of one attempt already comes back with any result, and with
\* nothing else (AnswersProofs has it for any number of attempts).
ASSUME LookupAssumption ==
    {r \in {R!Lookup(<<attempt>>) : attempt \in R!Attempts(Addr)} :
        r.status \in Outcome} = Result

=============================================================================
