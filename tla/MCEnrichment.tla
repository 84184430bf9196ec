----------------------------- MODULE MCEnrichment -----------------------------
(* Instances of Enrichment for TLC: the tracker has a record of the address  *)
(* that is in BGP, and the two others are those of its rolling family.       *)
EXTENDS Enrichment

CONSTANTS w1, w2, t1

MCKept == {<<t1, 1>>}

=============================================================================
