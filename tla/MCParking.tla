------------------------------ MODULE MCParking ------------------------------
(* Instances of Parking for TLC: the families of the addresses.             *)
EXTENDS Parking, TLC

CONSTANTS n1, n2, c1, x4, y6

MCFamilyOf == (x4 :> 4 @@ y6 :> 6)
Names == Permutations(Name)

=============================================================================
