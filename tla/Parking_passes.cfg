SPECIFICATION ParkingSpec
CONSTANTS
    n1 = n1
    n2 = n2
    c1 = c1
    x4 = x4
    y6 = y6
    Name = {n1, n2}
    Ip = {x4, y6}
    Family = {4, 6}
    FamilyOf <- MCFamilyOf
    Collector = {c1}
SYMMETRY Names
INVARIANTS
    NewsInv
PROPERTIES
    VerdictIsTrue
