CONSTANTS
    Players = {p1, p2, p3}
    Parties = {g1, g2, g3}
    Items = {bag, sack, coin}
    Containers = {bag, sack}
    Stackable = {coin}
    Ground = ground
    None = none
SYMMETRY PlayerSymmetry
SPECIFICATION Spec
INVARIANTS PartyLinks OffersApart
PROPERTIES FairSwap
CHECK_DEADLOCK FALSE
