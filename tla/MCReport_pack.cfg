SPECIFICATION ReportSpec
CONSTANTS
    g1 = g1
    g2 = g2
    g3 = g3
    s1 = s1
    s2 = s2
    Any = Any
    None = None
    Groups = {g1, g2, g3}
    Sources = {s1, s2}
    Others = 2
    Mtus = {33, 34, 35, 36}
    Orders = {"big", "little"}
    MaxWishes = 7
SYMMETRY Interchangeable
INVARIANTS PackOK NothingUnwanted GroupsNamed SourcesExact
