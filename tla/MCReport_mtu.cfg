SPECIFICATION ReportSpec
CONSTANTS
    g1 = g1
    g2 = g2
    g3 = g3
    g4 = g4
    Any = Any
    None = None
    Groups = {g1, g2, g3, g4}
    Sources = {}
    Others = 2
    Mtus = {33}
    Orders = {"little"}
    MaxWishes = 7
INVARIANTS WithinMtu
