SPECIFICATION Safety
CONSTANTS
    lan = lan
    wan = wan
    g = g
    l = l
    s = s
    u = u
    Null = Null
    Any = Any
    Ifs = {lan, wan}
    Volatile = {}
    Upstream = wan
    Routable = {g}
    Local = {}
    Unicast = {}
    Sources = {}
    SubscriptionTimeout = 1
    RobustnessFactor = 2
    Mode = "both"
    Reports <- NoReports
PROPERTIES QuerierToldWhatIsWanted
