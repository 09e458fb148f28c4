SPECIFICATION Safety
CONSTANTS
    lan = lan
    wan = wan
    g = g
    l = l
    s = s
    u = u
    Null = Null
    Any = Any
    Ifs = {lan, wan}
    Volatile = {}
    Upstream = Null
    Routable = {g}
    Local = {}
    Unicast = {u}
    Sources = {}
    SubscriptionTimeout = 1
    RobustnessFactor = 2
    Mode = "mld1only"
    Reports <- UnicastReports
INVARIANTS VersionStamped ListsAgree
