SPECIFICATION Safety
CONSTANTS
    lan = lan
    wan = wan
    g = g
    l = l
    s = s
    u = u
    Null = Null
    Any = Any
    Ifs = {lan, wan}
    Volatile = {wan}
    Upstream = wan
    Routable = {g}
    Local = {}
    Unicast = {}
    Sources = {s}
    SubscriptionTimeout = 1
    RobustnessFactor = 2
    Mode = "both"
    Reports <- SourceReports
INVARIANTS VersionStamped
PROPERTIES LiveSubscriptionsKept ImplementsRelay
