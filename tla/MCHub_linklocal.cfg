SPECIFICATION Safety
CONSTANTS
    lan = lan
    wan = wan
    g = g
    l = l
    s = s
    u = u
    Null = Null
    Any = Any
    Ifs = {lan, wan}
    Volatile = {}
    Upstream = wan
    Routable = {g}
    Local = {l}
    Unicast = {}
    Sources = {}
    SubscriptionTimeout = 1
    RobustnessFactor = 2
    Mode = "both"
    Reports <- JoinAndLocal
INVARIANTS LocalGroupsIgnored
